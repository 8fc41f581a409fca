-------------------------- MODULE VideoMixer_proof --------------------------
(***************************************************************************)
(* Theorems about VideoMixer, for every value of its constants.            *)
(***************************************************************************)
EXTENDS VideoMixer, TLAPS, SequenceTheorems

-----------------------------------------------------------------------------
(* The inductive invariants. *)

\* A texture chosen is one that was made; 0 is none.
TextureInv ==
  /\ m_pixelBuffers \in [Sources -> SUBSET Nat]
  /\ m_currentTexture \in [Sources -> Nat]
  /\ CurrentTextureExists

Ops == {"texture", "prune", "mix"}
Jobs == [op : Ops, source : Sources \cup {""}, arg : Nat]
QueueType == m_glJobQueue \in Seq(Jobs)

\* The jobs of the mix thread in a queue: none, or one for this frame buffer.
NoMix(q) == \A i \in 1..Len(q) : q[i].op # "mix"
OneMix(q, fb) ==
  \E k \in 1..Len(q) : /\ q[k].op = "mix" /\ q[k].arg = fb
                       /\ \A i \in 1..Len(q) : q[i].op = "mix" => i = k

FrameType ==
  /\ turn \in Nat /\ next \in Nat /\ current_fb \in {0, 1} /\ m_mixing \in BOOLEAN
  /\ drawn \in [{0, 1} -> Nat]

\* While a frame is under way its job is the only one and has the buffer that is
\* not current; the other holds the frame before. Between frames the buffer that
\* is not current holds the last one.
MixingInv ==
  IF m_mixing
  THEN OneMix(m_glJobQueue, 1 - current_fb) /\ turn > 0 /\ drawn[current_fb] = turn - 1
  ELSE NoMix(m_glJobQueue) /\ next = 0 /\ drawn[1 - current_fb] = turn
RunningInv == next # 0 => m_glJobQueue # <<>> /\ m_glJobQueue[1].op = "mix"

FrameInv == QueueType /\ FrameType /\ MixingInv /\ RunningInv /\ PutsOutWholeFrames

-----------------------------------------------------------------------------
(* Jobs put into a queue and taken from it. *)

LEMMA AppendOther ==
  ASSUME NEW q \in Seq(Jobs), NEW j \in Jobs, j.op # "mix"
  PROVE  /\ Append(q, j) \in Seq(Jobs)
         /\ NoMix(q) => NoMix(Append(q, j))
         /\ \A fb : OneMix(q, fb) => OneMix(Append(q, j), fb)
         /\ q # <<>> => Append(q, j) # <<>> /\ Append(q, j)[1] = q[1]
<1>1. PICK n \in Nat : n = Len(q)
  OBVIOUS
<1>2. /\ Append(q, j) \in Seq(Jobs) /\ Len(Append(q, j)) = n + 1
      /\ Append(q, j)[n + 1] = j
      /\ \A i \in 1..n : Append(q, j)[i] = q[i]
  BY <1>1
<1>3. NoMix(q) => NoMix(Append(q, j))
  BY <1>1, <1>2 DEF NoMix
<1>4. ASSUME NEW fb, OneMix(q, fb) PROVE OneMix(Append(q, j), fb)
  <2>1. PICK k \in 1..n : /\ q[k].op = "mix" /\ q[k].arg = fb
                          /\ \A i \in 1..n : q[i].op = "mix" => i = k
    BY <1>1, <1>4 DEF OneMix
  <2>2. k \in 1..(n + 1) /\ Append(q, j)[k] = q[k]
    BY <1>2, <2>1
  <2>3. ASSUME NEW i \in 1..(n + 1), Append(q, j)[i].op = "mix" PROVE i = k
    BY <1>2, <2>1, <2>3
  <2> QED
    BY <1>2, <2>1, <2>2, <2>3 DEF OneMix
<1>5. q # <<>> => Append(q, j) # <<>> /\ Append(q, j)[1] = q[1]
  BY <1>2
<1> QED
  BY <1>2, <1>3, <1>4, <1>5

LEMMA AppendTwo ==
  ASSUME NEW q \in Seq(Jobs), NEW i \in Jobs, NEW j \in Jobs
  PROVE  q \o <<i, j>> = Append(Append(q, i), j)
  OBVIOUS

LEMMA AppendMix ==
  ASSUME NEW q \in Seq(Jobs), NEW j \in Jobs, j.op = "mix", NoMix(q)
  PROVE  Append(q, j) \in Seq(Jobs) /\ OneMix(Append(q, j), j.arg)
<1>1. PICK n \in Nat : n = Len(q)
  OBVIOUS
<1>2. /\ Append(q, j) \in Seq(Jobs) /\ Len(Append(q, j)) = n + 1
      /\ Append(q, j)[n + 1] = j
      /\ \A i \in 1..n : Append(q, j)[i] = q[i]
  BY <1>1
<1>3. \A i \in 1..(n + 1) : Append(q, j)[i].op = "mix" => i = n + 1
  BY <1>1, <1>2 DEF NoMix
<1> QED
  BY <1>2, <1>3 DEF OneMix

LEMMA TailOf ==
  ASSUME NEW q \in Seq(Jobs), q # <<>>
  PROVE  /\ Head(q) = q[1] /\ Head(q) \in Jobs /\ Tail(q) \in Seq(Jobs)
         /\ NoMix(q) => NoMix(Tail(q))
         /\ \A fb : OneMix(q, fb) =>
              IF q[1].op = "mix" THEN NoMix(Tail(q)) /\ q[1].arg = fb ELSE OneMix(Tail(q), fb)
<1>1. PICK n \in Nat : n = Len(q) /\ n >= 1
  OBVIOUS
<1>2. /\ Head(q) = q[1] /\ q[1] \in Jobs /\ Tail(q) \in Seq(Jobs) /\ Len(Tail(q)) = n - 1
      /\ \A i \in 1..(n - 1) : Tail(q)[i] = q[i + 1]
  BY <1>1
<1>3. NoMix(q) => NoMix(Tail(q))
  BY <1>1, <1>2 DEF NoMix
<1>4. ASSUME NEW fb, OneMix(q, fb)
      PROVE  IF q[1].op = "mix" THEN NoMix(Tail(q)) /\ q[1].arg = fb ELSE OneMix(Tail(q), fb)
  <2>1. PICK k \in 1..n : /\ q[k].op = "mix" /\ q[k].arg = fb
                          /\ \A i \in 1..n : q[i].op = "mix" => i = k
    BY <1>1, <1>4 DEF OneMix
  <2>2. CASE q[1].op = "mix"
    <3>1. k = 1
      BY <1>1, <2>1, <2>2
    <3>2. \A i \in 1..(n - 1) : Tail(q)[i].op # "mix"
      BY <1>1, <1>2, <2>1, <3>1
    <3> QED
      BY <1>2, <2>1, <2>2, <3>1, <3>2 DEF NoMix
  <2>3. CASE q[1].op # "mix"
    <3>1. k - 1 \in 1..(n - 1) /\ Tail(q)[k - 1] = q[k]
      BY <1>1, <1>2, <2>1, <2>3
    <3>2. ASSUME NEW i \in 1..(n - 1), Tail(q)[i].op = "mix" PROVE i = k - 1
      BY <1>1, <1>2, <2>1, <3>2
    <3> QED
      BY <1>2, <2>1, <2>3, <3>1, <3>2 DEF OneMix
  <2> QED
    BY <2>2, <2>3
<1> QED
  BY <1>2, <1>3, <1>4

-----------------------------------------------------------------------------
(* The frame buffers. *)

\* Posting a job of a source, and running one.
LEMMA PostFrame ==
  ASSUME FrameInv, NEW j \in Jobs, j.op # "mix", m_glJobQueue' = Append(m_glJobQueue, j),
         UNCHANGED <<turn, next, current_fb, m_mixing, drawn, out>>
  PROVE  FrameInv'
<1>1. QueueType' /\ FrameType' /\ PutsOutWholeFrames'
  BY AppendOther, Zenon DEF FrameInv, QueueType, FrameType, PutsOutWholeFrames
<1>2. MixingInv'
  BY AppendOther, Zenon DEF FrameInv, QueueType, MixingInv
<1>3. RunningInv'
  BY AppendOther, Zenon DEF FrameInv, QueueType, RunningInv
<1> QED
  BY <1>1, <1>2, <1>3, Zenon DEF FrameInv

LEMMA TakeFrame ==
  ASSUME FrameInv, NEW op, op # "mix", Runs(op), m_glJobQueue' = Tail(m_glJobQueue),
         UNCHANGED <<turn, next, current_fb, m_mixing, drawn, out>>
  PROVE  FrameInv'
<1>1. m_glJobQueue \in Seq(Jobs) /\ m_glJobQueue # <<>> /\ next = 0 /\ m_glJobQueue[1].op # "mix"
  BY TailOf, Zenon DEF Runs, FrameInv, QueueType
<1>2. QueueType' /\ FrameType' /\ PutsOutWholeFrames'
  BY <1>1, TailOf, Zenon DEF FrameInv, QueueType, FrameType, PutsOutWholeFrames
<1>3. MixingInv'
  BY <1>1, TailOf, Zenon DEF FrameInv, MixingInv
<1>4. RunningInv'
  BY <1>1, Zenon DEF RunningInv
<1> QED
  BY <1>2, <1>3, <1>4, Zenon DEF FrameInv

\* A step that leaves queue and frames alone.
LEMMA OtherFrame ==
  ASSUME FrameInv, UNCHANGED <<m_glJobQueue, turn, next, current_fb, m_mixing, drawn, out>>
  PROVE  FrameInv'
BY Zenon DEF FrameInv, QueueType, FrameType, MixingInv, RunningInv, PutsOutWholeFrames

LEMMA InitFrame == Init => FrameInv
<1> SUFFICES ASSUME Init PROVE FrameInv
  OBVIOUS
<1>1. /\ m_glJobQueue = <<>> /\ turn = 0 /\ next = 0 /\ current_fb = 0 /\ m_mixing = FALSE
      /\ drawn = [fb \in {0, 1} |-> 0] /\ out = [turn |-> 0, frame |-> 0]
  BY Zenon DEF Init
<1>2. QueueType /\ NoMix(m_glJobQueue)
  <2>1. m_glJobQueue \in Seq(Jobs) /\ Len(m_glJobQueue) = 0
    BY <1>1
  <2>2. 1..Len(m_glJobQueue) = {}
    BY <2>1
  <2> QED
    BY <2>1, <2>2, Zenon DEF QueueType, NoMix
<1>3. drawn \in [{0, 1} -> Nat] /\ drawn[1 - current_fb] = turn /\ turn \in Nat
  <2>1. drawn = [fb \in {0, 1} |-> 0] /\ turn = 0 /\ 1 - current_fb \in {0, 1}
    BY <1>1
  <2> QED
    BY <2>1
<1>4. FrameType /\ RunningInv
  BY <1>1, <1>3, Zenon DEF FrameType, RunningInv
<1>5. PutsOutWholeFrames
  BY <1>1 DEF PutsOutWholeFrames
<1>6. MixingInv
  BY <1>1, <1>2, <1>3, Zenon DEF MixingInv
<1> QED
  BY <1>2, <1>4, <1>5, <1>6, Zenon DEF FrameInv

LEMMA SetBufferFrame ==
  ASSUME FrameInv, NEW s \in Sources, NEW b \in BuffersOf[s], SetBuffer(s, b)
  PROVE  FrameInv'
<1>1. b \in Nat
  BY MixerAssumption
<1>2. /\ Job("texture", s, b) \in Jobs /\ Job("texture", s, b).op # "mix"
      /\ Job("prune", s, b) \in Jobs /\ Job("prune", s, b).op # "mix"
  BY <1>1 DEF Job, Jobs, Ops
<1>3. UNCHANGED <<turn, next, current_fb, m_mixing, drawn, out>>
  BY Zenon DEF SetBuffer, mixVars, drawVars
<1>4. CASE m_glJobQueue' = Append(m_glJobQueue, Job("prune", s, b))
  BY <1>2, <1>3, <1>4, PostFrame, Zenon
<1>5. CASE m_glJobQueue' = m_glJobQueue \o <<Job("texture", s, b), Job("prune", s, b)>>
  <2> DEFINE q == Append(m_glJobQueue, Job("texture", s, b))
  <2>1. m_glJobQueue \in Seq(Jobs)
    BY DEF FrameInv, QueueType
  <2>2. m_glJobQueue' = Append(q, Job("prune", s, b))
    BY <1>2, <1>5, <2>1, AppendTwo, Zenon
  <2> HIDE DEF q
  <2>3. /\ q \in Seq(Jobs)
        /\ NoMix(m_glJobQueue) => NoMix(q)
        /\ \A fb : OneMix(m_glJobQueue, fb) => OneMix(q, fb)
        /\ m_glJobQueue # <<>> => q # <<>> /\ q[1] = m_glJobQueue[1]
    BY <1>2, <2>1, AppendOther, Zenon DEF q
  <2>4. /\ m_glJobQueue' \in Seq(Jobs)
        /\ NoMix(q) => NoMix(m_glJobQueue')
        /\ \A fb : OneMix(q, fb) => OneMix(m_glJobQueue', fb)
        /\ q # <<>> => m_glJobQueue' # <<>> /\ m_glJobQueue'[1] = q[1]
    BY <1>2, <2>2, <2>3, AppendOther, Zenon
  <2>5. QueueType' /\ FrameType' /\ PutsOutWholeFrames'
    BY <1>3, <2>4, Zenon DEF FrameInv, QueueType, FrameType, PutsOutWholeFrames
  <2>6. MixingInv'
    BY <1>3, <2>3, <2>4, Zenon DEF FrameInv, MixingInv
  <2>7. RunningInv'
    BY <1>3, <2>3, <2>4, Zenon DEF FrameInv, RunningInv
  <2> QED
    BY <2>5, <2>6, <2>7, Zenon DEF FrameInv
<1> QED
  BY <1>4, <1>5, Zenon DEF SetBuffer

LEMMA MixTurnFrame ==
  ASSUME FrameInv, MixTurn
  PROVE  FrameInv'
<1> DEFINE j == Job("mix", "", current_fb)
<1>1. /\ m_mixing' = TRUE /\ turn' = turn + 1 /\ m_glJobQueue' = Append(m_glJobQueue, j)
      /\ current_fb' = 1 - current_fb /\ UNCHANGED <<next, drawn, out>> /\ ~m_mixing
  BY Zenon DEF MixTurn, drawVars
<1>2. current_fb \in {0, 1} /\ turn \in Nat /\ next = 0 /\ NoMix(m_glJobQueue)
      /\ drawn[1 - current_fb] = turn /\ drawn \in [{0, 1} -> Nat] /\ m_glJobQueue \in Seq(Jobs)
  BY <1>1, Zenon DEF FrameInv, FrameType, MixingInv, QueueType
<1>3. j \in Jobs /\ j.op = "mix" /\ j.arg = current_fb
  <2>1. current_fb \in Nat
    BY <1>2
  <2> QED
    BY <2>1 DEF Job, Jobs, Ops
<1> HIDE DEF j
<1>4. m_glJobQueue' \in Seq(Jobs) /\ OneMix(m_glJobQueue', current_fb)
  BY <1>1, <1>2, <1>3, AppendMix, Zenon
<1>5. turn' \in Nat /\ turn' > 0 /\ current_fb' \in {0, 1} /\ 1 - current_fb' = current_fb
      /\ drawn'[current_fb'] = turn' - 1
  BY <1>1, <1>2
<1>6. MixingInv'
  BY <1>1, <1>4, <1>5, Zenon DEF MixingInv
<1>7. FrameType' /\ QueueType' /\ PutsOutWholeFrames' /\ RunningInv'
  BY <1>1, <1>2, <1>4, <1>5, Zenon DEF FrameInv, FrameType, QueueType, PutsOutWholeFrames, RunningInv
<1> QED
  BY <1>6, <1>7, Zenon DEF FrameInv

LEMMA MixBeginFrame ==
  ASSUME FrameInv, MixBegin
  PROVE  FrameInv'
<1>1. /\ next = 0 /\ m_glJobQueue # <<>> /\ Head(m_glJobQueue).op = "mix" /\ next' = 1
      /\ UNCHANGED <<m_glJobQueue, turn, current_fb, m_mixing, drawn, out>>
  BY Zenon DEF MixBegin, Runs, mixVars
<1>2. m_glJobQueue \in Seq(Jobs) /\ m_glJobQueue[1].op = "mix" /\ 1 \in 1..Len(m_glJobQueue)
  <2>1. m_glJobQueue \in Seq(Jobs)
    BY DEF FrameInv, QueueType
  <2>2. Head(m_glJobQueue) = m_glJobQueue[1] /\ 1 \in 1..Len(m_glJobQueue)
    BY <1>1, <2>1
  <2> QED
    BY <1>1, <2>1, <2>2, Zenon
<1>3. m_mixing
  BY <1>2, Zenon DEF FrameInv, MixingInv, NoMix
<1>4. next' \in Nat
  BY <1>1
<1>5. FrameType' /\ QueueType' /\ PutsOutWholeFrames'
  BY <1>1, <1>4, Zenon DEF FrameInv, FrameType, QueueType, PutsOutWholeFrames
<1>6. MixingInv' /\ RunningInv'
  BY <1>1, <1>2, <1>3, Zenon DEF FrameInv, MixingInv, RunningInv
<1> QED
  BY <1>5, <1>6, Zenon DEF FrameInv

LEMMA DrawLayerFrame ==
  ASSUME FrameInv, DrawLayer, m_layerMap \in Seq(Sources)
  PROVE  FrameInv'
<1>1. /\ next \in DOMAIN m_layerMap /\ next' = next + 1
      /\ UNCHANGED <<m_glJobQueue, turn, current_fb, m_mixing, drawn, out>>
  BY Zenon DEF DrawLayer, mixVars
<1>2. next # 0 /\ next' \in Nat /\ next' # 0
  BY <1>1 DEF FrameInv, FrameType
<1>3. FrameType' /\ QueueType' /\ PutsOutWholeFrames'
  BY <1>1, <1>2, Zenon DEF FrameInv, FrameType, QueueType, PutsOutWholeFrames
<1>4. m_mixing
  BY <1>2, Zenon DEF FrameInv, MixingInv
<1>5. MixingInv' /\ RunningInv'
  BY <1>1, <1>2, <1>4, Zenon DEF FrameInv, MixingInv, RunningInv
<1> QED
  BY <1>3, <1>5, Zenon DEF FrameInv

LEMMA MixEndFrame ==
  ASSUME FrameInv, MixEnd, m_layerMap \in Seq(Sources)
  PROVE  FrameInv'
<1> DEFINE fb == Head(m_glJobQueue).arg
<1>1. /\ next > Len(m_layerMap) /\ drawn' = [drawn EXCEPT ![fb] = turn]
      /\ out' = [turn |-> turn, frame |-> drawn[1 - fb]] /\ next' = 0 /\ m_mixing' = FALSE
      /\ m_glJobQueue' = Tail(m_glJobQueue) /\ UNCHANGED <<turn, current_fb>>
  BY Zenon DEF MixEnd
<1>2. next # 0
  BY <1>1 DEF FrameInv, FrameType
<1>3. m_mixing /\ m_glJobQueue # <<>> /\ m_glJobQueue[1].op = "mix" /\ m_glJobQueue \in Seq(Jobs)
      /\ OneMix(m_glJobQueue, 1 - current_fb) /\ turn > 0 /\ drawn[current_fb] = turn - 1
  BY <1>2, Zenon DEF FrameInv, MixingInv, RunningInv, QueueType
<1>4. m_glJobQueue' \in Seq(Jobs) /\ NoMix(m_glJobQueue') /\ fb = 1 - current_fb
  BY <1>1, <1>3, TailOf, Zenon
<1> HIDE DEF fb
<1>5. current_fb \in {0, 1} /\ turn \in Nat /\ drawn \in [{0, 1} -> Nat]
  BY Zenon DEF FrameInv, FrameType
<1>6. 1 - fb = current_fb /\ fb \in {0, 1} /\ 1 - current_fb' = fb
  BY <1>1, <1>4, <1>5
<1>7. drawn' \in [{0, 1} -> Nat] /\ drawn'[1 - current_fb'] = turn'
  BY <1>1, <1>5, <1>6
<1>8. out'.frame = out'.turn - 1
  BY <1>1, <1>3, <1>6
<1>9. FrameType' /\ QueueType' /\ PutsOutWholeFrames' /\ RunningInv'
  <2>1. next' \in Nat /\ turn' \in Nat /\ current_fb' \in {0, 1} /\ m_mixing' \in BOOLEAN
    BY <1>1, <1>5
  <2> QED
    BY <1>1, <1>4, <1>7, <1>8, <2>1, Zenon DEF FrameType, QueueType, PutsOutWholeFrames, RunningInv
<1>10. MixingInv'
  BY <1>1, <1>4, <1>7, Zenon DEF MixingInv
<1> QED
  BY <1>9, <1>10, Zenon DEF FrameInv

\* m_layerMap holds sources.
LayerInv == m_layerMap \in Seq(Sources)

LEMMA InitLayer == Init => LayerInv
<1> SUFFICES ASSUME Init PROVE LayerInv
  OBVIOUS
<1>1. m_layerMap = <<>>
  BY Zenon DEF Init
<1> QED
  BY <1>1 DEF LayerInv

LEMMA StepLayer == LayerInv /\ [Next]_vars => LayerInv'
<1> SUFFICES ASSUME LayerInv, [Next]_vars PROVE LayerInv'
  OBVIOUS
<1>1. ASSUME NEW s \in Sources, SetLayer(s) PROVE LayerInv'
  <2>1. m_layerMap' = m_layerMap \/ m_layerMap' = Append(m_layerMap, s)
    BY <1>1, Zenon DEF SetLayer
  <2> QED
    BY <2>1 DEF LayerInv
<1>2. UNCHANGED m_layerMap => LayerInv'
  BY DEF LayerInv
<1>3. ASSUME NEW s \in Sources, NEW b \in BuffersOf[s], SetBuffer(s, b) PROVE UNCHANGED m_layerMap
  BY <1>3, Zenon DEF SetBuffer
<1>4. ASSUME NEW s \in Filtered, NEW name \in Chosen, SetSourceFilter(s, name) PROVE UNCHANGED m_layerMap
  BY <1>4, Zenon DEF SetSourceFilter
<1>5. CASE MixPaused \/ MixTurn \/ MixBegin \/ MixEnd
  BY <1>2, <1>5, Zenon DEF MixPaused, MixTurn, MixBegin, MixEnd, tableVars
<1>6. CASE TextureJob \/ PruneJob \/ DrawLayer
  BY <1>2, <1>6, Zenon DEF TextureJob, PruneJob, DrawLayer
<1>7. CASE UNCHANGED vars
  BY <1>2, <1>7, Zenon DEF vars, tableVars
<1> QED
  BY <1>1, <1>2, <1>3, <1>4, <1>5, <1>6, <1>7, Zenon DEF Next

LEMMA StepFrame == FrameInv /\ LayerInv /\ [Next]_vars => FrameInv'
<1> SUFFICES ASSUME FrameInv, LayerInv, [Next]_vars PROVE FrameInv'
  OBVIOUS
<1>1. ASSUME NEW s \in Sources, SetLayer(s) PROVE FrameInv'
  BY <1>1, OtherFrame, Zenon DEF SetLayer, mixVars, drawVars
<1>2. ASSUME NEW s \in Sources, NEW b \in BuffersOf[s], SetBuffer(s, b) PROVE FrameInv'
  BY <1>2, SetBufferFrame, Zenon
<1>3. ASSUME NEW s \in Filtered, NEW name \in Chosen, SetSourceFilter(s, name) PROVE FrameInv'
  BY <1>3, OtherFrame, Zenon DEF SetSourceFilter, mixVars, drawVars
<1>4. CASE MixPaused
  BY <1>4, OtherFrame, Zenon DEF MixPaused, mixVars, drawVars
<1>5. CASE MixTurn
  BY <1>5, MixTurnFrame, Zenon
<1>6. CASE TextureJob
  <2>1. "texture" # "mix"
    OBVIOUS
  <2> QED
    BY <1>6, <2>1, TakeFrame, Zenon DEF TextureJob, mixVars, drawVars
<1>7. CASE PruneJob
  <2>1. "prune" # "mix"
    OBVIOUS
  <2> QED
    BY <1>7, <2>1, TakeFrame, Zenon DEF PruneJob, mixVars, drawVars
<1>8. CASE MixBegin
  BY <1>8, MixBeginFrame, Zenon
<1>9. CASE DrawLayer
  BY <1>9, DrawLayerFrame, Zenon DEF LayerInv
<1>10. CASE MixEnd
  BY <1>10, MixEndFrame, Zenon DEF LayerInv
<1>11. CASE UNCHANGED vars
  BY <1>11, OtherFrame, Zenon DEF vars, mixVars, drawVars
<1> QED
  BY <1>1, <1>2, <1>3, <1>4, <1>5, <1>6, <1>7, <1>8, <1>9, <1>10, <1>11, Zenon DEF Next

\* What mixThread puts out in a turn is the frame of the turn before, however
\* many jobs of sources lie between and however often a turn was left out.
THEOREM WholeFramesPutOut == Spec => []PutsOutWholeFrames
<1>1. FrameInv => PutsOutWholeFrames
  BY Zenon DEF FrameInv
<1> QED
  BY <1>1, InitLayer, InitFrame, StepFrame, StepLayer, PTL DEF Spec

-----------------------------------------------------------------------------
(* The textures. *)

LEMMA InitTexture == Init => TextureInv
<1> SUFFICES ASSUME Init PROVE TextureInv
  OBVIOUS
<1>1. m_pixelBuffers = [s \in Sources |-> {}] /\ m_currentTexture = [s \in Sources |-> 0]
  BY Zenon DEF Init
<1> QED
  BY <1>1 DEF TextureInv, CurrentTextureExists

LEMMA StepTexture == TextureInv /\ FrameInv /\ [Next]_vars => TextureInv'
<1> SUFFICES ASSUME TextureInv, FrameInv, [Next]_vars PROVE TextureInv'
  OBVIOUS
<1>1. ASSUME UNCHANGED <<m_pixelBuffers, m_currentTexture>> PROVE TextureInv'
  BY <1>1 DEF TextureInv, CurrentTextureExists
<1>2. ASSUME NEW s \in Sources, NEW b \in BuffersOf[s], SetBuffer(s, b) PROVE TextureInv'
  <2>1. b \in Nat
    BY MixerAssumption
  <2>2. CASE b \in m_pixelBuffers[s]
    <3>1. m_currentTexture' = [m_currentTexture EXCEPT ![s] = b] /\ UNCHANGED m_pixelBuffers
      BY <1>2, <2>2, Zenon DEF SetBuffer
    <3> QED
      BY <2>1, <2>2, <3>1 DEF TextureInv, CurrentTextureExists
  <2>3. CASE b \notin m_pixelBuffers[s]
    <3>1. UNCHANGED <<m_pixelBuffers, m_currentTexture>>
      BY <1>2, <2>3, Zenon DEF SetBuffer
    <3> QED
      BY <1>1, <3>1
  <2> QED
    BY <2>2, <2>3
<1>3. ASSUME NEW s \in Sources, SetLayer(s) PROVE TextureInv'
  BY <1>1, <1>3, Zenon DEF SetLayer
<1>4. ASSUME NEW s \in Filtered, NEW name \in Chosen, SetSourceFilter(s, name) PROVE TextureInv'
  BY <1>1, <1>4, Zenon DEF SetSourceFilter
<1>5. CASE TextureJob
  <2> DEFINE s == Head(m_glJobQueue).source
             b == Head(m_glJobQueue).arg
  <2>1. b \in Nat
    <3>1. Head(m_glJobQueue) \in Jobs
      BY <1>5, TailOf, Zenon DEF TextureJob, Runs, FrameInv, QueueType
    <3> QED
      BY <3>1 DEF Jobs
  <2>2. \/ /\ m_pixelBuffers' = [m_pixelBuffers EXCEPT ![s] = m_pixelBuffers[s] \cup {b}]
           /\ m_currentTexture' = [m_currentTexture EXCEPT ![s] = b]
        \/ UNCHANGED <<m_pixelBuffers, m_currentTexture>>
    BY <1>5, Zenon DEF TextureJob
  <2> HIDE DEF s, b
  <2>3. CASE /\ m_pixelBuffers' = [m_pixelBuffers EXCEPT ![s] = m_pixelBuffers[s] \cup {b}]
             /\ m_currentTexture' = [m_currentTexture EXCEPT ![s] = b]
    BY <2>1, <2>3 DEF TextureInv, CurrentTextureExists
  <2> QED
    BY <1>1, <2>2, <2>3
<1>6. CASE PruneJob
  <2> DEFINE s == Head(m_glJobQueue).source
             b == Head(m_glJobQueue).arg
  <2>1. m_pixelBuffers' = [m_pixelBuffers EXCEPT ![s] = Kept(s, b)] /\ UNCHANGED m_currentTexture
    BY <1>6, Zenon DEF PruneJob
  <2> HIDE DEF s, b
  <2> QED
    BY <2>1 DEF Kept, TextureInv, CurrentTextureExists
<1>7. CASE MixPaused \/ MixTurn \/ MixBegin \/ MixEnd
  BY <1>1, <1>7, Zenon DEF MixPaused, MixTurn, MixBegin, MixEnd, tableVars
<1>8. CASE DrawLayer
  BY <1>1, <1>8, Zenon DEF DrawLayer
<1>9. CASE UNCHANGED vars
  BY <1>1, <1>9, Zenon DEF vars, tableVars
<1> QED
  BY <1>2, <1>3, <1>4, <1>5, <1>6, <1>7, <1>8, <1>9, Zenon DEF Next

\* The blocks of setBuffer release no texture that its source is drawn with,
\* whatever was pushed and whichever texture could not be made before they run.
THEOREM CurrentTextureKept == Spec => []CurrentTextureExists
<1>1. TextureInv => CurrentTextureExists
  BY DEF TextureInv
<1> QED
  BY <1>1, InitLayer, InitFrame, StepFrame, StepLayer, InitTexture, StepTexture, PTL DEF Spec

-----------------------------------------------------------------------------
(* The filters and the context. *)

Vaos == Names \cup {"none"}
Objects == [initialized : BOOLEAN, vao : Vaos, matrix : Nat]
Contexts == [program : Vaos, vao : Vaos, layout : [Vaos -> Vaos], uMat : [Names -> Nat]]
FiltersType(fs) == DOMAIN fs \subseteq Names /\ fs \in [DOMAIN fs -> Objects]

\* A filter that makes ES3 calls has been set up in an ES2 context.
Es3(fs, e) == \E n \in DOMAIN fs : fs[n].initialized /\ ~HasVertexArrays(n, e)

\* A filter with a vertex array holds its own, and until then it is laid out for it.
LaidOut(fs, g, e) ==
  \A n \in DOMAIN fs : fs[n].initialized /\ HasVertexArrays(n, e) =>
    fs[n].vao = n /\ (g.layout[n] = n \/ Es3(fs, e))
ContextInv(fs, g, e) == FiltersType(fs) /\ g \in Contexts /\ LaidOut(fs, g, e)

\* initialize changes its filter, and the vertex array it is laid out in.
LEMMA InitializedFilterIs ==
  ASSUME NEW fs, NEW name \in DOMAIN fs, NEW e, FiltersType(fs)
  PROVE  LET new == InitializedFilter(fs, name, e)
         IN  /\ DOMAIN new = DOMAIN fs /\ FiltersType(new)
             /\ new[name].initialized
             /\ new[name].vao = IF HasVertexArrays(name, e) THEN name ELSE "none"
             /\ \A n \in DOMAIN fs : n # name => new[n] = fs[n]
<1> DEFINE v == IF HasVertexArrays(name, e) THEN name ELSE "none"
           new == InitializedFilter(fs, name, e)
           object == [fs[name] EXCEPT !.initialized = TRUE, !.vao = v]
<1>1. v \in Vaos /\ name \in Names
  BY DEF Vaos, FiltersType
<1>2. new = [fs EXCEPT ![name].initialized = TRUE, ![name].vao = v]
  BY DEF InitializedFilter
<1> HIDE DEF v, new
<1>3. fs \in [DOMAIN fs -> Objects] /\ fs[name] \in Objects /\ DOMAIN fs \subseteq Names
  BY DEF FiltersType
<1>4. object \in Objects /\ object.initialized = TRUE /\ object.vao = v
  BY <1>1, <1>3 DEF Objects
<1>5. new = [fs EXCEPT ![name] = object]
  BY <1>2, <1>3 DEF Objects
<1> HIDE DEF object
<1>6. /\ DOMAIN new = DOMAIN fs /\ new \in [DOMAIN fs -> Objects] /\ new[name] = object
      /\ \A n \in DOMAIN fs : n # name => new[n] = fs[n]
  BY <1>3, <1>4, <1>5
<1>7. FiltersType(new)
  BY <1>3, <1>6, Zenon DEF FiltersType
<1> QED
  BY <1>4, <1>6, <1>7, Zenon DEF v, new

LEMMA InitializedContextIs ==
  ASSUME NEW g \in Contexts, NEW name \in Names, NEW e
  PROVE  LET new == InitializedContext(g, name, e)
         IN  /\ new \in Contexts
             /\ HasVertexArrays(name, e) =>
                  new.layout[name] = name /\ \A n \in Names : n # name => new.layout[n] = g.layout[n]
<1> DEFINE vao == IF HasVertexArrays(name, e) THEN name ELSE g.vao
           new == InitializedContext(g, name, e)
<1>1. vao \in Vaos /\ name \in Vaos
  BY DEF Vaos, Contexts
<1>2. new = [g EXCEPT !.vao = vao, !.layout[vao] = name]
  BY DEF InitializedContext
<1>3. HasVertexArrays(name, e) => vao = name
  OBVIOUS
<1> HIDE DEF vao, new
<1>4. new = [g EXCEPT !.vao = vao, !.layout = [g.layout EXCEPT ![vao] = name]]
  BY <1>1, <1>2 DEF Contexts
<1>5. [g.layout EXCEPT ![vao] = name] \in [Vaos -> Vaos]
  BY <1>1 DEF Contexts
<1>6. new \in Contexts /\ new.layout = [g.layout EXCEPT ![vao] = name]
  BY <1>1, <1>4, <1>5 DEF Contexts
<1>7. HasVertexArrays(name, e) =>
        new.layout[name] = name /\ \A n \in Names : n # name => new.layout[n] = g.layout[n]
  BY <1>1, <1>3, <1>6 DEF Contexts, Vaos
<1> QED
  BY <1>6, <1>7, Zenon DEF new

\* An initialization keeps the vertex arrays of the others, or calls ES3 in vain.
LEMMA InitializeKeeps ==
  ASSUME NEW fs, NEW g, NEW e, NEW name \in DOMAIN fs, ContextInv(fs, g, e)
  PROVE  LET new == InitializedFilter(fs, name, e)
         IN  /\ ContextInv(new, InitializedContext(g, name, e), e)
             /\ DOMAIN new = DOMAIN fs /\ new[name].initialized
             /\ \A n \in DOMAIN fs : fs[n].initialized => new[n].initialized
<1> DEFINE new == InitializedFilter(fs, name, e)
           context == InitializedContext(g, name, e)
<1>1. FiltersType(fs) /\ g \in Contexts /\ LaidOut(fs, g, e) /\ name \in Names
  BY DEF ContextInv, FiltersType
<1>2. /\ DOMAIN new = DOMAIN fs /\ FiltersType(new) /\ new[name].initialized
      /\ new[name].vao = IF HasVertexArrays(name, e) THEN name ELSE "none"
      /\ \A n \in DOMAIN fs : n # name => new[n] = fs[n]
  BY <1>1, InitializedFilterIs, Zenon
<1>3. /\ context \in Contexts
      /\ HasVertexArrays(name, e) =>
           context.layout[name] = name /\ \A n \in Names : n # name => context.layout[n] = g.layout[n]
  BY <1>1, InitializedContextIs
<1> HIDE DEF new, context
<1>4. Es3(fs, e) => Es3(new, e)
  BY <1>2, Zenon DEF Es3
<1>5. ~HasVertexArrays(name, e) => Es3(new, e)
  BY <1>2, Zenon DEF Es3
<1>6. ASSUME NEW n \in DOMAIN new, new[n].initialized, HasVertexArrays(n, e)
      PROVE  new[n].vao = n /\ (context.layout[n] = n \/ Es3(new, e))
  <2>1. CASE n = name
    BY <1>2, <1>3, <1>6, <2>1, Zenon
  <2>2. CASE n # name
    <3>1. fs[n].initialized /\ n \in DOMAIN fs /\ new[n] = fs[n] /\ n \in Names
      BY <1>1, <1>2, <1>6, <2>2, Zenon DEF FiltersType
    <3>2. fs[n].vao = n /\ (g.layout[n] = n \/ Es3(fs, e))
      BY <1>1, <1>6, <3>1, Zenon DEF LaidOut
    <3> QED
      BY <1>3, <1>4, <1>5, <2>2, <3>1, <3>2, Zenon
  <2> QED
    BY <2>1, <2>2
<1>7. LaidOut(new, context, e)
  BY <1>6, Zenon DEF LaidOut
<1>8. \A n \in DOMAIN fs : fs[n].initialized => new[n].initialized
  BY <1>2, Zenon
<1> QED
  BY <1>2, <1>3, <1>7, <1>8, Zenon DEF ContextInv, new, context

Loaded(fs, name, matrix) == [fs EXCEPT ![name].matrix = matrix]

\* bind, after the matrix has been set: what the draw finds.
LEMMA BindKeeps ==
  ASSUME NEW fs, NEW g, NEW e, NEW name \in DOMAIN fs, NEW matrix \in Nat,
         ContextInv(fs, g, e), fs[name].initialized
  PROVE  LET loaded == Loaded(fs, name, matrix)
             bound == Bound(g, loaded, name, e)
         IN  /\ ContextInv(loaded, bound, e)
             /\ DOMAIN loaded = DOMAIN fs
             /\ \A n \in DOMAIN fs : loaded[n].initialized = fs[n].initialized
             /\ bound.program = name /\ bound.uMat[name] = matrix
             /\ bound.layout[bound.vao] = name \/ Es3(loaded, e)
<1> DEFINE object == [fs[name] EXCEPT !.matrix = matrix]
           loaded == Loaded(fs, name, matrix)
           bound == Bound(g, loaded, name, e)
           vao == IF HasVertexArrays(name, e) THEN fs[name].vao ELSE g.vao
<1>1. /\ fs \in [DOMAIN fs -> Objects] /\ fs[name] \in Objects /\ DOMAIN fs \subseteq Names
      /\ name \in Names /\ g \in Contexts /\ LaidOut(fs, g, e)
  BY DEF ContextInv, FiltersType
<1>2. object \in Objects /\ object.matrix = matrix /\ object.vao = fs[name].vao
      /\ object.initialized = fs[name].initialized
  BY <1>1 DEF Objects
<1>3. loaded = [fs EXCEPT ![name] = object]
  BY <1>1 DEF Objects, Loaded
<1> HIDE DEF object
<1>4. /\ DOMAIN loaded = DOMAIN fs /\ loaded \in [DOMAIN fs -> Objects] /\ loaded[name] = object
      /\ \A n \in DOMAIN fs : n # name => loaded[n] = fs[n]
  BY <1>1, <1>2, <1>3
<1>5. bound = [g EXCEPT !.program = name,
                        !.vao = IF HasVertexArrays(name, e) THEN loaded[name].vao ELSE g.vao,
                        !.uMat[name] = loaded[name].matrix]
  BY <1>1 DEF Bound, Contexts
<1> HIDE DEF loaded, bound
<1>6. bound = [g EXCEPT !.program = name, !.vao = vao, !.uMat = [g.uMat EXCEPT ![name] = matrix]]
  BY <1>1, <1>2, <1>4, <1>5 DEF Contexts
<1>7. vao \in Vaos /\ name \in Vaos
  BY <1>1 DEF Vaos, Contexts, Objects
<1>8. [g.uMat EXCEPT ![name] = matrix] \in [Names -> Nat] /\ [g.uMat EXCEPT ![name] = matrix][name] = matrix
  BY <1>1 DEF Contexts
<1> HIDE DEF vao
<1>9. /\ bound \in Contexts /\ bound.program = name /\ bound.vao = vao /\ bound.layout = g.layout
      /\ bound.uMat = [g.uMat EXCEPT ![name] = matrix]
  BY <1>1, <1>6, <1>7, <1>8 DEF Contexts
<1>10. \A n \in DOMAIN fs : loaded[n].initialized = fs[n].initialized /\ loaded[n].vao = fs[n].vao
  BY <1>2, <1>4, Zenon
<1>11. Es3(loaded, e) <=> Es3(fs, e)
  BY <1>4, <1>10, Zenon DEF Es3
<1>12. LaidOut(loaded, bound, e)
  BY <1>1, <1>4, <1>9, <1>10, <1>11, ZenonT(60) DEF LaidOut
<1>13. FiltersType(loaded)
  BY <1>1, <1>4, Zenon DEF FiltersType
<1>14. bound.layout[bound.vao] = name \/ Es3(loaded, e)
  <2>1. CASE HasVertexArrays(name, e)
    <3>1. vao = name /\ (g.layout[name] = name \/ Es3(fs, e))
      BY <1>1, <2>1, Zenon DEF LaidOut, vao
    <3> QED
      BY <1>9, <1>11, <3>1, Zenon
  <2>2. CASE ~HasVertexArrays(name, e)
    BY <1>11, <2>2, Zenon DEF Es3
  <2> QED
    BY <2>1, <2>2
<1> QED
  BY <1>4, <1>8, <1>9, <1>10, <1>12, <1>13, <1>14, Zenon DEF ContextInv, loaded, bound

\* FilterFactory::filter keeps the objects it has and makes an uninitialized one.
LEMMA FilterKeeps ==
  ASSUME NEW fs, NEW g, NEW e, NEW name \in Names, ContextInv(fs, g, e)
  PROVE  LET made == filter(fs, name)
         IN  /\ ContextInv(made, g, e)
             /\ DOMAIN made = DOMAIN fs \cup {name}
             /\ \A n \in DOMAIN fs : made[n] = fs[n]
<1> DEFINE made == filter(fs, name)
<1>1. FiltersType(fs) /\ g \in Contexts /\ LaidOut(fs, g, e)
  BY DEF ContextInv
<1>2. NewFilter \in Objects /\ NewFilter.initialized = FALSE
  BY DEF NewFilter, Objects, Vaos
<1>3. /\ DOMAIN made = DOMAIN fs \cup {name}
      /\ \A n \in DOMAIN made : made[n] = IF n \in DOMAIN fs THEN fs[n] ELSE NewFilter
      /\ made = [n \in DOMAIN made |-> made[n]]
  BY DEF filter
<1> HIDE DEF made
<1>4. FiltersType(made)
  <2>1. \A n \in DOMAIN made : made[n] \in Objects
    BY <1>1, <1>2, <1>3 DEF FiltersType
  <2>2. made \in [DOMAIN made -> Objects]
    BY <1>3, <2>1
  <2> QED
    BY <1>1, <1>3, <2>2 DEF FiltersType
<1>5. \A n \in DOMAIN made : made[n].initialized => n \in DOMAIN fs /\ made[n] = fs[n]
  BY <1>2, <1>3, Zenon
<1>6. Es3(fs, e) => Es3(made, e)
  BY <1>3, Zenon DEF Es3
<1>7. LaidOut(made, g, e)
  BY <1>1, <1>5, <1>6, Zenon DEF LaidOut
<1> QED
  BY <1>1, <1>3, <1>4, <1>7, Zenon DEF ContextInv, made

-----------------------------------------------------------------------------
(* What is drawn. *)

SourceType ==
  /\ pushes \in Nat /\ pushing \in [Sources -> Nat] /\ m_sourceMats \in [Sources -> Nat]
  /\ m_sourceFilters \in [Sources -> Names \cup {""}]

\* A texture is of its own source already while its job waits.
SourceJobs == {j \in Jobs : j.op = "texture" => j.source \in Sources /\ j.arg \in BuffersOf[j.source]}
OwnBuffers ==
  /\ m_glJobQueue \in Seq(SourceJobs)
  /\ \A s \in Sources : m_pixelBuffers[s] \subseteq BuffersOf[s]

\* The filter of a source has an object, and the one in use is initialized.
FiltersMade ==
  /\ \A s \in Sources : m_sourceFilters[s] # "" => m_sourceFilters[s] \in DOMAIN m_filters
  /\ currentFilter # "" => currentFilter \in DOMAIN m_filters /\ m_filters[currentFilter].initialized

DrawInv == SourceType /\ FiltersMade /\ ContextInv(m_filters, gl, es) /\ DrawsOwnState

LEMMA InitBuffers == Init => OwnBuffers
<1> SUFFICES ASSUME Init PROVE OwnBuffers
  OBVIOUS
<1>1. m_glJobQueue = <<>> /\ m_pixelBuffers = [s \in Sources |-> {}]
  BY Zenon DEF Init
<1> QED
  BY <1>1 DEF OwnBuffers

LEMMA StepBuffers == OwnBuffers /\ TextureInv /\ FrameInv /\ LayerInv /\ [Next]_vars => OwnBuffers'
<1> SUFFICES ASSUME OwnBuffers, TextureInv, FrameInv, LayerInv, [Next]_vars PROVE OwnBuffers'
  OBVIOUS
<1>1. ASSUME UNCHANGED m_pixelBuffers,
             UNCHANGED m_glJobQueue \/ \E j \in SourceJobs : m_glJobQueue' = Append(m_glJobQueue, j)
      PROVE  OwnBuffers'
  BY <1>1 DEF OwnBuffers
<1>2. ASSUME NEW s \in Sources, NEW b \in BuffersOf[s], SetBuffer(s, b) PROVE OwnBuffers'
  <2>1. b \in Nat
    BY MixerAssumption
  <2>2. Job("texture", s, b) \in SourceJobs /\ Job("prune", s, b) \in SourceJobs
    BY <2>1 DEF Job, SourceJobs, Jobs, Ops
  <2>3. \/ m_glJobQueue' = Append(m_glJobQueue, Job("prune", s, b))
        \/ m_glJobQueue' = m_glJobQueue \o <<Job("texture", s, b), Job("prune", s, b)>>
    BY <1>2, Zenon DEF SetBuffer
  <2>4. m_glJobQueue' \in Seq(SourceJobs)
    BY <2>2, <2>3 DEF OwnBuffers
  <2>5. UNCHANGED m_pixelBuffers
    BY <1>2, Zenon DEF SetBuffer
  <2> QED
    BY <2>4, <2>5, Zenon DEF OwnBuffers
<1>3. ASSUME NEW s \in Sources, SetLayer(s) PROVE OwnBuffers'
  BY <1>1, <1>3, Zenon DEF SetLayer
<1>4. ASSUME NEW s \in Filtered, NEW name \in Chosen, SetSourceFilter(s, name) PROVE OwnBuffers'
  BY <1>1, <1>4, Zenon DEF SetSourceFilter
<1>5. CASE MixPaused \/ MixBegin
  BY <1>1, <1>5, Zenon DEF MixPaused, MixBegin, tableVars
<1>6. CASE MixTurn
  <2>1. Job("mix", "", current_fb) \in SourceJobs
    <3>1. current_fb \in Nat
      BY DEF FrameInv, FrameType
    <3> QED
      BY <3>1 DEF Job, SourceJobs, Jobs, Ops
  <2> QED
    BY <1>1, <1>6, <2>1, Zenon DEF MixTurn, tableVars
<1>7. ASSUME m_glJobQueue # <<>> PROVE Head(m_glJobQueue) \in SourceJobs /\ Tail(m_glJobQueue) \in Seq(SourceJobs)
  BY <1>7 DEF OwnBuffers
<1>8. CASE TextureJob
  <2> DEFINE s == Head(m_glJobQueue).source
             b == Head(m_glJobQueue).arg
  <2>1. m_glJobQueue # <<>> /\ Head(m_glJobQueue).op = "texture" /\ m_glJobQueue' = Tail(m_glJobQueue)
    BY <1>8, Zenon DEF TextureJob, Runs
  <2>2. s \in Sources /\ b \in BuffersOf[s]
    BY <1>7, <2>1, Zenon DEF SourceJobs
  <2>3. m_pixelBuffers' = [m_pixelBuffers EXCEPT ![s] = m_pixelBuffers[s] \cup {b}] \/ UNCHANGED m_pixelBuffers
    BY <1>8, Zenon DEF TextureJob
  <2> HIDE DEF s, b
  <2>4. \A t \in Sources : m_pixelBuffers'[t] \subseteq BuffersOf[t]
    BY <2>2, <2>3 DEF OwnBuffers, TextureInv
  <2> QED
    BY <1>7, <2>1, <2>4, Zenon DEF OwnBuffers
<1>9. CASE PruneJob
  <2> DEFINE s == Head(m_glJobQueue).source
             b == Head(m_glJobQueue).arg
  <2>1. m_glJobQueue # <<>> /\ m_glJobQueue' = Tail(m_glJobQueue)
        /\ m_pixelBuffers' = [m_pixelBuffers EXCEPT ![s] = Kept(s, b)]
    BY <1>9, Zenon DEF PruneJob, Runs
  <2> HIDE DEF s, b
  <2>2. \A t \in Sources : m_pixelBuffers'[t] \subseteq m_pixelBuffers[t]
    BY <2>1 DEF Kept, TextureInv
  <2>3. \A t \in Sources : m_pixelBuffers'[t] \subseteq BuffersOf[t]
    BY <2>2 DEF OwnBuffers
  <2> QED
    BY <1>7, <2>1, <2>3, Zenon DEF OwnBuffers
<1>10. CASE DrawLayer
  BY <1>1, <1>10, Zenon DEF DrawLayer
<1>11. CASE MixEnd
  <2>1. next > Len(m_layerMap) /\ m_glJobQueue' = Tail(m_glJobQueue) /\ UNCHANGED m_pixelBuffers
    BY <1>11, Zenon DEF MixEnd, tableVars
  <2>2. next # 0
    BY <2>1 DEF FrameInv, FrameType, LayerInv
  <2>3. m_glJobQueue # <<>>
    BY <2>2, Zenon DEF FrameInv, RunningInv
  <2> QED
    BY <1>7, <2>1, <2>3, Zenon DEF OwnBuffers
<1>12. CASE UNCHANGED vars
  BY <1>1, <1>12, Zenon DEF vars, tableVars
<1> QED
  BY <1>2, <1>3, <1>4, <1>5, <1>6, <1>8, <1>9, <1>10, <1>11, <1>12, Zenon DEF Next

LEMMA InitDraw == Init => DrawInv
<1> SUFFICES ASSUME Init PROVE DrawInv
  OBVIOUS
<1>1. /\ pushes = 0 /\ pushing = [s \in Sources |-> 0] /\ m_sourceMats = [s \in Sources |-> 0]
      /\ m_sourceFilters = [s \in Sources |-> ""] /\ m_filters = [n \in {} |-> NewFilter]
      /\ gl = NewContext /\ currentFilter = "" /\ draw = NoDraw
  BY Zenon DEF Init
<1>2. SourceType
  BY <1>1 DEF SourceType
<1>3. FiltersMade
  BY <1>1 DEF FiltersMade
<1>4. gl \in Contexts
  BY <1>1 DEF NewContext, Contexts, Vaos
<1>5. DOMAIN m_filters = {} /\ m_filters \in [DOMAIN m_filters -> Objects]
  BY <1>1
<1>6. ContextInv(m_filters, gl, es)
  BY <1>4, <1>5 DEF ContextInv, FiltersType, LaidOut
<1>7. DrawsOwnState
  BY <1>1, Zenon DEF DrawsOwnState
<1> QED
  BY <1>2, <1>3, <1>6, <1>7, Zenon DEF DrawInv

LEMMA SetSourceFilterDraw ==
  ASSUME DrawInv, NEW s \in Filtered, NEW name \in Chosen, SetSourceFilter(s, name)
  PROVE  DrawInv'
<1>1. s \in Sources /\ name \in Names
  BY MixerAssumption
<1>2. /\ m_filters' = filter(m_filters, name) /\ m_sourceFilters' = [m_sourceFilters EXCEPT ![s] = name]
      /\ UNCHANGED <<es, pushes, pushing, m_sourceMats, gl, currentFilter, draw>>
  BY Zenon DEF SetSourceFilter, sourceVars, drawVars
<1>3. SourceType /\ FiltersMade /\ ContextInv(m_filters, gl, es) /\ DrawsOwnState
  BY DEF DrawInv
<1>4. /\ ContextInv(m_filters', gl, es) /\ DOMAIN m_filters' = DOMAIN m_filters \cup {name}
      /\ \A n \in DOMAIN m_filters : m_filters'[n] = m_filters[n]
  BY <1>1, <1>2, <1>3, FilterKeeps, ZenonT(60)
<1>5. SourceType'
  BY <1>1, <1>2, <1>3 DEF SourceType
<1>6. FiltersMade'
  <2>1. \A t \in Sources : m_sourceFilters'[t] = IF t = s THEN name ELSE m_sourceFilters[t]
    BY <1>1, <1>2, <1>3 DEF SourceType
  <2> QED
    BY <1>2, <1>3, <1>4, <2>1, Zenon DEF FiltersMade
<1>7. Es3Called => Es3Called'
  BY <1>2, <1>4, Zenon DEF Es3Called
<1>8. DrawsOwnState'
  BY <1>2, <1>3, <1>7, Zenon DEF DrawsOwnState
<1> QED
  BY <1>2, <1>4, <1>5, <1>6, <1>8, Zenon DEF DrawInv

\* Whatever the layer before left bound.
LEMMA DrawLayerDraw ==
  ASSUME DrawInv, TextureInv, OwnBuffers, LayerInv, DrawLayer
  PROVE  DrawInv'
<1> DEFINE s == m_layerMap[next]
           name == IF m_sourceFilters[s] = "" THEN "bgra" ELSE m_sourceFilters[s]
           made == IF m_sourceFilters[s] = "" THEN filter(m_filters, name) ELSE m_filters
           fresh == currentFilter # name /\ ~made[name].initialized
           ready == IF fresh THEN InitializedFilter(made, name, es) ELSE made
           context == IF fresh THEN InitializedContext(gl, name, es) ELSE gl
           loaded == Loaded(ready, name, m_sourceMats[s])
           bound == Bound(context, loaded, name, es)
<1>1. SourceType /\ FiltersMade /\ ContextInv(m_filters, gl, es) /\ DrawsOwnState
  BY DEF DrawInv
<1>2. s \in Sources /\ m_sourceMats[s] \in Nat
  <2>1. s \in Sources
    <3>1. next \in DOMAIN m_layerMap
      BY Zenon DEF DrawLayer
    <3> QED
      BY <3>1 DEF LayerInv
  <2> QED
    BY <1>1, <2>1 DEF SourceType
<1>3. /\ m_sourceFilters' = [m_sourceFilters EXCEPT ![s] = name] /\ currentFilter' = name
      /\ UNCHANGED <<es, pushes, pushing, m_sourceMats>>
      /\ IF m_currentTexture[s] # 0
         THEN /\ m_filters' = loaded
              /\ gl' = bound
              /\ draw' = [source |-> s, filter |-> name, program |-> bound.program,
                          layout |-> bound.layout[bound.vao],
                          own |-> /\ bound.uMat[bound.program] = m_sourceMats[s]
                                  /\ m_currentTexture[s] \in m_pixelBuffers[s] \cap BuffersOf[s]]
         ELSE m_filters' = ready /\ gl' = context /\ UNCHANGED draw
  BY Zenon DEF DrawLayer, sourceVars, Loaded
<1>4. name \in Names /\ name # ""
  <2>1. "bgra" \in Names
    BY DEF Names, s_registration, BasicVideoFilterBGRA
  <2> QED
    BY <1>1, <1>2, <2>1 DEF SourceType
<1>5. /\ ContextInv(made, gl, es) /\ name \in DOMAIN made
      /\ \A n \in DOMAIN m_filters : n \in DOMAIN made /\ made[n] = m_filters[n]
  <2>1. CASE m_sourceFilters[s] = ""
    <3>1. made = filter(m_filters, name)
      BY <2>1
    <3> HIDE DEF name, made
    <3>2. ContextInv(made, gl, es) /\ DOMAIN made = DOMAIN m_filters \cup {name}
          /\ \A n \in DOMAIN m_filters : made[n] = m_filters[n]
      BY <1>1, <1>4, <3>1, FilterKeeps, ZenonT(60)
    <3> QED
      BY <3>2
  <2>2. CASE m_sourceFilters[s] # ""
    BY <1>1, <1>2, <2>2, Zenon DEF FiltersMade
  <2> QED
    BY <2>1, <2>2
<1> HIDE DEF s, name, made
<1>6. /\ ContextInv(ready, context, es) /\ DOMAIN ready = DOMAIN made /\ ready[name].initialized
      /\ \A n \in DOMAIN made : made[n].initialized => ready[n].initialized
  <2>1. CASE fresh
    BY <1>5, <2>1, InitializeKeeps
  <2>2. CASE ~fresh
    <3>1. CASE currentFilter = name
      <4>1. name \in DOMAIN m_filters /\ m_filters[name].initialized
        BY <1>1, <1>4, <3>1, Zenon DEF FiltersMade
      <4> QED
        BY <1>5, <2>2, <4>1, Zenon
    <3>2. CASE made[name].initialized
      BY <1>5, <2>2, <3>2, Zenon
    <3> QED
      BY <2>2, <3>1, <3>2, Zenon
  <2> QED
    BY <2>1, <2>2
<1> HIDE DEF fresh, ready, context
<1>7. /\ ContextInv(loaded, bound, es) /\ DOMAIN loaded = DOMAIN ready
      /\ \A n \in DOMAIN ready : loaded[n].initialized = ready[n].initialized
      /\ bound.program = name /\ bound.uMat[name] = m_sourceMats[s]
      /\ bound.layout[bound.vao] = name \/ Es3(loaded, es)
  <2>1. name \in DOMAIN ready
    BY <1>5, <1>6
  <2>2. ContextInv(ready, context, es) /\ ready[name].initialized /\ m_sourceMats[s] \in Nat
    BY <1>2, <1>6, Zenon
  <2> QED
    BY <2>1, <2>2, BindKeeps
<1> HIDE DEF loaded, bound
\* Both ways the filters keep what they were, and the new one is ready.
<1>8. /\ ContextInv(m_filters', gl', es) /\ DOMAIN m_filters' = DOMAIN made
      /\ m_filters'[name].initialized
      /\ \A n \in DOMAIN m_filters : m_filters[n].initialized => m_filters'[n].initialized
  BY <1>3, <1>5, <1>6, <1>7, Zenon
<1>9. SourceType'
  BY <1>1, <1>2, <1>3, <1>4 DEF SourceType
<1>10. FiltersMade'
  <2>1. \A t \in Sources : m_sourceFilters'[t] = IF t = s THEN name ELSE m_sourceFilters[t]
    BY <1>1, <1>2, <1>3 DEF SourceType
  <2> QED
    <3>1. \A t \in Sources : m_sourceFilters'[t] # "" => m_sourceFilters'[t] \in DOMAIN m_filters'
      BY <1>1, <1>5, <1>8, <2>1, Zenon DEF FiltersMade
    <3>2. currentFilter' \in DOMAIN m_filters' /\ m_filters'[currentFilter'].initialized
      BY <1>3, <1>5, <1>8, Zenon
    <3> QED
      BY <3>1, <3>2, Zenon DEF FiltersMade
<1>11. Es3Called => Es3Called'
  BY <1>3, <1>5, <1>8, Zenon DEF Es3Called
<1>12. DrawsOwnState'
  <2>1. CASE m_currentTexture[s] # 0
    <3> DEFINE own == /\ bound.uMat[bound.program] = m_sourceMats[s]
                      /\ m_currentTexture[s] \in m_pixelBuffers[s] \cap BuffersOf[s]
    <3>1. draw' = [source |-> s, filter |-> name, program |-> bound.program,
                   layout |-> bound.layout[bound.vao], own |-> own] /\ m_filters' = loaded
      BY <1>3, <2>1, Zenon
    <3>2. m_currentTexture[s] \in m_pixelBuffers[s] /\ m_currentTexture[s] \in BuffersOf[s]
      BY <1>2, <2>1, Zenon DEF TextureInv, CurrentTextureExists, OwnBuffers
    <3>3. own
      BY <1>7, <3>2
    <3> HIDE DEF own
    <3>4. draw'.own /\ draw'.program = bound.program /\ draw'.filter = name
          /\ draw'.layout = bound.layout[bound.vao]
      BY <3>1, <3>3, Zenon
    <3>5. draw'.layout = draw'.filter \/ Es3Called'
      BY <1>3, <1>7, <3>1, <3>4, Zenon DEF Es3Called, Es3
    <3> QED
      BY <1>7, <3>4, <3>5, Zenon DEF DrawsOwnState
  <2>2. CASE m_currentTexture[s] = 0
    BY <1>1, <1>3, <1>11, <2>2, Zenon DEF DrawsOwnState
  <2> QED
    BY <2>1, <2>2
<1> QED
  BY <1>3, <1>8, <1>9, <1>10, <1>12, Zenon DEF DrawInv

LEMMA StepDraw == DrawInv /\ TextureInv /\ OwnBuffers /\ LayerInv /\ [Next]_vars => DrawInv'
<1> SUFFICES ASSUME DrawInv, TextureInv, OwnBuffers, LayerInv, [Next]_vars PROVE DrawInv'
  OBVIOUS
<1>1. ASSUME UNCHANGED <<es, m_sourceFilters, m_filters, gl, currentFilter, draw>>, SourceType' PROVE DrawInv'
  BY <1>1, Zenon DEF DrawInv, FiltersMade, DrawsOwnState, Es3Called
<1>2. ASSUME UNCHANGED <<pushes, pushing, m_sourceMats, m_sourceFilters>> PROVE SourceType'
  BY <1>2, Zenon DEF DrawInv, SourceType
<1>3. ASSUME NEW s \in Sources, NEW b \in BuffersOf[s], SetBuffer(s, b) PROVE DrawInv'
  <2>1. /\ pushes' = pushes + 1 /\ pushing' = [pushing EXCEPT ![s] = pushes + 1]
        /\ UNCHANGED <<es, m_sourceMats, m_sourceFilters, m_filters, gl, currentFilter, draw>>
    BY <1>3, Zenon DEF SetBuffer, drawVars
  <2>2. SourceType
    BY DEF DrawInv
  <2>3. pushes' \in Nat /\ pushing' \in [Sources -> Nat]
    <3>1. pushes \in Nat /\ pushing \in [Sources -> Nat]
      BY <2>2, Zenon DEF SourceType
    <3>2. pushes + 1 \in Nat
      BY <3>1
    <3> QED
      BY <2>1, <3>1, <3>2, Zenon
  <2>4. SourceType'
    BY <2>1, <2>2, <2>3, Zenon DEF SourceType
  <2> QED
    BY <1>1, <2>1, <2>4
<1>4. ASSUME NEW s \in Sources, SetLayer(s) PROVE DrawInv'
  <2>1. /\ m_sourceMats' = [m_sourceMats EXCEPT ![s] = pushing[s]] /\ pushing' = [pushing EXCEPT ![s] = 0]
        /\ UNCHANGED <<es, pushes, m_sourceFilters, m_filters, gl, currentFilter, draw>>
    BY <1>4, Zenon DEF SetLayer, drawVars
  <2>2. SourceType
    BY DEF DrawInv
  <2>3. m_sourceMats' \in [Sources -> Nat] /\ pushing' \in [Sources -> Nat]
    BY <2>1, <2>2 DEF SourceType
  <2>4. SourceType'
    BY <2>1, <2>2, <2>3, Zenon DEF SourceType
  <2> QED
    BY <1>1, <2>1, <2>4
<1>5. ASSUME NEW s \in Filtered, NEW name \in Chosen, SetSourceFilter(s, name) PROVE DrawInv'
  BY <1>5, SetSourceFilterDraw, Zenon
<1>6. CASE MixPaused \/ MixTurn \/ TextureJob \/ PruneJob \/ MixEnd
  <2>1. UNCHANGED <<pushes, pushing, m_sourceMats, es, m_sourceFilters, m_filters, gl, currentFilter, draw>>
    BY <1>6, Zenon DEF MixPaused, MixTurn, TextureJob, PruneJob, MixEnd, sourceVars, tableVars, drawVars
  <2> QED
    BY <1>1, <1>2, <2>1, Zenon
<1>7. CASE MixBegin
  <2>1. /\ currentFilter' = ""
        /\ UNCHANGED <<pushes, pushing, m_sourceMats, es, m_sourceFilters, m_filters, gl, draw>>
    BY <1>7, Zenon DEF MixBegin, sourceVars, tableVars
  <2> QED
    BY <1>2, <2>1, Zenon DEF DrawInv, FiltersMade, DrawsOwnState, Es3Called
<1>8. CASE DrawLayer
  BY <1>8, DrawLayerDraw, Zenon
<1>9. CASE UNCHANGED vars
  <2>1. UNCHANGED <<pushes, pushing, m_sourceMats, es, m_sourceFilters, m_filters, gl, currentFilter, draw>>
    BY <1>9, Zenon DEF vars, sourceVars, tableVars, drawVars
  <2> QED
    BY <1>1, <1>2, <2>1, Zenon
<1> QED
  BY <1>3, <1>4, <1>5, <1>6, <1>7, <1>8, <1>9, Zenon DEF Next

\* Whatever order the layers and their filters come in, mixThread draws each
\* with its source's program, vertex layout, matrix and texture: what an
\* initialize or a bind leaves in the context never shows in another's draw,
\* until a filter has called ES3 in an ES2 context.
THEOREM LayersDrawOwnState == Spec => []DrawsOwnState
<1>1. DrawInv => DrawsOwnState
  BY DEF DrawInv
<1> QED
  BY <1>1, InitLayer, InitFrame, StepFrame, StepLayer, InitTexture, StepTexture, InitBuffers, StepBuffers,
     InitDraw, StepDraw, PTL DEF Spec
=============================================================================
