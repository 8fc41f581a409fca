----------------------- MODULE TCPThroughputAdaptation -----------------------
(***************************************************************************)
(* TCPThroughputAdaptation (stream/TCPThroughputAdaptation.cpp): every two *)
(* seconds a thread turns the samples added by the session's queues into a *)
(* vector, up, hold or down, and a predicted throughput, and reports them. *)
(*                                                                         *)
(* Throughputs are small numbers, per measurement; times are ages in       *)
(* seconds, kept up to where they stop to matter. The weights, the mode    *)
(* and the duration samples of the class have no effect and are left out.  *)
(***************************************************************************)
EXTENDS Integers, Sequences, SequencesExt
CONSTANTS
    BufferSizes, SentSizes,     \* what samples say
    Delays,                     \* seconds from one measurement to the next
    kPivotSamples, kSettlementDelay, kIncreaseDelta

VARIABLES
    sent,               \* the sum of m_sentSamples
    bufferSample,       \* the last of m_bufferSizeSamples, in a set of at most one
    m_buffGrowth,       \* the sizes last measured, newest first
    m_turnSamples,      \* throughputs the prediction is the mean of, newest first
    turndownAge, increaseAge,   \* since m_previousTurndown, m_previousIncrease
    m_hasFirstTurndown, m_previousVector,
    m_started, m_exiting,
    thread,             \* where sampleThread is
    report,             \* what it is about to report: vector, sum and count of the mean
    owner               \* where the destructor is
vars == <<sent, bufferSample, m_buffGrowth, m_turnSamples, turndownAge, increaseAge, m_hasFirstTurndown,
          m_previousVector, m_started, m_exiting, thread, report, owner>>
learnt == <<m_buffGrowth, m_turnSamples, turndownAge, increaseAge, m_hasFirstTurndown, m_previousVector>>
samples == <<sent, bufferSample>>

Sum(s) == FoldLeft(LAMBDA a, b : a + b, 0, s)
PushFront(s, x, limit) == SubSeq(<<x>> \o s, 1, IF Len(s) < limit THEN Len(s) + 1 ELSE limit)
Aged(age, d, limit) == IF age + d > limit THEN limit + 1 ELSE age + d

Nothing == [vec |-> 0, sum |-> 0, count |-> 0]

Init ==
    /\ sent = 0 /\ bufferSample = {} /\ m_buffGrowth = <<>> /\ m_turnSamples = <<>>
    /\ turndownAge = kSettlementDelay + 1 /\ increaseAge = kIncreaseDelta + 1
    /\ m_hasFirstTurndown = FALSE /\ m_previousVector = 0
    /\ m_started = FALSE /\ m_exiting = FALSE /\ thread = "none"
    /\ report = Nothing /\ owner = "alive"

start ==
    /\ owner = "alive" /\ ~m_started
    /\ m_started' = TRUE /\ thread' = "test"
    /\ UNCHANGED <<learnt, samples, m_exiting, report, owner>>

\* Bound: one sample of what was sent between two measurements.
addSentBytesSample ==
    /\ owner = "alive" /\ sent = 0
    /\ sent' \in SentSizes
    /\ UNCHANGED <<bufferSample, learnt, m_started, m_exiting, thread, report, owner>>

addBufferSizeSample ==
    /\ owner = "alive"
    /\ \E size \in BufferSizes : bufferSample' = {size}
    /\ UNCHANGED <<sent, learnt, m_started, m_exiting, thread, report, owner>>

reset ==
    /\ owner = "alive" /\ bufferSample # {}
    /\ bufferSample' = {}
    /\ UNCHANGED <<sent, learnt, m_started, m_exiting, thread, report, owner>>

\* Newest first, each size against the one after it in time: 1 if smaller.
\* Mutant: each size against the one before it in time.
Fallen(growth, i) ==
    LET later == IF i = 1 THEN 0 ELSE growth[i - 1]
    IN  IF i > Len(growth) THEN 0 ELSE IF growth[i] > later THEN 1 ELSE IF growth[i] < later THEN -1 ELSE 0
Risen(growth, i) ==
    LET later == IF i = 1 THEN 0 ELSE growth[i - 1]
    IN  IF i > Len(growth) THEN 0 ELSE IF growth[i] > later THEN -1 ELSE IF growth[i] < later THEN 1 ELSE 0
\* There are three at most.
Trend(growth) == Risen(growth, 1) + Risen(growth, 2) + Risen(growth, 3)

MayIncrease(d) ==
    \/ ~m_hasFirstTurndown
    \/ /\ Aged(turndownAge, d, kSettlementDelay) > kSettlementDelay
       /\ Aged(increaseAge, d, kIncreaseDelta) > kIncreaseDelta
Vector(growth, d) ==
    IF Trend(growth) <= 0 /\ MayIncrease(d) THEN 1 ELSE IF Trend(growth) > 0 THEN -1 ELSE 0

\* A turning point is remembered; so is a throughput above the mean.
TurnsFor(vec) ==
    IF m_previousVector < 0 /\ vec >= 0 THEN PushFront(m_turnSamples, sent, kPivotSamples) ELSE m_turnSamples
TurnsAfter(turns) ==
    IF sent * Len(turns) > Sum(turns) \/ (turns = <<>> /\ sent > 0)
    THEN PushFront(turns, sent, kPivotSamples) ELSE turns

MeasureBuffer(size, d) ==
    LET growth == PushFront(m_buffGrowth, size, 3)
        vec == Vector(growth, d)
        turns == TurnsFor(vec)
    IN  /\ m_buffGrowth' = growth
        /\ m_hasFirstTurndown' = (m_hasFirstTurndown \/ vec = -1)
        /\ turndownAge' = IF vec = -1 THEN 0 ELSE Aged(turndownAge, d, kSettlementDelay)
        /\ m_turnSamples' = TurnsAfter(turns)
        /\ m_previousVector' = vec
        /\ report' = [vec |-> vec, sum |-> Sum(turns), count |-> Len(turns)]
MeasureNothing(d) ==
    /\ turndownAge' = Aged(turndownAge, d, kSettlementDelay)
    /\ report' = Nothing
    /\ UNCHANGED <<m_buffGrowth, m_hasFirstTurndown, m_turnSamples, m_previousVector>>

Test ==
    /\ thread = "test"
    /\ thread' = IF m_exiting THEN "left" ELSE "toWait"
    /\ UNCHANGED <<learnt, samples, m_started, m_exiting, report, owner>>
Wait ==
    /\ thread = "toWait"
    /\ thread' = "wait"
    /\ UNCHANGED <<learnt, samples, m_started, m_exiting, report, owner>>

\* Mutant: only the notification ends the wait.
AwakeWhenNotified == thread = "woken"
\* The wait ends with its time or with the notification of the destructor.
Awake == thread \in {"wait", "woken"}
Leave ==
    /\ Awake /\ m_exiting
    /\ thread' = "left"
    /\ UNCHANGED <<learnt, samples, m_started, m_exiting, report, owner>>
Measure ==
    /\ Awake /\ ~m_exiting
    /\ \E d \in Delays :
          /\ \/ \E size \in bufferSample : MeasureBuffer(size, d)
             \/ bufferSample = {} /\ MeasureNothing(d)
          /\ increaseAge' = Aged(increaseAge, d, kIncreaseDelta)
    /\ sent' = 0 /\ bufferSample' = {}
    /\ thread' = "callback"
    /\ UNCHANGED <<m_started, m_exiting, owner>>
Callback ==
    /\ thread = "callback"
    /\ increaseAge' = IF report.vec > 0 THEN 0 ELSE increaseAge
    /\ report' = Nothing
    /\ thread' = "test"
    /\ UNCHANGED <<samples, m_buffGrowth, m_turnSamples, turndownAge, m_hasFirstTurndown, m_previousVector,
                   m_started, m_exiting, owner>>

Destroy ==
    /\ owner = "alive"
    /\ m_exiting' = TRUE /\ owner' = "exit"
    /\ UNCHANGED <<learnt, samples, m_started, thread, report>>
DestroyNotify ==
    /\ owner = "exit"
    /\ thread' = IF thread = "wait" THEN "woken" ELSE thread
    /\ owner' = "join"
    /\ UNCHANGED <<learnt, samples, m_started, m_exiting, report>>
DestroyJoin ==
    /\ owner = "join" /\ (m_started => thread = "left")
    /\ owner' = "gone"
    /\ UNCHANGED <<learnt, samples, m_started, m_exiting, thread, report>>

SampleThread == Test \/ Wait \/ Leave \/ Measure \/ Callback
Destructor == DestroyNotify \/ DestroyJoin
Next == start \/ addSentBytesSample \/ addBufferSizeSample \/ reset \/ SampleThread \/ Destroy \/ Destructor
Fairness == WF_vars(SampleThread) /\ WF_vars(Destructor)
Spec == Init /\ [][Next]_vars /\ Fairness
-----------------------------------------------------------------------------
(* A decrease is reported exactly when the buffer grew over the last three *)
(* measurements that saw it, however old the last turndown is.             *)
Growing == Len(m_buffGrowth) = 3 /\ m_buffGrowth[1] > m_buffGrowth[2] /\ m_buffGrowth[2] > m_buffGrowth[3]
DownWhenGrowing ==
    thread = "callback" /\ report.vec # 0 => (report.vec = -1 <=> Growing)

(* The destructor returns, also when its notification comes between the    *)
(* thread's test and its wait: the wait has a time limit.                  *)
SamplingDestructorReturns == owner = "exit" ~> owner = "gone"
=============================================================================
