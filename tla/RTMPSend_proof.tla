--------------------------- MODULE RTMPSend_proof ---------------------------
(***************************************************************************)
(* Theorems about RTMPSend, for every value of its constants.              *)
(***************************************************************************)
EXTENDS RTMPSend, TLAPS, SequenceTheorems, WellFoundedInduction

-----------------------------------------------------------------------------
(* The inductive invariants. *)

\* The message before the one the network thread is at did not go out whole.
Gap == finished >= 1 /\ ~Complete(finished)

\* m_sentKeyframe names a keyframe: one that was queued, or the job's own.
KeyframeInv ==
  /\ sentKeyframe \in 1..Len(msgs) => msgs[sentKeyframe].key
  /\ sentKeyframe = Writing => jobPC \in {"clear", "enqueue"} /\ job.key
  /\ jobPC = "clear" /\ job.key => sentKeyframe = Writing

\* What went out of each message, and what the network thread has left to send.
ProgressInv ==
  /\ \A j \in 1..Len(msgs) : j > Current \/ (j = Current /\ netPC = "idle") => sent[j] = 0
  /\ \A j \in 1..Len(msgs) : sent[j] <= msgs[j].size
  /\ netPC # "idle" =>
       /\ tosend + sent[Current] >= msgs[Current].size
       /\ ~broken => tosend + sent[Current] = msgs[Current].size

\* Behind a gap m_clearing stays set until the network thread itself resets it,
\* and it does that for a keyframe only.
GapInv ==
  /\ netPC = "idle" /\ Gap => clearing \/ ending
  /\ netPC = "loop" /\ Gap => clearing \/ ending \/ msgs[Current].key
  /\ netPC = "testClearing" /\ Gap => clearing \/ msgs[Current].key
  /\ netPC = "testKeyframe" => clearing
  /\ netPC \in {"unclear", "write", "wait"} /\ Gap => msgs[Current].key
  /\ netPC \in {"load", "store"} /\ ~Complete(Current) => clearing \/ ending

ResumeInv == KeyframeInv /\ ProgressInv /\ GapInv /\ ResumeAtKeyframe

\* A clear that is pending ends at a keyframe the network thread has not passed.
ClearInv ==
  clearing /\ ~ending =>
    /\ sentKeyframe >= Current
    /\ netPC \in {"write", "wait", "load", "store"} => sentKeyframe > Current
    /\ netPC = "loop" /\ sent[Current] > 0 => sentKeyframe > Current

\* The stages of the destructor and the sync job in m_jobQueue.
SyncAt(i) == jobs[i].kind = "sync"

DestroyInv ==
  /\ dtorPC # "alive" => ending
  /\ jobExiting \/ netExiting => ending
  /\ dtorPC \notin {"alive", "ending"} => jobExiting
  /\ dtorPC # "jobQueueWait" => \A i \in 1..Len(jobs) : ~SyncAt(i)
  /\ \A i, k \in 1..Len(jobs) : SyncAt(i) /\ SyncAt(k) => i = k
  /\ dtorPC \in {"jobQueueDone", "netQueueWait", "done"} => jobPC = "idle"
  /\ dtorPC = "netQueueWait" => syncAt = Len(msgs)
  /\ dtorPC = "done" => netPC = "idle" /\ finished = Len(msgs)

-----------------------------------------------------------------------------
(* Type correctness. *)

LEMMA MessageFields ==
  ASSUME NEW m \in Messages
  PROVE  m.size \in Nat \ {0} /\ m.key \in BOOLEAN /\ m.kind \in Kinds
BY SizesAssumption DEF Messages

\* A job taken from m_jobQueue that is not the sync is a message once it has
\* the chunk size.
LEMMA JobMakesMessage ==
  ASSUME NEW j \in Jobs \cup {SyncJob}, j.kind # "sync",
         NEW c \in {InitialChunk, PageSize}
  PROVE  [kind |-> j.kind, key |-> j.key, size |-> j.size, chunk |-> c] \in Messages
BY DEF Jobs, SyncJob, Messages

LEMMA TypeInit == Init => TypeOK
<1> SUFFICES ASSUME Init PROVE TypeOK
  OBVIOUS
<1>1. /\ jobs \in Seq(Jobs \cup {SyncJob})
      /\ msgs \in Seq(Messages) /\ sent \in Seq(Nat)
      /\ Len(msgs) = 0 /\ Len(sent) = 0
  BY DEF Init
<1>2. job \in {NoJob} /\ jobPC = "idle"
  BY DEF Init
<1>3. finished \in 0..Len(msgs) /\ sentKeyframe \in 0..Writing /\ syncAt \in 0..Len(msgs)
  BY <1>1 DEF Init, Writing
<1>4. /\ maxSendBufferSize \in SendLimits
      /\ loadedByJob \in Nat /\ loadedByNet \in Nat /\ bufferSize \in Nat
      /\ tosend \in Nat /\ semaphore \in Nat
      /\ outChunkSize \in {InitialChunk, PageSize}
  BY DEF Init
<1>5. /\ clearing \in BOOLEAN /\ raced \in BOOLEAN /\ ending \in BOOLEAN
      /\ jobExiting \in BOOLEAN /\ netExiting \in BOOLEAN
      /\ space \in BOOLEAN /\ broken \in BOOLEAN
      /\ netPC = "idle" /\ dtorPC = "alive"
  BY DEF Init
<1>6. QED
  BY <1>1, <1>2, <1>3, <1>4, <1>5 DEF TypeOK

LEMMA TypeStep == TypeOK /\ [Next]_vars => TypeOK'
<1> SUFFICES ASSUME TypeOK, [Next]_vars PROVE TypeOK'
  OBVIOUS
<1> USE LimitsAssumption, BoundsAssumption DEF TypeOK, Writing, Current
<1>m. /\ \A i \in 1..Len(msgs) : msgs[i].size \in Nat
      /\ jobPC # "idle" => job.size \in Nat
  BY MessageFields
<1>1. ASSUME NEW z \in Sizes, NEW k \in BOOLEAN, PushBuffer(z, k) PROVE TypeOK'
  BY <1>1 DEF PushBuffer, Enqueue, Jobs, Kinds, jobVars, netVars, dtorVars, sockVars,
              sendVars, logVars
<1>2. CASE SendSetChunkSize
  BY <1>2 DEF SendSetChunkSize, Enqueue, Jobs, Kinds, jobVars, netVars, dtorVars, sockVars,
              sendVars, logVars
<1>3. CASE SendPong
  BY <1>3 DEF SendPong, Enqueue, Jobs, Kinds, jobVars, netVars, dtorVars, sockVars,
              sendVars, logVars
<1>4. ASSUME NEW n \in SendLimits, SetMaxSendBufferSize(n) PROVE TypeOK'
  BY <1>4 DEF SetMaxSendBufferSize, jobVars, netVars, dtorVars, sockVars, sendVars, logVars
<1>5. CASE JobStart
  <2>1. /\ jobs' \in Seq(Jobs \cup {SyncJob})
        /\ Head(jobs) \in Jobs \cup {SyncJob} /\ Head(jobs).kind # "sync"
    BY <1>5 DEF JobStart
  <2>2. CASE JobSkipped(Head(jobs))
    BY <2>1, <2>2, <1>5 DEF JobStart, jobFrame, netVars, dtorVars, sockVars, sendVars, logVars
  <2>3. CASE ~JobSkipped(Head(jobs))
    <3>1. job' \in Messages /\ jobPC' = "load"
      BY <2>1, <2>3, <1>5, JobMakesMessage DEF JobStart
    <3>2. QED
      BY <3>1, <2>1, <1>5 DEF JobStart, jobFrame, netVars, dtorVars, sockVars, sendVars, logVars
  <2>4. QED
    BY <2>2, <2>3
<1>6. CASE JobSync
  BY <1>6 DEF JobSync, jobVars, netVars, sockVars, sendVars, logVars
<1>7. CASE JobLoad
  BY <1>7 DEF JobLoad, jobFrame, netVars, dtorVars, sockVars, logVars
<1>8. CASE JobStore
  BY <1>m, <1>8 DEF JobStore, NonNegative, jobFrame, netVars, dtorVars, sockVars, logVars
<1>9. CASE JobKeyframe
  BY <1>9 DEF JobKeyframe, jobFrame, netVars, dtorVars, sockVars, logVars
<1>10. CASE JobClear
  BY <1>10 DEF JobClear, OverLimit, jobFrame, netVars, dtorVars, sockVars, logVars
<1>11. CASE JobEnqueue
  BY <1>11 DEF JobEnqueue, ChunkSizeAfterJob, jobFrame, netVars, dtorVars, sockVars, sendVars
<1>12. CASE NetStart
  BY SMTT(30), <1>m, <1>12 DEF NetStart, netFrame, jobVars, dtorVars, sockVars, sendVars, logVars
<1>13. CASE NetLoop
  BY <1>13 DEF NetLoop, netFrame, jobVars, dtorVars, sockVars, sendVars, logVars
<1>14. CASE NetTestClearing
  BY <1>14 DEF NetTestClearing, netFrame, jobVars, dtorVars, sockVars, sendVars, logVars
<1>15. CASE NetTestKeyframe
  BY <1>15 DEF NetTestKeyframe, netFrame, jobVars, dtorVars, sockVars, sendVars, logVars
<1>16. CASE NetUnclear
  <2>1. clearing' \in BOOLEAN
    BY <1>16 DEF NetUnclear
  <2>2. QED
    BY <2>1, <1>16 DEF NetUnclear, netFrame, jobVars, dtorVars, sockVars, logVars
<1>17. CASE NetWrite
  <2> PICK n \in 1..tosend : /\ sent' = [sent EXCEPT ![Current] = @ + n]
                             /\ tosend' = tosend - n
    BY <1>17 DEF NetWrite
  <2>1. tosend' \in Nat
    OBVIOUS
  <2>2. Current \in 1..Len(sent) /\ sent[Current] + n \in Nat
    BY SMTT(30), <1>17 DEF NetWrite
  <2>3. sent' \in Seq(Nat) /\ Len(sent') = Len(sent)
    BY <2>2, ExceptSeq
  <2>4. space' \in BOOLEAN /\ netPC' = "loop"
    BY <1>17 DEF NetWrite
  <2>5. finished < Len(msgs)
    BY <1>17 DEF NetWrite
  <2>6. QED
    BY <2>1, <2>3, <2>4, <2>5, <1>17 DEF NetWrite, jobVars, dtorVars, sendVars
<1>18. CASE NetWriteNothing
  BY <1>18 DEF NetWriteNothing, netFrame, jobVars, dtorVars, sockVars, sendVars, logVars
<1>19. CASE NetWriteError
  BY <1>19 DEF NetWriteError, netFrame, jobVars, dtorVars, sockVars, sendVars, logVars
<1>20. CASE NetWait
  BY <1>20 DEF NetWait, netFrame, jobVars, dtorVars, sendVars, logVars
<1>21. CASE NetLoad
  BY <1>21 DEF NetLoad, netFrame, jobVars, dtorVars, sockVars, logVars
<1>22. CASE NetStore
  BY SMTT(30), <1>m, <1>22 DEF NetStore, NonNegative, SizeReturned, netFrame, jobVars, dtorVars,
                     sockVars, logVars
<1>23. CASE DtorEnding
  BY <1>23 DEF DtorEnding, dtorFrame, jobVars, netVars, sockVars, sendVars, logVars
<1>24. CASE DtorJobQueue
  BY <1>24 DEF DtorJobQueue, dtorFrame, jobVars, netVars, sockVars, sendVars, logVars
<1>25. CASE DtorNetworkQueue
  BY <1>25 DEF DtorNetworkQueue, dtorFrame, jobVars, netVars, sockVars, sendVars, logVars
<1>26. CASE DtorReturn
  BY <1>26 DEF DtorReturn, dtorFrame, jobVars, netVars, sockVars, sendVars, logVars
<1>27. CASE HasSpaceAvailable
  BY <1>27 DEF HasSpaceAvailable, sockFrame, jobVars, netVars, dtorVars, sendVars, logVars
<1>28. CASE StreamFails
  BY <1>28 DEF StreamFails, sockFrame, jobVars, netVars, dtorVars, sendVars, logVars
<1>29. CASE UNCHANGED vars
  BY <1>29 DEF vars, jobVars, netVars, dtorVars, sockVars, sendVars, logVars
<1>30. QED
  BY <1>1, <1>2, <1>3, <1>4, <1>5, <1>6, <1>7, <1>8, <1>9, <1>10, <1>11, <1>12, <1>13,
     <1>14, <1>15, <1>16, <1>17, <1>18, <1>19, <1>20, <1>21, <1>22, <1>23, <1>24, <1>25,
     <1>26, <1>27, <1>28, <1>29 DEF Next, Callers, JobThread, NetworkThread, Destructor

\* The state of the sending half of RTMPSession is always well typed.
THEOREM TypeCorrect == Spec => []TypeOK
BY TypeInit, TypeStep, PTL DEF Spec

-----------------------------------------------------------------------------
(* Which variables the actors leave alone. *)

writerVars == <<msgs, jobPC, job, sentKeyframe>>

LEMMA OthersKeepWriter ==
  Callers \/ NetworkThread \/ Destructor \/ HasSpaceAvailable \/ StreamFails \/ JobSync
    => UNCHANGED writerVars
<1> USE DEF writerVars, jobVars, sendVars, logVars, netFrame, dtorFrame, sockFrame
<1>1. Callers => UNCHANGED writerVars
  BY DEF Callers, PushBuffer, SendSetChunkSize, SendPong, Enqueue, SetMaxSendBufferSize
<1>2. NetworkThread => UNCHANGED writerVars
  BY DEF NetworkThread, NetStart, NetLoop, NetTestClearing, NetTestKeyframe, NetUnclear,
         NetWrite, NetWriteNothing, NetWriteError, NetWait, NetLoad, NetStore
<1>3. Destructor => UNCHANGED writerVars
  BY DEF Destructor, DtorEnding, DtorJobQueue, DtorNetworkQueue, DtorReturn
<1>4. HasSpaceAvailable \/ StreamFails \/ JobSync => UNCHANGED writerVars
  BY DEF HasSpaceAvailable, StreamFails, JobSync
<1>5. QED
  BY <1>1, <1>2, <1>3, <1>4

readerVars == <<msgs, sent, finished, netPC, tosend, broken, clearing, ending,
                jobExiting, netExiting>>

LEMMA OthersKeepReader ==
  Callers \/ HasSpaceAvailable \/ JobStart \/ JobSync \/ JobLoad \/ JobStore \/ JobKeyframe
    => UNCHANGED readerVars
<1> USE DEF readerVars, jobVars, netVars, dtorVars, sockVars, sendVars, logVars,
            jobFrame, sockFrame
<1>1. Callers => UNCHANGED readerVars
  BY DEF Callers, PushBuffer, SendSetChunkSize, SendPong, Enqueue, SetMaxSendBufferSize
<1>2. HasSpaceAvailable => UNCHANGED readerVars
  BY DEF HasSpaceAvailable
<1>3. JobStart \/ JobSync \/ JobLoad \/ JobStore \/ JobKeyframe => UNCHANGED readerVars
  BY DEF JobStart, JobSync, JobLoad, JobStore, JobKeyframe
<1>4. QED
  BY <1>1, <1>2, <1>3

-----------------------------------------------------------------------------
(* The destructor. *)

LEMMA DestroyInit == Init => DestroyInv
BY DEF Init, DestroyInv

destroyVars == <<jobs, jobPC, msgs, netPC, finished, dtorVars>>

LEMMA DestroyStep ==
  TypeOK /\ DestroyInv /\ [Next]_vars => DestroyInv'
<1> SUFFICES ASSUME TypeOK, DestroyInv, [Next]_vars PROVE DestroyInv'
  OBVIOUS
<1> USE DEF SyncAt
<1>t. /\ jobs \in Seq(Jobs \cup {SyncJob}) /\ Len(jobs) \in Nat
      /\ Len(msgs) \in Nat /\ finished \in 0..Len(msgs)
  BY DEF TypeOK
<1>1. CASE UNCHANGED destroyVars
  BY <1>1 DEF DestroyInv, destroyVars, dtorVars
<1>2. ASSUME NEW j \in Jobs, Enqueue(j), j.kind # "sync" PROVE DestroyInv'
  <2>1. /\ jobs' = Append(jobs, j)
        /\ UNCHANGED <<jobPC, msgs, netPC, finished, dtorVars>>
    BY <1>2 DEF Enqueue, jobVars, netVars, logVars
  <2>2. /\ Len(jobs') = Len(jobs) + 1 /\ jobs'[Len(jobs) + 1] = j
        /\ \A i \in 1..Len(jobs) : jobs'[i] = jobs[i]
    BY <2>1, <1>t
  <2>3. QED
    BY <2>1, <2>2, <1>2, <1>t DEF DestroyInv, dtorVars
<1>3. CASE Callers
  <2>1. ASSUME NEW z \in Sizes, NEW k \in BOOLEAN, PushBuffer(z, k) PROVE DestroyInv'
    BY <2>1, <1>2 DEF PushBuffer, Jobs, Kinds
  <2>2. CASE SendSetChunkSize
    BY <2>2, <1>2 DEF SendSetChunkSize, Jobs, Kinds
  <2>3. CASE SendPong
    BY <2>3, <1>2 DEF SendPong, Jobs, Kinds
  <2>4. ASSUME NEW n \in SendLimits, SetMaxSendBufferSize(n) PROVE UNCHANGED destroyVars
    BY <2>4 DEF SetMaxSendBufferSize, destroyVars, jobVars, netVars, logVars
  <2>5. QED
    BY <1>1, <1>3, <2>1, <2>2, <2>3, <2>4 DEF Callers
<1>4. CASE JobStart
  <2>1. /\ jobs # <<>> /\ jobs' = Tail(jobs) /\ jobPC = "idle"
        /\ jobPC' # "idle" => ~jobExiting
        /\ UNCHANGED <<msgs, netPC, finished, dtorVars>>
    BY <1>4 DEF JobStart, JobSkipped, jobFrame, netVars, logVars
  <2>2. /\ Len(jobs') = Len(jobs) - 1
        /\ \A i \in 1..Len(jobs') : jobs'[i] = jobs[i + 1]
    BY <2>1, <1>t
  <2>3. QED
    BY <2>1, <2>2, <1>t DEF DestroyInv, dtorVars
<1>5. CASE JobSync
  <2>1. /\ jobs # <<>> /\ jobs' = Tail(jobs) /\ jobPC = "idle" /\ jobPC' = "idle"
        /\ Head(jobs).kind = "sync" /\ dtorPC' = "jobQueueDone"
        /\ UNCHANGED <<msgs, netPC, finished, ending, jobExiting, netExiting, syncAt>>
    BY <1>5 DEF JobSync, jobVars, netVars, logVars
  <2>2. /\ Len(jobs) >= 1 /\ SyncAt(1)
        /\ Len(jobs') = Len(jobs) - 1
        /\ \A i \in 1..Len(jobs') : jobs'[i] = jobs[i + 1]
    BY <2>1, <1>t
  <2>3. dtorPC = "jobQueueWait"
    BY <2>2, <1>t DEF DestroyInv
  <2>4. \A i \in 1..Len(jobs') : jobs'[i].kind # "sync"
    BY <2>2, <1>t DEF DestroyInv
  <2>5. QED
    BY <2>1, <2>3, <2>4 DEF DestroyInv
<1>6. CASE JobLoad \/ JobStore \/ JobKeyframe \/ JobClear
  BY <1>6 DEF JobLoad, JobStore, JobKeyframe, JobClear, DestroyInv, jobFrame, netVars,
              logVars, dtorVars
<1>7. CASE JobEnqueue
  <2>1. /\ jobPC = "enqueue" /\ jobPC' = "idle"
        /\ UNCHANGED <<jobs, netPC, finished, dtorVars>>
    BY <1>7 DEF JobEnqueue, jobFrame, netVars
  <2>2. QED
    BY <2>1 DEF DestroyInv, dtorVars
<1>8. CASE NetworkThread
  <2>1. UNCHANGED <<jobs, jobPC, msgs, dtorVars>>
    BY <1>8 DEF NetworkThread, NetStart, NetLoop, NetTestClearing, NetTestKeyframe, NetUnclear,
         NetWrite, NetWriteNothing, NetWriteError, NetWait, NetLoad, NetStore, netFrame,
         jobVars, logVars
  <2>2. dtorPC = "done" => FALSE
    BY <1>8, <1>t DEF DestroyInv, NetworkThread, NetStart, NetLoop, NetTestClearing,
         NetTestKeyframe, NetUnclear, NetWrite, NetWriteNothing, NetWriteError, NetWait,
         NetLoad, NetStore
  <2>3. QED
    BY <2>1, <2>2 DEF DestroyInv, dtorVars
<1>9. CASE DtorEnding
  BY <1>9 DEF DtorEnding, DestroyInv, dtorFrame, jobVars, netVars, logVars
<1>10. CASE DtorJobQueue
  <2>1. /\ jobs' = Append(jobs, SyncJob) /\ dtorPC = "ending" /\ dtorPC' = "jobQueueWait"
        /\ jobExiting' = TRUE
        /\ UNCHANGED <<jobPC, msgs, netPC, finished, ending, netExiting, syncAt>>
    BY <1>10 DEF DtorJobQueue, dtorFrame, jobVars, netVars, logVars
  <2>2. /\ Len(jobs') = Len(jobs) + 1
        /\ \A i \in 1..Len(jobs) : jobs'[i] = jobs[i]
    BY <2>1, <1>t
  <2>3. QED
    BY <2>1, <2>2, <1>t DEF DestroyInv
<1>11. CASE DtorNetworkQueue
  BY <1>11 DEF DtorNetworkQueue, DestroyInv, dtorFrame, jobVars, netVars, logVars
<1>12. CASE DtorReturn
  BY <1>12, <1>t DEF DtorReturn, DestroyInv, dtorFrame, jobVars, netVars, logVars
<1>13. CASE HasSpaceAvailable \/ StreamFails \/ UNCHANGED vars
  BY <1>1, <1>13 DEF HasSpaceAvailable, StreamFails, sockFrame, vars, destroyVars, jobVars,
                     netVars, dtorVars, logVars
<1>14. QED
  BY <1>3, <1>4, <1>5, <1>6, <1>7, <1>8, <1>9, <1>10, <1>11, <1>12, <1>13
     DEF Next, JobThread, Destructor

\* When the destructor is through with both queues no job runs, none will run
\* and no message is left, however the run loop raced with it.
THEOREM DestructorStopsWorkers == Spec => []StoppedWhenDestroyed
<1>1. TypeOK /\ DestroyInv => StoppedWhenDestroyed
  BY DEF TypeOK, DestroyInv, StoppedWhenDestroyed, SyncAt, JobSkipped
<1>2. QED
  BY <1>1, TypeCorrect, DestroyInit, DestroyStep, PTL DEF Spec

-----------------------------------------------------------------------------
(* A stream resumes at a keyframe. *)

LEMMA KeyframeStep ==
  TypeOK /\ KeyframeInv /\ [Next]_vars => KeyframeInv'
<1> SUFFICES ASSUME TypeOK, KeyframeInv, [Next]_vars PROVE KeyframeInv'
  OBVIOUS
<1>t. Len(msgs) \in Nat /\ sentKeyframe \in Nat
  BY DEF TypeOK, Writing
<1>1. CASE UNCHANGED writerVars
  BY <1>1 DEF KeyframeInv, Writing, writerVars
<1>2. CASE JobStart
  BY <1>2, <1>t DEF JobStart, KeyframeInv, Writing, sendVars, logVars
<1>3. CASE JobLoad \/ JobStore
  BY <1>3, <1>t DEF JobLoad, JobStore, KeyframeInv, Writing, logVars
<1>4. CASE JobKeyframe
  BY <1>4, <1>t DEF JobKeyframe, KeyframeInv, Writing, logVars
<1>5. CASE JobClear
  BY <1>5, <1>t DEF JobClear, KeyframeInv, Writing, logVars
<1>6. CASE JobEnqueue
  <2>1. /\ msgs' = Append(msgs, job) /\ msgs \in Seq(Messages) /\ job \in Messages
        /\ sentKeyframe' = sentKeyframe /\ jobPC' = "idle"
    BY <1>6 DEF JobEnqueue, TypeOK, sendVars
  <2>2. /\ Len(msgs') = Len(msgs) + 1
        /\ \A i \in 1..Len(msgs) : msgs'[i] = msgs[i]
        /\ msgs'[Len(msgs) + 1] = job
    BY <2>1
  <2>3. sentKeyframe \in 0..(Len(msgs) + 1)
    BY DEF TypeOK, Writing
  <2>4. QED
    BY <2>1, <2>2, <2>3, <1>t DEF KeyframeInv, Writing
<1>7. UNCHANGED vars => UNCHANGED writerVars
  BY DEF vars, writerVars, jobVars, logVars, sendVars
<1>8. QED
  BY <1>1, <1>2, <1>3, <1>4, <1>5, <1>6, <1>7, OthersKeepWriter DEF Next, JobThread

LEMMA ProgressStep ==
  TypeOK /\ ProgressInv /\ [Next]_vars => ProgressInv'
<1> SUFFICES ASSUME TypeOK, ProgressInv, [Next]_vars PROVE ProgressInv'
  OBVIOUS
<1>t. /\ Len(msgs) \in Nat /\ finished \in 0..Len(msgs) /\ tosend \in Nat
      /\ Len(sent) = Len(msgs) /\ msgs \in Seq(Messages) /\ sent \in Seq(Nat)
      /\ netPC # "idle" => finished < Len(msgs)
      /\ \A j \in 1..Len(msgs) : sent[j] \in Nat
  BY DEF TypeOK
<1>m. \A j \in 1..Len(msgs) : msgs[j].size \in Nat \ {0}
  BY <1>t, MessageFields
<1>1. CASE UNCHANGED readerVars
  BY <1>1 DEF ProgressInv, Current, readerVars
<1>2. CASE JobClear
  BY <1>2 DEF JobClear, ProgressInv, Current, jobFrame, netVars, dtorVars, sockVars, logVars
<1>3. CASE JobEnqueue
  <2>1. /\ msgs' = Append(msgs, job) /\ sent' = Append(sent, 0) /\ job \in Messages
        /\ UNCHANGED <<finished, netPC, tosend, broken, jobExiting, netExiting, ending>>
    BY <1>3 DEF JobEnqueue, TypeOK, jobFrame, netVars, dtorVars, sockVars
  <2>2. /\ Len(msgs') = Len(msgs) + 1
        /\ \A i \in 1..Len(msgs) : msgs'[i] = msgs[i] /\ sent'[i] = sent[i]
        /\ msgs'[Len(msgs) + 1] = job /\ sent'[Len(msgs) + 1] = 0
    BY <2>1, <1>t
  <2>3. job.size \in Nat
    BY <2>1, MessageFields
  <2>4. \A j \in 1..Len(msgs') :
          j > Current' \/ (j = Current' /\ netPC' = "idle") => sent'[j] = 0
    BY <2>1, <2>2, <1>t DEF ProgressInv, Current
  <2>5. \A j \in 1..Len(msgs') : sent'[j] <= msgs'[j].size
    <3>1. \A j \in 1..Len(msgs) : sent'[j] <= msgs'[j].size
      BY <2>2 DEF ProgressInv
    <3>2. sent'[Len(msgs) + 1] <= msgs'[Len(msgs) + 1].size
      BY <2>2, <2>3
    <3>3. \A j \in 1..(Len(msgs) + 1) : j \in 1..Len(msgs) \/ j = Len(msgs) + 1
      BY <1>t
    <3>4. QED
      BY <3>1, <3>2, <3>3, <2>2
  <2>6. /\ Current' = Current
        /\ netPC # "idle" => msgs'[Current] = msgs[Current] /\ sent'[Current] = sent[Current]
    BY <2>1, <2>2, <1>t DEF Current
  <2>7. netPC' # "idle" =>
          /\ tosend' + sent'[Current'] >= msgs'[Current'].size
          /\ ~broken' => tosend' + sent'[Current'] = msgs'[Current'].size
    <3>1. /\ netPC' = netPC /\ tosend' = tosend
          /\ broken' <=> broken
      BY <2>1
    <3>2. SUFFICES ASSUME netPC # "idle"
                   PROVE  /\ tosend + sent[Current] >= msgs[Current].size
                          /\ ~broken => tosend + sent[Current] = msgs[Current].size
      BY <3>1, <2>6
    <3>3. QED
      BY <3>2 DEF ProgressInv
  <2>8. QED
    BY <2>4, <2>5, <2>7 DEF ProgressInv
<1>4. CASE NetStart
  BY SMTT(30), <1>4, <1>t, <1>m DEF NetStart, ProgressInv, Current, netFrame, logVars, dtorVars, sockVars
<1>5. CASE NetLoop \/ NetTestClearing \/ NetTestKeyframe \/ NetWriteNothing
  BY <1>5 DEF NetLoop, NetTestClearing, NetTestKeyframe, NetWriteNothing, ProgressInv,
              Current, netFrame, logVars, dtorVars, sockVars
<1>6. CASE NetUnclear \/ NetLoad
  BY <1>6 DEF NetUnclear, NetLoad, ProgressInv, Current, netFrame, logVars, dtorVars, sockVars
<1>7. CASE NetWait
  BY <1>7 DEF NetWait, ProgressInv, Current, netFrame, logVars, dtorVars
<1>8. CASE NetWrite
  <2> PICK n \in 1..tosend : sent' = [sent EXCEPT ![Current] = @ + n] /\ tosend' = tosend - n
    BY <1>8 DEF NetWrite
  <2>1. Current \in 1..Len(msgs) /\ ~broken /\ ~broken' /\ netPC # "idle"
        /\ UNCHANGED <<msgs, finished, jobExiting, netExiting, ending>>
    BY <1>8, <1>t DEF NetWrite, Current, dtorVars
  <2>2. /\ sent'[Current] = sent[Current] + n
        /\ \A j \in 1..Len(msgs) : j # Current => sent'[j] = sent[j]
    BY <2>1, <1>t
  <2>3. tosend + sent[Current] = msgs[Current].size
    BY <2>1 DEF ProgressInv
  <2>4. tosend' + sent'[Current] = msgs[Current].size /\ sent'[Current] <= msgs[Current].size
    BY SMTT(30), <2>1, <2>2, <2>3, <1>t, <1>m
  <2>5. Current' = Current /\ netPC' = "loop"
    BY <2>1, <1>8 DEF Current, NetWrite
  <2>6. \A j \in 1..Len(msgs') : j > Current' \/ (j = Current' /\ netPC' = "idle") => sent'[j] = 0
    BY <2>1, <2>2, <2>5 DEF ProgressInv
  <2>7. \A j \in 1..Len(msgs') : sent'[j] <= msgs'[j].size
    BY <2>1, <2>2, <2>4 DEF ProgressInv
  <2>8. tosend' + sent'[Current'] >= msgs'[Current'].size
        /\ tosend' + sent'[Current'] = msgs'[Current'].size
    BY <2>1, <2>4, <2>5, <1>m
  <2>9. QED
    BY <2>6, <2>7, <2>8 DEF ProgressInv
<1>9. CASE NetWriteError
  BY SMTT(30), <1>9, <1>t, <1>m DEF NetWriteError, ProgressInv, Current, netFrame, logVars, dtorVars,
                          sockVars
<1>10. CASE NetStore
  BY <1>10, <1>t DEF NetStore, ProgressInv, Current, netFrame, logVars, dtorVars, sockVars
<1>11. CASE Destructor
  BY <1>11 DEF Destructor, DtorEnding, DtorJobQueue, DtorNetworkQueue, DtorReturn, ProgressInv,
              Current, dtorFrame, netVars, logVars, sockVars
<1>12. CASE StreamFails
  BY <1>12, <1>t, <1>m DEF StreamFails, ProgressInv, Current, sockFrame, netVars, logVars, dtorVars
<1>13. UNCHANGED vars => UNCHANGED readerVars
  BY DEF vars, readerVars, netVars, logVars, dtorVars, sockVars, sendVars
<1>14. QED
  BY <1>1, <1>2, <1>3, <1>4, <1>5, <1>6, <1>7, <1>8, <1>9, <1>10, <1>11, <1>12, <1>13,
     OthersKeepReader DEF Next, JobThread, NetworkThread

LEMMA GapStep ==
  TypeOK /\ DestroyInv /\ KeyframeInv /\ ProgressInv /\ GapInv /\ [Next]_vars => GapInv'
<1> SUFFICES ASSUME TypeOK, DestroyInv, KeyframeInv, ProgressInv, GapInv, [Next]_vars
             PROVE  GapInv'
  OBVIOUS
<1>t. /\ Len(msgs) \in Nat /\ finished \in 0..Len(msgs) /\ tosend \in Nat
      /\ Len(sent) = Len(msgs) /\ msgs \in Seq(Messages) /\ sent \in Seq(Nat)
      /\ netPC # "idle" => finished < Len(msgs)
      /\ \A j \in 1..Len(msgs) : sent[j] \in Nat
  BY DEF TypeOK
<1>m. \A j \in 1..Len(msgs) : msgs[j].size \in Nat \ {0}
  BY <1>t, MessageFields
<1> USE DEF Gap, Complete, Current
<1>1. CASE UNCHANGED readerVars
  BY <1>1 DEF GapInv, readerVars
<1>2. CASE JobClear
  <2>1. clearing => clearing'
    BY <1>2 DEF JobClear
  <2>2. UNCHANGED <<msgs, sent, finished, netPC, ending>>
    BY <1>2 DEF JobClear, jobFrame, netVars, dtorVars, logVars
  <2>3. QED
    BY <2>1, <2>2 DEF GapInv
<1>3. CASE JobEnqueue
  <2>1. /\ msgs' = Append(msgs, job) /\ sent' = Append(sent, 0)
        /\ UNCHANGED <<finished, netPC, clearing, ending>>
    BY <1>3 DEF JobEnqueue, jobFrame, netVars, dtorVars, sendVars
  <2>2. \A i \in 1..Len(msgs) : msgs'[i] = msgs[i] /\ sent'[i] = sent[i]
    BY <2>1, <1>t
  <2>3. Gap' <=> Gap
    BY <2>1, <2>2, <1>t
  <2>4. netPC # "idle" => msgs'[Current] = msgs[Current] /\ sent'[Current] = sent[Current]
    BY <2>2, <1>t
  <2>5. QED
    BY <2>1, <2>3, <2>4 DEF GapInv
<1>4. CASE NetStart
  <2>1. UNCHANGED <<msgs, sent, clearing, ending>>
    BY <1>4 DEF NetStart, netFrame, dtorVars, sendVars, logVars
  <2>2. CASE netExiting
    BY <2>1, <2>2, <1>4 DEF NetStart, GapInv, DestroyInv
  <2>3. CASE ~netExiting
    BY <2>1, <2>3, <1>4 DEF NetStart, GapInv
  <2>4. QED
    BY <2>2, <2>3
<1>5. CASE NetLoop
  <2>1. UNCHANGED <<msgs, sent, finished, tosend, clearing, ending>>
    BY <1>5 DEF NetLoop, netFrame, netVars, dtorVars, sendVars, logVars
  <2>2. tosend = 0 => Complete(Current)
    BY <1>5, <1>t, <1>m DEF NetLoop, ProgressInv
  <2>3. QED
    BY <2>1, <2>2, <1>5, <1>t DEF NetLoop, LoopGoesOn, GapInv
<1>6. CASE NetTestClearing
  BY <1>6 DEF NetTestClearing, GapInv, netFrame, netVars, dtorVars, sendVars, logVars
<1>7. CASE NetTestKeyframe
  <2>1. UNCHANGED <<msgs, sent, finished, clearing, ending>> /\ clearing
    BY <1>7 DEF NetTestKeyframe, GapInv, netFrame, dtorVars, sendVars, logVars
  <2>2. AtSentKeyframe => msgs[Current].key
    BY <1>7, <1>t DEF AtSentKeyframe, NetTestKeyframe, KeyframeInv
  <2>3. QED
    BY <2>1, <2>2, <1>7 DEF NetTestKeyframe, GapInv
<1>8. CASE NetUnclear
  BY <1>8 DEF NetUnclear, GapInv, netFrame, dtorVars, logVars
<1>9. CASE NetWrite
  <2> PICK n \in 1..tosend : sent' = [sent EXCEPT ![Current] = @ + n]
    BY <1>9 DEF NetWrite
  <2>1. /\ UNCHANGED <<msgs, finished, clearing, ending>>
        /\ netPC = "write" /\ netPC' = "loop"
    BY <1>9 DEF NetWrite, dtorVars, sendVars
  <2>2. finished >= 1 => sent'[finished] = sent[finished]
    BY <1>t
  <2>3. QED
    BY <2>1, <2>2 DEF GapInv
<1>10. CASE NetWriteNothing \/ NetWriteError
  BY <1>10 DEF NetWriteNothing, NetWriteError, GapInv, netFrame, dtorVars, sendVars, logVars
<1>11. CASE NetWait
  BY <1>11 DEF NetWait, GapInv, netFrame, dtorVars, sendVars, logVars
<1>12. CASE NetLoad
  BY <1>12 DEF NetLoad, GapInv, netFrame, dtorVars, logVars
<1>13. CASE NetStore
  BY <1>13, <1>t DEF NetStore, GapInv, netFrame, dtorVars, logVars
<1>14. CASE Destructor
  <2>1. UNCHANGED <<msgs, sent, finished, netPC, clearing>> /\ (ending => ending')
    BY <1>14 DEF Destructor, DtorEnding, DtorJobQueue, DtorNetworkQueue, DtorReturn,
                 dtorFrame, netVars, sendVars, logVars
  <2>2. QED
    BY <2>1 DEF GapInv
<1>15. CASE StreamFails
  BY <1>15 DEF StreamFails, GapInv, sockFrame, netVars, dtorVars, sendVars, logVars
<1>16. UNCHANGED vars => UNCHANGED readerVars
  BY DEF vars, readerVars, netVars, logVars, dtorVars, sockVars, sendVars
<1>17. QED
  BY <1>1, <1>2, <1>3, <1>4, <1>5, <1>6, <1>7, <1>8, <1>9, <1>10, <1>11, <1>12, <1>13, <1>14,
     <1>15, <1>16, OthersKeepReader DEF Next, JobThread, NetworkThread

LEMMA ResumeStep ==
  TypeOK /\ ProgressInv /\ GapInv /\ ResumeAtKeyframe /\ [Next]_vars => ResumeAtKeyframe'
<1> SUFFICES ASSUME TypeOK, ProgressInv, GapInv, ResumeAtKeyframe, [Next]_vars
             PROVE  ResumeAtKeyframe'
  OBVIOUS
<1>t. /\ Len(msgs) \in Nat /\ finished \in 0..Len(msgs)
      /\ Len(sent) = Len(msgs) /\ msgs \in Seq(Messages) /\ sent \in Seq(Nat)
      /\ netPC # "idle" => finished < Len(msgs)
  BY DEF TypeOK
<1> USE DEF Complete
<1>1. CASE UNCHANGED <<msgs, sent>>
  BY <1>1 DEF ResumeAtKeyframe
<1>2. CASE JobEnqueue
  <2>1. /\ msgs' = Append(msgs, job) /\ sent' = Append(sent, 0)
    BY <1>2 DEF JobEnqueue
  <2>2. /\ Len(msgs') = Len(msgs) + 1 /\ sent'[Len(msgs) + 1] = 0
        /\ \A i \in 1..Len(msgs) : msgs'[i] = msgs[i] /\ sent'[i] = sent[i]
    BY <2>1, <1>t
  <2> SUFFICES ASSUME NEW j \in 2..Len(msgs'), sent'[j] > 0, sent'[j - 1] # msgs'[j - 1].size
               PROVE  msgs'[j].key
    BY DEF ResumeAtKeyframe
  <2>3. j \in 2..Len(msgs) /\ j \in 1..Len(msgs) /\ j - 1 \in 1..Len(msgs)
    BY <2>2, <1>t
  <2>4. sent[j] > 0 /\ sent[j - 1] # msgs[j - 1].size
    BY <2>2, <2>3
  <2>5. QED
    BY <2>2, <2>3, <2>4 DEF ResumeAtKeyframe
<1>3. CASE NetWrite
  <2> PICK n \in 1..tosend : sent' = [sent EXCEPT ![Current] = @ + n]
    BY <1>3 DEF NetWrite
  <2>1. msgs' = msgs /\ netPC = "write" /\ finished < Len(msgs)
    BY <1>3, <1>t DEF NetWrite
  <2>2. \A j \in 1..Len(msgs) : j # Current => sent'[j] = sent[j]
    BY <1>t
  <2> SUFFICES ASSUME NEW j \in 2..Len(msgs), sent'[j] > 0, sent'[j - 1] # msgs[j - 1].size
               PROVE  msgs[j].key
    BY <2>1 DEF ResumeAtKeyframe
  <2>3. CASE j = Current
    BY <2>1, <2>2, <2>3, <1>t DEF GapInv, Gap, Current
  <2>4. CASE j - 1 = Current
    <3>1. j > Current /\ j # Current
      BY <2>4, <1>t DEF Current
    <3>2. sent[j] = 0
      BY <3>1 DEF ProgressInv
    <3>3. QED
      BY <3>1, <3>2, <2>2
  <2>5. CASE j # Current /\ j - 1 # Current
    BY <2>2, <2>5, <1>t DEF ResumeAtKeyframe
  <2>6. QED
    BY <2>3, <2>4, <2>5
<1>4. CASE NetworkThread /\ ~NetWrite
  BY <1>1, <1>4 DEF NetworkThread, NetStart, NetLoop, NetTestClearing, NetTestKeyframe,
         NetUnclear, NetWriteNothing, NetWriteError, NetWait, NetLoad, NetStore, netFrame, logVars
<1>5. CASE JobClear \/ Destructor \/ StreamFails \/ UNCHANGED vars
  BY <1>1, <1>5 DEF JobClear, Destructor, DtorEnding, DtorJobQueue, DtorNetworkQueue,
         DtorReturn, StreamFails, vars, dtorFrame, sockFrame, logVars
<1>6. UNCHANGED readerVars => UNCHANGED <<msgs, sent>>
  BY DEF readerVars
<1>7. QED
  BY <1>1, <1>2, <1>3, <1>4, <1>5, <1>6, OthersKeepReader DEF Next, JobThread

LEMMA ResumeInit == Init => ResumeInv
<1> SUFFICES ASSUME Init PROVE ResumeInv
  OBVIOUS
<1>1. Len(msgs) = 0 /\ Len(sent) = 0 /\ finished = 0 /\ netPC = "idle" /\ sentKeyframe = 0
      /\ jobPC = "idle"
  BY DEF Init
<1>2. QED
  BY <1>1 DEF ResumeInv, KeyframeInv, ProgressInv, GapInv, Gap, ResumeAtKeyframe, Writing, Current

\* Whatever the interleaving of the two threads, behind a discarded or truncated
\* message the peer next sees the beginning of a keyframe.
THEOREM StreamResumesAtKeyframe == Spec => []ResumeAtKeyframe
<1>1. TypeOK /\ DestroyInv /\ ResumeInv /\ [Next]_vars => ResumeInv'
  BY KeyframeStep, ProgressStep, GapStep, ResumeStep DEF ResumeInv
<1>2. ResumeInv => ResumeAtKeyframe
  BY DEF ResumeInv
<1>3. QED
  BY <1>1, <1>2, TypeCorrect, DestroyInit, DestroyStep, ResumeInit, PTL DEF Spec

-----------------------------------------------------------------------------
(* Nothing is given up unless a newer keyframe is there to resume from. *)

LEMMA ClearStep ==
  TypeOK /\ DestroyInv /\ KeyframeInv /\ ProgressInv /\ ClearInv /\ [Next]_vars => ClearInv'
<1> SUFFICES ASSUME TypeOK, DestroyInv, KeyframeInv, ProgressInv, ClearInv, [Next]_vars
             PROVE  ClearInv'
  OBVIOUS
<1>t. /\ Len(msgs) \in Nat /\ finished \in 0..Len(msgs) /\ sentKeyframe \in 0..(Len(msgs) + 1)
      /\ Len(sent) = Len(msgs) /\ msgs \in Seq(Messages) /\ sent \in Seq(Nat)
      /\ netPC # "idle" => finished < Len(msgs)
      /\ tosend \in Nat
      /\ \A j \in 1..Len(msgs) : sent[j] \in Nat
  BY DEF TypeOK, Writing
<1>m. \A j \in 1..Len(msgs) : msgs[j].size \in Nat \ {0}
  BY <1>t, MessageFields
<1> USE DEF Current
<1>1. CASE UNCHANGED <<sent, finished, netPC, clearing, sentKeyframe, ending>>
  BY <1>1 DEF ClearInv
<1>2. CASE JobKeyframe
  <2>1. /\ UNCHANGED <<sent, finished, netPC, clearing, ending>>
        /\ sentKeyframe' = sentKeyframe \/ sentKeyframe' = Len(msgs) + 1
    BY <1>2 DEF JobKeyframe, Writing, jobFrame, netVars, dtorVars, logVars
  <2>2. QED
    BY <2>1, <1>t DEF ClearInv
<1>3. CASE JobClear
  <2>1. UNCHANGED <<sent, finished, netPC, sentKeyframe, ending>>
    BY <1>3 DEF JobClear, jobFrame, netVars, dtorVars, logVars
  <2>2. clearing' => clearing \/ sentKeyframe = Len(msgs) + 1
    BY <1>3 DEF JobClear, OverLimit, KeyframeInv, Writing
  <2>3. QED
    BY <2>1, <2>2, <1>t DEF ClearInv
<1>4. CASE JobEnqueue
  <2>1. /\ UNCHANGED <<finished, netPC, clearing, sentKeyframe, ending>>
        /\ sent' = Append(sent, 0)
    BY <1>4 DEF JobEnqueue, jobFrame, netVars, dtorVars, sendVars
  <2>2. netPC # "idle" => sent'[Current] = sent[Current]
    BY <2>1, <1>t
  <2>3. QED
    BY <2>1, <2>2 DEF ClearInv
<1>5. CASE NetStart
  <2>1. UNCHANGED <<sent, clearing, sentKeyframe, ending>>
    BY <1>5 DEF NetStart, netFrame, dtorVars, sendVars, logVars
  <2>2. CASE netExiting
    BY <2>1, <2>2, <1>5, <1>t DEF NetStart, ClearInv, DestroyInv
  <2>3. CASE ~netExiting
    <3>1. sent[Current] = 0 /\ netPC' = "loop" /\ finished' = finished
      BY <2>3, <1>5, <1>t DEF NetStart, ProgressInv
    <3>2. QED
      BY <2>1, <3>1 DEF ClearInv
  <2>4. QED
    BY <2>2, <2>3
<1>6. CASE NetLoop
  <2>1. UNCHANGED <<sent, finished, clearing, sentKeyframe, ending>>
    BY <1>6 DEF NetLoop, netFrame, dtorVars, sendVars, logVars
  <2>2. tosend = 0 => sent[Current] > 0
    <3>1. Current \in 1..Len(msgs)
      BY <1>6, <1>t DEF NetLoop
    <3>2. msgs[Current].size \in Nat \ {0} /\ sent[Current] \in Nat
      BY <3>1, <1>m, <1>t
    <3>3. tosend + sent[Current] >= msgs[Current].size
      BY <1>6 DEF NetLoop, ProgressInv
    <3>4. tosend = 0 => sent[Current] >= msgs[Current].size
      BY <3>2, <3>3
    <3>5. msgs[Current].size > 0
      BY <3>2
    <3>6. QED
      BY <3>2, <3>4, <3>5
  <2>3. QED
    <3>1. CASE LoopGoesOn
      BY <2>1, <3>1, <1>6 DEF NetLoop, ClearInv
    <3>2. CASE ~LoopGoesOn
      <4>1. tosend = 0 \/ ending
        BY <3>2, <1>t DEF LoopGoesOn
      <4>2. netPC = "loop" /\ netPC' = "load"
        BY <3>2, <1>6 DEF NetLoop
      <4>3. clearing /\ ~ending => sentKeyframe > Current
        BY <4>1, <4>2, <2>2 DEF ClearInv
      <4>4. QED
        BY <2>1, <4>2, <4>3, <1>t DEF ClearInv
    <3>3. QED
      BY <3>1, <3>2
<1>7. CASE NetTestClearing
  BY <1>7 DEF NetTestClearing, ClearInv, netFrame, dtorVars, sendVars, logVars
<1>8. CASE NetTestKeyframe
  BY <1>8, <1>t DEF NetTestKeyframe, AtSentKeyframe, ClearInv, netFrame, dtorVars, sendVars, logVars
<1>9. CASE NetUnclear
  BY <1>9 DEF NetUnclear, ClearInv
<1>10. CASE NetWrite
  BY <1>10 DEF NetWrite, ClearInv, dtorVars, sendVars
<1>11. CASE NetWriteNothing \/ NetWriteError
  BY <1>11 DEF NetWriteNothing, NetWriteError, ClearInv, netFrame, dtorVars, sendVars, logVars
<1>12. CASE NetWait
  BY <1>12 DEF NetWait, ClearInv, netFrame, dtorVars, sendVars, logVars
<1>13. CASE NetLoad
  BY <1>13 DEF NetLoad, ClearInv, netFrame, dtorVars, logVars
<1>14. CASE NetStore
  BY <1>14, <1>t DEF NetStore, ClearInv, netFrame, dtorVars, logVars
<1>15. CASE Destructor
  <2>1. UNCHANGED <<sent, finished, netPC, clearing, sentKeyframe>> /\ (ending => ending')
    BY <1>15 DEF Destructor, DtorEnding, DtorJobQueue, DtorNetworkQueue, DtorReturn,
                 dtorFrame, netVars, sendVars, logVars
  <2>2. QED
    BY <2>1 DEF ClearInv
<1>16. Callers \/ JobStart \/ JobSync \/ JobLoad \/ JobStore \/ HasSpaceAvailable
         \/ StreamFails \/ UNCHANGED vars
       => UNCHANGED <<sent, finished, netPC, clearing, sentKeyframe, ending>>
  BY DEF Callers, PushBuffer, SendSetChunkSize, SendPong, Enqueue, SetMaxSendBufferSize,
         JobStart, JobSync, JobLoad, JobStore, HasSpaceAvailable, StreamFails, vars, jobFrame,
         sockFrame, netVars, dtorVars, sendVars, logVars
<1>17. QED
  BY <1>1, <1>2, <1>3, <1>4, <1>5, <1>6, <1>7, <1>8, <1>9, <1>10, <1>11, <1>12, <1>13, <1>14,
     <1>15, <1>16 DEF Next, JobThread, NetworkThread

\* A keyframe behind message i was queued, or is past the update of m_sentKeyframe.
NewerKeyframe(i) ==
  \/ \E j \in (i + 1)..Len(msgs) : msgs[j].key
  \/ jobPC \in {"clear", "enqueue"} /\ job.key

LEMMA NewerKeyframeStays ==
  ASSUME TypeOK, [Next]_vars, NEW i \in 1..Len(msgs), NewerKeyframe(i)
  PROVE  NewerKeyframe(i)'
<1>t. Len(msgs) \in Nat /\ msgs \in Seq(Messages)
  BY DEF TypeOK
<1>1. CASE JobEnqueue
  <2>1. /\ msgs' = Append(msgs, job) /\ Len(msgs') = Len(msgs) + 1
        /\ \A j \in 1..Len(msgs) : msgs'[j] = msgs[j]
        /\ msgs'[Len(msgs) + 1] = job
    BY <1>1, <1>t DEF JobEnqueue, TypeOK
  <2>2. QED
    BY <2>1, <1>t DEF NewerKeyframe
<1>2. CASE JobClear
  BY <1>2 DEF JobClear, NewerKeyframe, logVars
<1>3. CASE JobStart \/ JobLoad \/ JobStore \/ JobKeyframe
  BY <1>3 DEF JobStart, JobLoad, JobStore, JobKeyframe, NewerKeyframe, logVars
<1>4. CASE UNCHANGED writerVars
  BY <1>4 DEF NewerKeyframe, writerVars
<1>5. UNCHANGED vars => UNCHANGED writerVars
  BY DEF vars, writerVars, jobVars, logVars, sendVars
<1>6. QED
  BY <1>1, <1>2, <1>3, <1>4, <1>5, OthersKeepWriter DEF Next, JobThread

LEMMA DiscardStep ==
  TypeOK /\ DestroyInv /\ KeyframeInv /\ ProgressInv /\ GapInv /\ ClearInv
    /\ DiscardedForKeyframe /\ [Next]_vars => DiscardedForKeyframe'
<1> SUFFICES ASSUME TypeOK, DestroyInv, KeyframeInv, ProgressInv, GapInv, ClearInv,
                    DiscardedForKeyframe, [Next]_vars,
                    NEW i \in 1..finished', ~Complete(i)', ~ending'
             PROVE  NewerKeyframe(i)'
  BY DEF DiscardedForKeyframe, NewerKeyframe
<1>t. /\ Len(msgs) \in Nat /\ finished \in 0..Len(msgs) /\ sentKeyframe \in 0..(Len(msgs) + 1)
      /\ Len(sent) = Len(msgs) /\ msgs \in Seq(Messages) /\ sent \in Seq(Nat)
      /\ netPC # "idle" => finished < Len(msgs)
  BY DEF TypeOK, Writing
<1>1. ASSUME finished' = finished, msgs'[i] = msgs[i], sent'[i] = sent[i], ending' = ending
      PROVE  NewerKeyframe(i)'
  <2>1. i \in 1..finished /\ i \in 1..Len(msgs)
    BY <1>1, <1>t
  <2>2. ~Complete(i) /\ ~ending
    BY <1>1 DEF Complete
  <2>3. NewerKeyframe(i)
    BY <2>1, <2>2 DEF DiscardedForKeyframe, NewerKeyframe
  <2>4. QED
    BY <2>1, <2>3, NewerKeyframeStays
<1>2. CASE NetStore
  <2>1. /\ netPC = "store" /\ finished' = finished + 1
        /\ UNCHANGED <<msgs, sent, ending>>
    BY <1>2 DEF NetStore, Current, netFrame, dtorVars, logVars
  <2>2. CASE i = Current
    <3>1. clearing
      BY <2>1, <2>2 DEF GapInv, Complete
    <3>2. sentKeyframe > Current
      BY <2>1, <3>1 DEF ClearInv
    <3>3. NewerKeyframe(i)
      <4>1. CASE sentKeyframe = Len(msgs) + 1
        BY <4>1 DEF KeyframeInv, NewerKeyframe, Writing
      <4>2. CASE sentKeyframe # Len(msgs) + 1
        <5>1. sentKeyframe \in 1..Len(msgs) /\ sentKeyframe \in (i + 1)..Len(msgs)
          BY <4>2, <2>2, <3>2, <1>t DEF Current
        <5>2. QED
          BY <5>1 DEF KeyframeInv, NewerKeyframe
      <4>3. QED
        BY <4>1, <4>2
    <3>4. QED
      BY <2>1, <2>2, <3>3, <1>t, NewerKeyframeStays DEF Current
  <2>3. CASE i # Current
    BY SMTT(30), <2>1, <2>3, <1>t, NewerKeyframeStays DEF DiscardedForKeyframe, NewerKeyframe, Complete, Current
  <2>4. QED
    BY <2>2, <2>3
<1>3. CASE NetStart
  <2>1. ~netExiting
    BY <1>3 DEF NetStart, DestroyInv, netFrame, dtorVars
  <2>2. finished' = finished /\ UNCHANGED <<msgs, sent, ending>>
    BY <2>1, <1>3 DEF NetStart, netFrame, dtorVars, logVars
  <2>3. QED
    BY <2>2, <1>1
<1>4. CASE NetWrite
  <2> PICK n \in 1..tosend : sent' = [sent EXCEPT ![Current] = @ + n]
    BY <1>4 DEF NetWrite
  <2>1. finished' = finished /\ UNCHANGED <<msgs, ending>>
    BY <1>4 DEF NetWrite, dtorVars
  <2>2. sent'[i] = sent[i]
    BY <2>1, <1>t DEF Current
  <2>3. QED
    BY <2>1, <2>2, <1>1
<1>5. CASE JobEnqueue
  <2>1. /\ msgs' = Append(msgs, job) /\ sent' = Append(sent, 0)
        /\ finished' = finished /\ ending' = ending
    BY <1>5 DEF JobEnqueue, jobFrame, netVars, dtorVars
  <2>2. msgs'[i] = msgs[i] /\ sent'[i] = sent[i]
    BY <2>1, <1>t
  <2>3. QED
    BY <2>1, <2>2, <1>1
<1>6. CASE Destructor
  <2>1. finished' = finished /\ UNCHANGED <<msgs, sent>> /\ ending' = ending
    BY <1>6 DEF Destructor, DtorEnding, DtorJobQueue, DtorNetworkQueue, DtorReturn,
                dtorFrame, netVars, logVars
  <2>2. QED
    BY <2>1, <1>1
<1>7. CASE NetworkThread /\ ~(NetStore \/ NetStart \/ NetWrite)
  <2>1. finished' = finished /\ UNCHANGED <<msgs, sent, ending>>
    BY <1>7 DEF NetworkThread, NetLoop, NetTestClearing, NetTestKeyframe, NetUnclear,
         NetWriteNothing, NetWriteError, NetWait, NetLoad, netFrame, dtorVars, logVars
  <2>2. QED
    BY <2>1, <1>1
<1>8. CASE JobClear \/ StreamFails \/ UNCHANGED vars \/ UNCHANGED readerVars
  <2>1. finished' = finished /\ UNCHANGED <<msgs, sent, ending>>
    BY <1>8 DEF JobClear, StreamFails, vars, readerVars, jobFrame, sockFrame, netVars,
                dtorVars, logVars
  <2>2. QED
    BY <2>1, <1>1
<1>9. QED
  BY <1>2, <1>3, <1>4, <1>5, <1>6, <1>7, <1>8, OthersKeepReader DEF Next, JobThread

\* While the session lives, a message that does not go out whole has a keyframe
\* after it that has reached write().
THEOREM DiscardsAreForKeyframes == Spec => []DiscardedForKeyframe
<1>1. Init => ClearInv /\ DiscardedForKeyframe
  BY DEF Init, ClearInv, DiscardedForKeyframe
<1>2. TypeOK /\ DestroyInv /\ ResumeInv /\ ClearInv /\ DiscardedForKeyframe /\ [Next]_vars
        => (ResumeInv /\ ClearInv /\ DiscardedForKeyframe)'
  BY KeyframeStep, ProgressStep, GapStep, ResumeStep, ClearStep, DiscardStep DEF ResumeInv
<1>3. QED
  BY <1>1, <1>2, TypeCorrect, DestroyInit, DestroyStep, ResumeInit, PTL DEF Spec

-----------------------------------------------------------------------------
(* The chunk size. *)

\* Every message is cut with the chunk size announced before it, and the job
\* thread holds the one for the message it is at.
ChunkInv ==
  /\ \A j \in 1..Len(msgs) : msgs[j].chunk = AnnouncedBefore(j)
  /\ outChunkSize = AnnouncedBefore(Writing)
  /\ jobPC # "idle" => job.chunk = AnnouncedBefore(Writing)

LEMMA ChunkInit == Init => ChunkInv
BY DEF Init, ChunkInv, AnnouncedBefore, Writing

LEMMA ChunkStep == TypeOK /\ ChunkInv /\ [Next]_vars => ChunkInv'
<1> SUFFICES ASSUME TypeOK, ChunkInv, [Next]_vars PROVE ChunkInv'
  OBVIOUS
<1>t. Len(msgs) \in Nat /\ msgs \in Seq(Messages)
  BY DEF TypeOK
<1>1. CASE JobEnqueue
  <2>1. /\ jobPC = "enqueue" /\ jobPC' = "idle" /\ job \in Messages
        /\ msgs' = Append(msgs, job) /\ outChunkSize' = ChunkSizeAfterJob
    BY <1>1 DEF JobEnqueue, TypeOK
  <2>2. /\ Len(msgs') = Len(msgs) + 1 /\ msgs'[Len(msgs) + 1] = job
        /\ \A i \in 1..Len(msgs) : msgs'[i] = msgs[i]
    BY <2>1, <1>t
  <2>3. \A j \in 1..(Len(msgs) + 1) : AnnouncedBefore(j)' = AnnouncedBefore(j)
    <3> TAKE j \in 1..(Len(msgs) + 1)
    <3>1. \A i \in 1..(j - 1) : msgs'[i] = msgs[i]
      BY <2>2, <1>t
    <3>2. QED
      BY <3>1 DEF AnnouncedBefore
  <2>4. \A j \in 1..Len(msgs') : msgs'[j].chunk = AnnouncedBefore(j)'
    <3> TAKE j \in 1..Len(msgs')
    <3>1. CASE j = Len(msgs) + 1
      BY <3>1, <2>1, <2>2, <2>3, <1>t DEF ChunkInv, Writing
    <3>2. CASE j # Len(msgs) + 1
      BY <3>2, <2>2, <2>3, <1>t DEF ChunkInv
    <3>3. QED
      BY <3>1, <3>2
  <2>5. outChunkSize' = AnnouncedBefore(Writing)'
    <3>1. Writing' = Len(msgs) + 2
      BY <2>2, <1>t DEF Writing
    <3>2. (\E i \in 1..(Len(msgs) + 1) : msgs'[i].kind = "setChunkSize")
            <=> (\E i \in 1..Len(msgs) : msgs[i].kind = "setChunkSize")
                  \/ job.kind = "setChunkSize"
      BY <2>2, <1>t
    <3>3. AnnouncedBefore(Writing)' =
            IF \E i \in 1..(Len(msgs) + 1) : msgs'[i].kind = "setChunkSize"
            THEN PageSize ELSE InitialChunk
      BY <3>1, <1>t DEF AnnouncedBefore
    <3>4. AnnouncedBefore(Writing) =
            IF \E i \in 1..Len(msgs) : msgs[i].kind = "setChunkSize"
            THEN PageSize ELSE InitialChunk
      BY <1>t DEF AnnouncedBefore, Writing
    <3>5. QED
      BY <3>2, <3>3, <3>4, <2>1 DEF ChunkInv, ChunkSizeAfterJob
  <2>6. QED
    BY <2>1, <2>4, <2>5 DEF ChunkInv
<1>2. CASE JobStart
  <2>1. UNCHANGED <<msgs, outChunkSize>>
    BY <1>2 DEF JobStart, logVars
  <2>2. jobPC' # "idle" => job'.chunk = outChunkSize
    BY <1>2 DEF JobStart
  <2>3. QED
    BY <2>1, <2>2 DEF ChunkInv, AnnouncedBefore, Writing
<1>3. UNCHANGED <<msgs, outChunkSize, jobPC, job>> \/ JobLoad \/ JobStore \/ JobKeyframe \/ JobClear
        => ChunkInv'
  BY DEF JobLoad, JobStore, JobKeyframe, JobClear, logVars, ChunkInv, AnnouncedBefore, Writing
<1>4. Callers \/ NetworkThread \/ Destructor \/ HasSpaceAvailable \/ StreamFails \/ JobSync
        \/ UNCHANGED vars => UNCHANGED outChunkSize
  BY DEF Callers, PushBuffer, SendSetChunkSize, SendPong, Enqueue, SetMaxSendBufferSize,
         NetworkThread, NetStart, NetLoop, NetTestClearing, NetTestKeyframe, NetUnclear,
         NetWrite, NetWriteNothing, NetWriteError, NetWait, NetLoad, NetStore,
         Destructor, DtorEnding, DtorJobQueue, DtorNetworkQueue, DtorReturn,
         HasSpaceAvailable, StreamFails, JobSync, vars, logVars, netFrame, dtorFrame, sockFrame
<1>5. UNCHANGED vars => UNCHANGED writerVars
  BY DEF vars, writerVars, jobVars, logVars, sendVars
<1>6. QED
  BY <1>1, <1>2, <1>3, <1>4, <1>5, OthersKeepWriter DEF Next, JobThread, writerVars

\* Whatever was discarded before it, a message was cut with the chunk size the
\* peer was told, unless that was an announcement, for every mix of messages and
\* every interleaving.
THEOREM PeerKnowsChunkSize == Spec => []ChunkSizeAgreed
<1>1. ChunkInv => ChunkSizeAgreed
  BY DEF ChunkInv, ChunkSizeAgreed
<1>2. QED
  BY <1>1, TypeCorrect, ChunkInit, ChunkStep, PTL DEF Spec

-----------------------------------------------------------------------------
(* The count of bytes.                                                        *)
(*                                                                            *)
(* Written is a recursive function, so its values are computed from one       *)
(* message to the next, and what holds of all of them is proved by induction  *)
(* over a set of positions: the first position outside the set has none.      *)

LEMMA LeastNatural ==
  ASSUME NEW T, T \subseteq Nat, T # {}
  PROVE  \E x \in T : \A y \in T : x <= y
<1> DEFINE R == OpToRel(<, Nat)
<1>1. IsWellFoundedOn(R, Nat)
  BY NatLessThanWellFounded, Zenon
<1> HIDE DEF R
<1>2. PICK x \in T : \A y \in T : ~(<<y, x>> \in R)
  BY <1>1, WFMin
<1>3. \A y \in T : ~(y < x)
  BY <1>2 DEF R, OpToRel
<1>4. QED
  BY <1>3

LEMMA SetInduction ==
  ASSUME NEW S, 0 \in S, \A k \in Nat : k \in S => k + 1 \in S
  PROVE  Nat \subseteq S
<1> SUFFICES ASSUME Nat \ S # {} PROVE FALSE
  OBVIOUS
<1>1. PICK x \in Nat \ S : \A y \in Nat \ S : x <= y
  BY LeastNatural, Nat \ S \subseteq Nat
<1>2. x # 0 /\ x - 1 \in Nat
  BY <1>1
<1>3. x - 1 \in S
  BY <1>1, <1>2
<1>4. QED
  BY <1>1, <1>2, <1>3

\* t[i] is the number of bytes in the first i messages of m, for i up to n.
IsTotal(t, m, n) == t = [i \in 0..n |-> IF i = 0 THEN 0 ELSE t[i - 1] + m[i].size]

LEMMA TotalExists ==
  ASSUME NEW m \in Seq(Messages)
  PROVE  \E t : IsTotal(t, m, Len(m))
<1> DEFINE S == {n \in Nat : n <= Len(m) => \E t : IsTotal(t, m, n)}
<1>1. 0 \in S
  <2>1. IsTotal([i \in 0..0 |-> 0], m, 0)
    BY DEF IsTotal
  <2>2. QED
    BY <2>1
<1>2. ASSUME NEW k \in Nat, k \in S, k + 1 <= Len(m) PROVE \E t : IsTotal(t, m, k + 1)
  <2> PICK t : t = [i \in 0..k |-> IF i = 0 THEN 0 ELSE t[i - 1] + m[i].size]
    BY <1>2 DEF IsTotal
  <2> PICK u : u = [i \in 0..(k + 1) |-> IF i = k + 1 THEN t[k] + m[k + 1].size ELSE t[i]]
    OBVIOUS
  <2>1. \A i \in 0..(k + 1) : u[i] = IF i = 0 THEN 0 ELSE u[i - 1] + m[i].size
    <3> TAKE i \in 0..(k + 1)
    <3>1. CASE i = k + 1
      <4>1. u[i] = t[k] + m[k + 1].size /\ u[k] = t[k] /\ i - 1 = k /\ i # 0
        BY <3>1
      <4>2. QED
        BY <3>1, <4>1
    <3>2. CASE i = 0
      BY <3>2
    <3>3. CASE i # k + 1 /\ i # 0
      <4>1. i \in 0..k /\ i - 1 \in 0..k /\ i - 1 # k + 1 /\ i - 1 \in 0..(k + 1)
        BY <3>3
      <4>2. u[i] = t[i] /\ u[i - 1] = t[i - 1]
        BY <4>1
      <4>3. QED
        BY <4>1, <4>2, <3>3
    <3>4. QED
      BY <3>1, <3>2, <3>3
  <2>2. u = [i \in 0..(k + 1) |-> IF i = 0 THEN 0 ELSE u[i - 1] + m[i].size]
    BY <2>1
  <2>3. IsTotal(u, m, k + 1)
    BY <2>2 DEF IsTotal
  <2>4. QED
    BY <2>3
<1>3. \A k \in Nat : k \in S => k + 1 \in S
  BY <1>2
<1>4. Len(m) \in S
  <2> HIDE DEF S
  <2>1. Nat \subseteq S
    BY <1>1, <1>3, SetInduction
  <2>2. QED
    BY <2>1
<1>5. QED
  BY <1>4

LEMMA TotalStep ==
  ASSUME NEW m \in Seq(Messages), NEW t, IsTotal(t, m, Len(m))
  PROVE  /\ t[0] = 0
         /\ \A i \in 1..Len(m) : t[i] = t[i - 1] + m[i].size
BY DEF IsTotal

LEMMA TotalIsNat ==
  ASSUME NEW m \in Seq(Messages), NEW t, IsTotal(t, m, Len(m))
  PROVE  \A i \in 0..Len(m) : t[i] \in Nat
<1> DEFINE S == {n \in Nat : n <= Len(m) => t[n] \in Nat}
<1>1. 0 \in S
  BY TotalStep
<1>2. ASSUME NEW k \in Nat, k \in S, k + 1 <= Len(m) PROVE t[k + 1] \in Nat
  <2>1. k + 1 \in 1..Len(m) /\ m[k + 1] \in Messages
    BY <1>2
  <2>2. t[k + 1] = t[k] + m[k + 1].size
    BY <2>1, TotalStep
  <2>3. QED
    BY <1>2, <2>1, <2>2, MessageFields
<1>3. \A k \in Nat : k \in S => k + 1 \in S
  BY <1>2
<1> HIDE DEF S
<1>4. Nat \subseteq S
  BY <1>1, <1>3, SetInduction
<1>5. QED
  BY <1>4 DEF S

LEMMA TotalGrows ==
  ASSUME NEW m \in Seq(Messages), NEW t, IsTotal(t, m, Len(m)), NEW i \in 0..Len(m)
  PROVE  t[i] <= t[Len(m)]
<1> DEFINE S == {n \in Nat : i <= n /\ n <= Len(m) => t[i] <= t[n]}
<1>1. 0 \in S
  BY TotalIsNat
<1>2. ASSUME NEW k \in Nat, k \in S, k + 1 <= Len(m), i <= k + 1 PROVE t[i] <= t[k + 1]
  <2>1. k + 1 \in 1..Len(m) /\ m[k + 1] \in Messages /\ k \in 0..Len(m)
    BY <1>2
  <2>2. t[k + 1] = t[k] + m[k + 1].size /\ m[k + 1].size \in Nat
    BY <2>1, TotalStep, MessageFields
  <2>3. t[k] \in Nat /\ t[k + 1] \in Nat /\ t[i] \in Nat
    BY <2>1, TotalIsNat
  <2>4. CASE i = k + 1
    BY <2>3, <2>4
  <2>5. CASE i # k + 1
    <3>1. t[i] <= t[k]
      BY <1>2, <2>5
    <3>2. QED
      BY <3>1, <2>2, <2>3
  <2>6. QED
    BY <2>4, <2>5
<1>3. \A k \in Nat : k \in S => k + 1 \in S
  BY <1>2
<1> HIDE DEF S
<1>4. Nat \subseteq S
  BY <1>1, <1>3, SetInduction
<1>5. QED
  BY <1>4 DEF S

\* Another message leaves the totals of those before it alone.
LEMMA TotalExtends ==
  ASSUME NEW m \in Seq(Messages), NEW mm \in Seq(Messages), Len(mm) = Len(m) + 1,
         \A i \in 1..Len(m) : mm[i] = m[i],
         NEW t, IsTotal(t, m, Len(m)),
         NEW u, IsTotal(u, mm, Len(mm))
  PROVE  /\ \A i \in 0..Len(m) : u[i] = t[i]
         /\ u[Len(mm)] = t[Len(m)] + mm[Len(mm)].size
<1>b. /\ u[0] = 0
      /\ \A i \in 1..Len(mm) : u[i] = u[i - 1] + mm[i].size
  BY TotalStep
<1> DEFINE S == {n \in Nat : n <= Len(m) => u[n] = t[n]}
<1>1. 0 \in S
  BY <1>b, TotalStep
<1>2. ASSUME NEW j \in Nat, j \in S, j + 1 <= Len(m) PROVE u[j + 1] = t[j + 1]
  <2>1. j + 1 \in 1..Len(m) /\ j + 1 \in 1..(Len(m) + 1) /\ (j + 1) - 1 = j
    BY <1>2
  <2>2. t[j + 1] = t[j] + m[j + 1].size
    BY <2>1, TotalStep
  <2>3. QED
    BY <1>2, <2>1, <2>2, <1>b
<1>3. \A j \in Nat : j \in S => j + 1 \in S
  BY <1>2
<1> HIDE DEF S
<1>4. Nat \subseteq S
  BY <1>1, <1>3, SetInduction
<1>5. \A i \in 0..Len(m) : u[i] = t[i]
  BY <1>4 DEF S
<1>6. u[Len(mm)] = u[Len(m)] + mm[Len(mm)].size
  BY <1>b
<1>7. QED
  BY <1>5, <1>6

LEMMA WrittenIsTotal ==
  /\ msgs \in Seq(Messages) => IsTotal(Written, msgs, Len(msgs))
  /\ msgs' \in Seq(Messages) => IsTotal(Written', msgs', Len(msgs'))
<1>1. ASSUME msgs \in Seq(Messages) PROVE IsTotal(Written, msgs, Len(msgs))
  BY <1>1, TotalExists DEF Written, IsTotal
<1>2. ASSUME msgs' \in Seq(Messages) PROVE IsTotal(Written', msgs', Len(msgs'))
  BY <1>2, TotalExists DEF Written, IsTotal
<1>3. QED
  BY <1>1, <1>2
\* What each thread loaded is still m_bufferSize when it stores, as long as the
\* updates did not overlap, and m_bufferSize is what is counted.
BufferInv ==
  ~raced =>
    /\ ~(jobPC = "store" /\ netPC = "store")
    /\ jobPC = "store" => loadedByJob = bufferSize
    /\ netPC = "store" => loadedByNet = bufferSize
    /\ ~netExiting => bufferSize = Counted

LEMMA BufferInit == Init => BufferInv
<1> SUFFICES ASSUME Init PROVE BufferInv
  OBVIOUS
<1>1. msgs = <<>> /\ finished = 0 /\ jobPC = "idle" /\ netPC = "idle" /\ bufferSize = 0
  BY DEF Init
<1>2. msgs \in Seq(Messages) /\ Len(msgs) = 0
  BY <1>1
<1>3. Written[0] = 0
  BY <1>2, WrittenIsTotal, TotalStep
<1>4. QED
  BY <1>1, <1>2, <1>3 DEF BufferInv, Counted

\* A step that leaves msgs alone leaves the totals alone.
LEMMA WrittenKept == msgs' = msgs => Written' = Written
BY DEF Written

bufferVars == <<jobPC, netPC, loadedByJob, loadedByNet, bufferSize, finished, job, msgs, raced>>

LEMMA BufferStep == TypeOK /\ BufferInv /\ [Next]_vars => BufferInv'
<1> SUFFICES ASSUME TypeOK, BufferInv, [Next]_vars, ~raced' PROVE BufferInv'
  BY DEF BufferInv
<1>t. /\ msgs \in Seq(Messages) /\ Len(msgs) \in Nat /\ finished \in 0..Len(msgs)
      /\ netPC # "idle" => finished < Len(msgs)
      /\ bufferSize \in Nat
      /\ jobPC # "idle" => job \in Messages /\ job.size \in Nat
      /\ netExiting \in BOOLEAN /\ raced \in BOOLEAN
  BY MessageFields DEF TypeOK
<1>w. /\ \A i \in 0..Len(msgs) : Written[i] \in Nat /\ Written[i] <= Written[Len(msgs)]
      /\ \A i \in 1..Len(msgs) : Written[i] = Written[i - 1] + msgs[i].size
      /\ \A i \in 1..Len(msgs) : msgs[i].size \in Nat
  BY <1>t, WrittenIsTotal, TotalIsNat, TotalGrows, TotalStep, MessageFields
<1>1. CASE UNCHANGED bufferVars /\ (netExiting => netExiting')
  <2>1. Written' = Written
    BY <1>1, WrittenKept DEF bufferVars
  <2>2. QED
    BY <1>1, <2>1 DEF BufferInv, Counted, bufferVars
<1>2. CASE JobStart
  <2>1. /\ jobPC = "idle" /\ jobPC' \in {"idle", "load"}
        /\ UNCHANGED <<netPC, loadedByNet, bufferSize, finished, msgs, raced, netExiting>>
    BY <1>2 DEF JobStart, jobFrame, netVars, dtorVars, sendVars, logVars
  <2>2. QED
    BY <2>1, WrittenKept DEF BufferInv, Counted
<1>3. CASE JobLoad
  <2>1. /\ jobPC = "load" /\ jobPC' = "store" /\ loadedByJob' = bufferSize
        /\ netPC # "store" /\ ~raced
        /\ UNCHANGED <<netPC, loadedByNet, bufferSize, finished, msgs, netExiting>>
    BY <1>3 DEF JobLoad, jobFrame, netVars, dtorVars, sendVars, logVars
  <2>2. QED
    BY <2>1, WrittenKept DEF BufferInv, Counted
<1>4. CASE JobStore
  <2>1. /\ jobPC = "store" /\ jobPC' = "keyframe" /\ job' = job
        /\ bufferSize' = NonNegative(loadedByJob + job.size) /\ ~raced
        /\ UNCHANGED <<netPC, loadedByNet, finished, msgs, netExiting>>
    BY <1>4 DEF JobStore, jobFrame, netVars, dtorVars, sendVars, logVars
  <2>2. loadedByJob = bufferSize /\ netPC # "store" /\ (~netExiting => bufferSize = Counted)
    BY <2>1 DEF BufferInv
  <2>3. bufferSize' = bufferSize + job.size
    BY <2>1, <2>2, <1>t DEF NonNegative
  <2>4. Counted' = Counted + job.size
    BY <2>1, <1>t, <1>w, WrittenKept DEF Counted
  <2>5. QED
    BY <2>1, <2>2, <2>3, <2>4 DEF BufferInv
<1>5. CASE JobKeyframe \/ JobClear
  <2>1. /\ jobPC \in {"keyframe", "clear"} /\ jobPC' \in {"clear", "enqueue"}
        /\ UNCHANGED <<netPC, loadedByNet, bufferSize, finished, job, msgs, raced, netExiting>>
    BY <1>5 DEF JobKeyframe, JobClear, jobFrame, netVars, dtorVars, sendVars, logVars
  <2>2. QED
    BY <2>1, WrittenKept DEF BufferInv, Counted
<1>6. CASE JobEnqueue
  <2>1. /\ jobPC = "enqueue" /\ jobPC' = "idle" /\ msgs' = Append(msgs, job)
        /\ UNCHANGED <<netPC, loadedByNet, bufferSize, finished, raced, netExiting>>
    BY <1>6 DEF JobEnqueue, jobFrame, netVars, dtorVars, sendVars
  <2>2. /\ msgs' \in Seq(Messages) /\ Len(msgs') = Len(msgs) + 1
        /\ msgs'[Len(msgs')] = job /\ \A i \in 1..Len(msgs) : msgs'[i] = msgs[i]
    BY <2>1, <1>t
  <2>3. /\ \A i \in 0..Len(msgs) : Written'[i] = Written[i]
        /\ Written'[Len(msgs')] = Written[Len(msgs)] + job.size
    BY <2>2, <1>t, WrittenIsTotal, TotalExtends
  <2>4. Counted' = Counted
    BY <2>1, <2>2, <2>3, <1>t, <1>w DEF Counted
  <2>5. QED
    BY <2>1, <2>4 DEF BufferInv
<1>7. CASE NetStart
  <2>1. /\ UNCHANGED <<jobPC, loadedByJob, bufferSize, job, msgs, raced, netExiting>>
        /\ netPC = "idle" /\ netPC' # "store"
        /\ ~netExiting => finished' = finished
    BY <1>7 DEF NetStart, netFrame, jobVars, dtorVars, sendVars, logVars
  <2>2. QED
    BY <2>1, WrittenKept DEF BufferInv, Counted
<1>8. CASE NetLoop \/ NetTestClearing \/ NetTestKeyframe \/ NetUnclear \/ NetWrite
             \/ NetWriteNothing \/ NetWriteError \/ NetWait
  <2>1. /\ UNCHANGED <<jobPC, loadedByJob, bufferSize, finished, job, msgs, raced, netExiting>>
        /\ netPC' # "store"
    BY <1>8 DEF NetLoop, NetTestClearing, NetTestKeyframe, NetUnclear, NetWrite, NetWriteNothing,
         NetWriteError, NetWait, netFrame, jobVars, dtorVars, sendVars, logVars
  <2>2. QED
    BY <2>1, WrittenKept DEF BufferInv, Counted
<1>9. CASE NetLoad
  <2>1. /\ netPC = "load" /\ netPC' = "store" /\ loadedByNet' = bufferSize
        /\ jobPC # "store" /\ ~raced
        /\ UNCHANGED <<jobPC, loadedByJob, bufferSize, finished, job, msgs, netExiting>>
    BY <1>9 DEF NetLoad, netFrame, jobVars, dtorVars, logVars
  <2>2. QED
    BY <2>1, WrittenKept DEF BufferInv, Counted
<1>10. CASE NetStore
  <2>1. /\ netPC = "store" /\ netPC' = "idle" /\ finished' = finished + 1
        /\ bufferSize' = NonNegative(loadedByNet - msgs[finished + 1].size) /\ ~raced
        /\ UNCHANGED <<jobPC, loadedByJob, job, msgs, netExiting>>
    BY <1>10 DEF NetStore, SizeReturned, Current, netFrame, jobVars, dtorVars, sendVars, logVars
  <2>2. loadedByNet = bufferSize /\ jobPC # "store" /\ (~netExiting => bufferSize = Counted)
    BY <2>1 DEF BufferInv
  <2>3. /\ finished + 1 \in 1..Len(msgs)
        /\ Written[finished + 1] = Written[finished] + msgs[finished + 1].size
        /\ Written[finished + 1] <= Written[Len(msgs)]
        /\ Written[finished] \in Nat /\ Written[Len(msgs)] \in Nat
        /\ msgs[finished + 1].size \in Nat
    <3>1. finished + 1 \in 1..Len(msgs) /\ finished + 1 \in 0..Len(msgs)
          /\ (finished + 1) - 1 = finished /\ Len(msgs) \in 0..Len(msgs)
      BY <2>1, <1>t
    <3>2. QED
      BY <3>1, <1>w, <1>t
  <2>4. Counted' = Counted - msgs[finished + 1].size /\ Counted' >= 0 /\ Counted' \in Int
    <3> PICK n : n = IF jobPC \in {"keyframe", "clear", "enqueue"} THEN job.size ELSE 0
      OBVIOUS
    <3>n. n \in Nat
      BY <1>t
    <3>1. Counted = Written[Len(msgs)] - Written[finished] + n
      BY DEF Counted
    <3>2. Counted' = Written[Len(msgs)] - Written[finished + 1] + n
      BY <2>1, WrittenKept DEF Counted
    <3>3. QED
      BY SMTT(30), <3>n, <3>1, <3>2, <2>3
  <2>5. ~netExiting => bufferSize' = Counted'
    BY <2>1, <2>2, <2>3, <2>4, <1>t DEF NonNegative
  <2>6. QED
    BY <2>1, <2>2, <2>5 DEF BufferInv
<1>11. Callers \/ Destructor \/ HasSpaceAvailable \/ StreamFails \/ JobSync \/ UNCHANGED vars
         => UNCHANGED bufferVars /\ (netExiting => netExiting')
  <2> USE DEF bufferVars, jobVars, netVars, dtorVars, sendVars, logVars
  <2>1. Callers => UNCHANGED bufferVars /\ UNCHANGED netExiting
    BY DEF Callers, PushBuffer, SendSetChunkSize, SendPong, Enqueue, SetMaxSendBufferSize
  <2>2. Destructor => UNCHANGED bufferVars
    BY DEF Destructor, DtorEnding, DtorJobQueue, DtorNetworkQueue, DtorReturn, dtorFrame
  <2>3. Destructor => netExiting' = netExiting \/ netExiting' = TRUE
    BY DEF Destructor, DtorEnding, DtorJobQueue, DtorNetworkQueue, DtorReturn, dtorFrame
  <2>4. HasSpaceAvailable \/ StreamFails \/ JobSync \/ UNCHANGED vars
          => UNCHANGED bufferVars /\ UNCHANGED netExiting
    BY DEF HasSpaceAvailable, StreamFails, JobSync, vars, sockFrame
  <2>5. QED
    BY <2>1, <2>2, <2>3, <2>4
<1>12. QED
  BY <1>1, <1>2, <1>3, <1>4, <1>5, <1>6, <1>7, <1>8, <1>9, <1>10, <1>11
     DEF Next, JobThread, NetworkThread

\* m_bufferSize is the number of bytes written and not yet finished, unless two
\* updates overlapped: for any messages, and however they were sent, cut short
\* or discarded.
THEOREM BytesAreCounted == Spec => []BufferSizeExact
<1>1. BufferInv => BufferSizeExact
  BY DEF BufferInv, BufferSizeExact
<1>2. QED
  BY <1>1, TypeCorrect, BufferInit, BufferStep, PTL DEF Spec
=============================================================================
