------------------------------ MODULE RTMPSend ------------------------------
(***************************************************************************)
(* The sending half of RTMPSession (src/rtmp/RTMPSession.cpp) once the     *)
(* RTMP handshake is complete.                                             *)
(*                                                                         *)
(* A message passes through two serial queues, each with a thread:         *)
(*                                                                         *)
(*   pushBuffer, sendSetChunkSize, sendPong --> m_jobQueue: cut the        *)
(*     payload into chunks, write() --> m_networkQueue: the lambda of      *)
(*     write(), which calls IStreamSession::write until all is sent.       *)
(*                                                                         *)
(* The threads share m_bufferSize, m_clearing, m_sentKeyframe, m_ending    *)
(* and m_maxSendBufferSize, none of them atomic or locked; every access to *)
(* one of them is a step of its own here.  A message is identified by its  *)
(* packetTime: the job thread takes it from a steady clock, one message at *)
(* a time, so packetTime is the message's position in msgs.                *)
(***************************************************************************)
EXTENDS Naturals, Integers, Sequences, FiniteSets

CONSTANTS
  MaxMsgs,      \* bound: messages written by the job thread in a behaviour
  MaxJobs,      \* bound: jobs waiting in m_jobQueue
  MaxSem,       \* bound: count of m_networkWaitSemaphore
  Sizes,        \* sizes of packets, in the units the socket accepts
  ControlSize,  \* size of a SetChunkSize message and of a pong
  SendLimits,   \* values given to setMaxSendBufferSize
  InitialChunk, \* m_outChunkSize at construction (128)
  PageSize      \* the chunk size sendSetChunkSize announces (getpagesize())

ASSUME BoundsAssumption == MaxMsgs \in Nat /\ MaxJobs \in Nat /\ MaxSem \in Nat
ASSUME SizesAssumption == Sizes \subseteq Nat \ {0} /\ ControlSize \in Nat \ {0}
ASSUME LimitsAssumption == SendLimits \subseteq Nat /\ SendLimits # {}
ASSUME ChunkAssumption == InitialChunk # PageSize

VARIABLES
  jobs,           \* m_jobQueue: jobs not started yet
  jobPC, job, loadedByJob,   \* the job thread: program counter, job, register
  msgs,           \* every message given to m_networkQueue, in order
  sent,           \* sent[i]: units of msgs[i] the stream accepted
  finished,       \* number of jobs the network thread is through with
  netPC, tosend, loadedByNet,  \* the network thread
  bufferSize, maxSendBufferSize, clearing, sentKeyframe, outChunkSize,
  ending, jobExiting, netExiting,   \* m_ending, m_exiting of both queues
  dtorPC, syncAt, \* the thread in ~RTMPSession, and where its sync job stands
  semaphore,      \* m_networkWaitSemaphore
  space, broken,  \* the socket: has space; has failed
  raced           \* history: two updates of m_bufferSize overlapped

jobVars  == <<jobPC, job, loadedByJob>>
netVars  == <<finished, netPC, tosend, loadedByNet>>
dtorVars == <<ending, jobExiting, netExiting, dtorPC, syncAt>>
sockVars == <<semaphore, space, broken>>
sendVars == <<bufferSize, clearing, sentKeyframe, raced>>
logVars  == <<msgs, sent, outChunkSize>>
vars == <<jobs, jobVars, netVars, dtorVars, sockVars, sendVars, logVars, maxSendBufferSize>>

-----------------------------------------------------------------------------
(* Jobs and messages. *)

Kinds    == {"packet", "setChunkSize", "pong"}
Jobs     == [kind : Kinds, key : BOOLEAN, size : Sizes \cup {ControlSize}]
SyncJob  == [kind |-> "sync"]
Messages == [kind : Kinds, key : BOOLEAN, size : Sizes \cup {ControlSize},
             chunk : {InitialChunk, PageSize}]

NoJob    == [kind |-> "none"]

NonNegative(n) == IF n < 0 THEN 0 ELSE n     \* std::max(n, 0LL)

Current  == finished + 1          \* packetTime of the job on the network thread
Writing  == Len(msgs) + 1         \* packetTime of the job on the job thread
Complete(i) == sent[i] = msgs[i].size

Init ==
  /\ jobs = <<>> /\ jobPC = "idle" /\ job = NoJob /\ loadedByJob = 0
  /\ msgs = <<>> /\ sent = <<>> /\ finished = 0
  /\ netPC = "idle" /\ tosend = 0 /\ loadedByNet = 0
  /\ bufferSize = 0 /\ maxSendBufferSize \in SendLimits
  /\ clearing = FALSE /\ sentKeyframe = 0 /\ outChunkSize = InitialChunk
  /\ ending = FALSE /\ jobExiting = FALSE /\ netExiting = FALSE
  /\ dtorPC = "alive" /\ syncAt = 0
  /\ semaphore = 0 /\ space = TRUE /\ broken = FALSE
  /\ raced = FALSE

-----------------------------------------------------------------------------
(* Callers: packetizers on the encoders' threads, the command handlers on   *)
(* the stream's run loop, the throughput thread.                            *)

Pending == Len(jobs) + Len(msgs) + (IF jobPC = "idle" THEN 0 ELSE 1)

Enqueue(j) ==
  /\ Len(jobs) < MaxJobs /\ Pending < MaxMsgs
  /\ dtorPC # "done"
  /\ jobs' = Append(jobs, j)
  /\ UNCHANGED <<jobVars, netVars, dtorVars, sockVars, sendVars, logVars, maxSendBufferSize>>

\* The early return when m_ending is set; sendPacket is the same with no keyframe.
PushBuffer(size, key) ==
  /\ ~ending
  /\ Enqueue([kind |-> "packet", key |-> key, size |-> size])

SendSetChunkSize == Enqueue([kind |-> "setChunkSize", key |-> FALSE, size |-> ControlSize])

SendPong == Enqueue([kind |-> "pong", key |-> FALSE, size |-> ControlSize])

SetMaxSendBufferSize(n) ==
  /\ n # maxSendBufferSize
  /\ dtorPC = "alive"
  /\ maxSendBufferSize' = n
  /\ UNCHANGED <<jobs, jobVars, netVars, dtorVars, sockVars, sendVars, logVars>>

-----------------------------------------------------------------------------
(* The job thread: one job, then write() up to m_networkQueue.enqueue. *)

jobFrame == <<netVars, dtorVars, sockVars, maxSendBufferSize>>

\* JobQueue::enqueue's block runs the job unless m_exiting; a pushBuffer job
\* returns when m_ending.
JobSkipped(j) == jobExiting \/ (j.kind = "packet" /\ ending)

JobStart ==
  /\ jobPC = "idle" /\ jobs # <<>> /\ Head(jobs).kind # "sync"
  /\ jobs' = Tail(jobs)
  /\ IF JobSkipped(Head(jobs))
     THEN UNCHANGED <<jobPC, job>>
     ELSE /\ job' = [kind |-> Head(jobs).kind, key |-> Head(jobs).key,
                     size |-> Head(jobs).size, chunk |-> outChunkSize]
          /\ jobPC' = "load"
  /\ UNCHANGED <<jobFrame, loadedByJob, sendVars, logVars>>

\* dispatch_sync runs its block whatever m_exiting says, and releases the caller.
JobSync ==
  /\ jobPC = "idle" /\ jobs # <<>> /\ Head(jobs).kind = "sync"
  /\ jobs' = Tail(jobs)
  /\ dtorPC' = "jobQueueDone"
  /\ UNCHANGED <<jobVars, netVars, ending, jobExiting, netExiting, syncAt, sockVars,
                 maxSendBufferSize, sendVars, logVars>>

\* increaseBuffer(size): the load and the store are two steps.
JobLoad ==
  /\ jobPC = "load" /\ jobPC' = "store"
  /\ loadedByJob' = bufferSize
  /\ raced' = (raced \/ netPC = "store")
  /\ UNCHANGED <<jobFrame, jobs, job, bufferSize, clearing, sentKeyframe, logVars>>

JobStore ==
  /\ jobPC = "store" /\ jobPC' = "keyframe"
  /\ bufferSize' = NonNegative(loadedByJob + job.size)
  /\ loadedByJob' = 0
  /\ UNCHANGED <<jobFrame, jobs, job, clearing, sentKeyframe, raced, logVars>>

JobKeyframe ==
  /\ jobPC = "keyframe" /\ jobPC' = "clear"
  /\ sentKeyframe' = IF job.key THEN Writing ELSE sentKeyframe
  /\ UNCHANGED <<jobFrame, jobs, job, loadedByJob, bufferSize, clearing, raced, logVars>>

\* Mutant of OverLimit: any message may start a clear.
OverLimitAnyMessage == bufferSize > maxSendBufferSize

OverLimit == bufferSize > maxSendBufferSize /\ job.key

JobClear ==
  /\ jobPC = "clear" /\ jobPC' = "enqueue"
  /\ clearing' = (clearing \/ OverLimit)
  /\ UNCHANGED <<jobFrame, jobs, job, loadedByJob, bufferSize, sentKeyframe, raced, logVars>>

\* Mutant of ChunkSizeAfterJob: the assignment forgotten.
ChunkSizeKept == outChunkSize

ChunkSizeAfterJob == IF job.kind = "setChunkSize" THEN PageSize ELSE outChunkSize

\* m_networkQueue.enqueue, and what the job does after write() returned:
\* sendSetChunkSize assigns m_outChunkSize, which only this thread reads.
JobEnqueue ==
  /\ jobPC = "enqueue" /\ jobPC' = "idle" /\ job' = NoJob
  /\ msgs' = Append(msgs, job)
  /\ sent' = Append(sent, 0)
  /\ outChunkSize' = ChunkSizeAfterJob
  /\ UNCHANGED <<jobFrame, jobs, loadedByJob, sendVars>>

JobThread == \/ JobStart \/ JobSync \/ JobLoad \/ JobStore
             \/ JobKeyframe \/ JobClear \/ JobEnqueue

-----------------------------------------------------------------------------
(* The network thread: the lambda of write(). *)

netFrame == <<jobs, jobVars, dtorVars, logVars, maxSendBufferSize>>

NetStart ==
  /\ netPC = "idle" /\ finished < Len(msgs)
  /\ IF netExiting
     THEN finished' = finished + 1 /\ UNCHANGED <<netPC, tosend>>
     ELSE netPC' = "loop" /\ tosend' = msgs[Current].size /\ UNCHANGED finished
  /\ UNCHANGED <<netFrame, loadedByNet, sockVars, sendVars>>

\* Mutant of LoopGoesOn: the loop does not look at m_ending.
LoopWhileUnsent == tosend > 0

LoopGoesOn == tosend > 0 /\ ~ending

\* while (tosend > 0 && !m_ending && (!m_clearing || m_sentKeyframe == packetTime)),
\* evaluated from left to right.
NetLoop ==
  /\ netPC = "loop"
  /\ netPC' = IF LoopGoesOn THEN "testClearing" ELSE "load"
  /\ UNCHANGED <<netFrame, finished, tosend, loadedByNet, sockVars, sendVars>>

NetTestClearing ==
  /\ netPC = "testClearing"
  /\ netPC' = IF clearing THEN "testKeyframe" ELSE "unclear"
  /\ UNCHANGED <<netFrame, finished, tosend, loadedByNet, sockVars, sendVars>>

AtSentKeyframe == sentKeyframe = Current

\* Mutant of NetTestKeyframe: the thread waits for the clear to end.
NetTestKeyframeWaits ==
  /\ netPC = "testKeyframe"
  /\ netPC' = IF AtSentKeyframe THEN "unclear" ELSE "loop"
  /\ UNCHANGED <<netFrame, finished, tosend, loadedByNet, sockVars, sendVars>>

\* Mutant of NetTestKeyframe: the first message discarded ends the clear.
NetTestKeyframeOnce ==
  /\ netPC = "testKeyframe"
  /\ netPC' = IF AtSentKeyframe THEN "unclear" ELSE "load"
  /\ clearing' = FALSE
  /\ UNCHANGED <<netFrame, finished, tosend, loadedByNet, sockVars, bufferSize,
                 sentKeyframe, raced>>

NetTestKeyframe ==
  /\ netPC = "testKeyframe"
  /\ netPC' = IF AtSentKeyframe THEN "unclear" ELSE "load"
  /\ UNCHANGED <<netFrame, finished, tosend, loadedByNet, sockVars, sendVars>>

\* m_clearing = false
NetUnclear ==
  /\ netPC = "unclear" /\ netPC' = "write"
  /\ clearing' = FALSE
  /\ UNCHANGED <<netFrame, finished, tosend, loadedByNet, sockVars, bufferSize,
                 sentKeyframe, raced>>

\* m_streamSession->write took n > 0 units; hasSpaceAvailable may go off.
NetWrite ==
  /\ netPC = "write" /\ space /\ ~broken
  /\ \E n \in 1..tosend :
       /\ sent' = [sent EXCEPT ![Current] = @ + n]
       /\ tosend' = tosend - n
  /\ space' \in BOOLEAN
  /\ netPC' = "loop"
  /\ UNCHANGED <<jobs, jobVars, dtorVars, msgs, outChunkSize, maxSendBufferSize,
                 finished, loadedByNet, semaphore, broken, sendVars>>

\* hasSpaceAvailable is off: 0 is returned and the thread waits.
NetWriteNothing ==
  /\ netPC = "write" /\ ~space
  /\ netPC' = "wait"
  /\ UNCHANGED <<netFrame, finished, tosend, loadedByNet, sockVars, sendVars>>

\* An error: -1 is taken for a size_t, so p steps back, tosend grows by one and
\* the loop goes on at once.  A failed stream never takes a byte again, so the
\* growth beyond the size of the message has no effect and is not counted.
NetWriteError ==
  /\ netPC = "write" /\ space /\ broken
  /\ tosend' = IF tosend <= msgs[Current].size THEN tosend + 1 ELSE tosend
  /\ netPC' = "loop"
  /\ UNCHANGED <<netFrame, finished, loadedByNet, sockVars, sendVars>>

\* dispatch_semaphore_wait returns on a signal or after one second.
NetWait ==
  /\ netPC = "wait" /\ netPC' = "loop"
  /\ semaphore' = IF semaphore > 0 THEN semaphore - 1 ELSE 0
  /\ UNCHANGED <<netFrame, finished, tosend, loadedByNet, space, broken, sendVars>>

\* increaseBuffer(-size), whether the message was sent, cut short or discarded.
NetLoad ==
  /\ netPC = "load" /\ netPC' = "store"
  /\ loadedByNet' = bufferSize
  /\ raced' = (raced \/ jobPC = "store")
  /\ UNCHANGED <<netFrame, finished, tosend, sockVars, bufferSize, clearing, sentKeyframe>>

\* Mutant of SizeReturned: only the bytes that were sent are taken off.
SentReturned == sent[Current]

SizeReturned == msgs[Current].size

NetStore ==
  /\ netPC = "store" /\ netPC' = "idle"
  /\ bufferSize' = NonNegative(loadedByNet - SizeReturned)
  /\ finished' = Current /\ tosend' = 0 /\ loadedByNet' = 0
  /\ UNCHANGED <<netFrame, sockVars, clearing, sentKeyframe, raced>>

NetworkThread == \/ NetStart \/ NetLoop \/ NetTestClearing \/ NetTestKeyframe
                 \/ NetUnclear \/ NetWrite \/ NetWriteNothing \/ NetWriteError
                 \/ NetWait \/ NetLoad \/ NetStore

-----------------------------------------------------------------------------
(* ~RTMPSession.  No pushBuffer call is in progress then (the packetizers    *)
(* hold the session while they call it), but the run loop may still enqueue. *)
(* sendDeleteStream is not called: m_state is past kClientStateConnected.    *)

dtorFrame == <<jobVars, netVars, sockVars, sendVars, logVars, maxSendBufferSize>>

DtorEnding ==
  /\ dtorPC = "alive" /\ dtorPC' = "ending"
  /\ ending' = TRUE
  /\ UNCHANGED <<dtorFrame, jobs, jobExiting, netExiting, syncAt>>

\* Mutant of DtorJobQueue: the job in progress is not waited for.
DtorJobQueueNoSync ==
  /\ dtorPC = "ending" /\ dtorPC' = "jobQueueDone"
  /\ jobExiting' = TRUE
  /\ UNCHANGED <<dtorFrame, jobs, ending, netExiting, syncAt>>

\* m_jobQueue.mark_exiting(); m_jobQueue.enqueue_sync([](){})
DtorJobQueue ==
  /\ dtorPC = "ending" /\ dtorPC' = "jobQueueWait"
  /\ jobExiting' = TRUE
  /\ jobs' = Append(jobs, SyncJob)
  /\ UNCHANGED <<dtorFrame, ending, netExiting, syncAt>>

DtorNetworkQueue ==
  /\ dtorPC = "jobQueueDone" /\ dtorPC' = "netQueueWait"
  /\ netExiting' = TRUE
  /\ syncAt' = Len(msgs)
  /\ UNCHANGED <<dtorFrame, jobs, ending, jobExiting>>

\* The block of the sync runs when every job enqueued before it is through.
DtorReturn ==
  /\ dtorPC = "netQueueWait" /\ netPC = "idle" /\ finished >= syncAt
  /\ dtorPC' = "done"
  /\ UNCHANGED <<dtorFrame, jobs, ending, jobExiting, netExiting, syncAt>>

Destructor == DtorEnding \/ DtorJobQueue \/ DtorNetworkQueue \/ DtorReturn

-----------------------------------------------------------------------------
(* The socket.  A stream that has no space and gets some again sends         *)
(* HasSpaceAvailable, and streamStatusChanged signals the semaphore.         *)

sockFrame == <<jobs, jobVars, netVars, dtorVars, sendVars, logVars, maxSendBufferSize>>

HasSpaceAvailable ==
  /\ ~space
  /\ space' = TRUE
  /\ semaphore' = IF semaphore < MaxSem THEN semaphore + 1 ELSE semaphore
  /\ UNCHANGED <<sockFrame, broken>>

StreamFails ==
  /\ ~broken
  /\ broken' = TRUE
  /\ UNCHANGED <<sockFrame, semaphore, space>>

Callers == \/ \E s \in Sizes, k \in BOOLEAN : PushBuffer(s, k)
           \/ SendSetChunkSize
           \/ SendPong
           \/ \E n \in SendLimits : SetMaxSendBufferSize(n)

Next == Callers \/ JobThread \/ NetworkThread \/ Destructor \/ HasSpaceAvailable \/ StreamFails

Spec == Init /\ [][Next]_vars

\* GCD runs the blocks of a queue, and a destructor that was entered goes on.
\* Nothing is assumed of the callers.
Fairness == /\ WF_vars(JobThread)
            /\ WF_vars(NetworkThread)
            /\ WF_vars(DtorJobQueue \/ DtorNetworkQueue \/ DtorReturn)

FairSpec == Spec /\ Fairness

-----------------------------------------------------------------------------
(* Properties. *)

\* Every variable has its type; the positions of both queues are in range.
TypeOK ==
  /\ jobs \in Seq(Jobs \cup {SyncJob})
  /\ jobPC \in {"idle", "load", "store", "keyframe", "clear", "enqueue"}
  /\ job \in Messages \cup {NoJob} /\ (jobPC # "idle" => job \in Messages)
  /\ loadedByJob \in Nat /\ loadedByNet \in Nat /\ bufferSize \in Nat
  /\ msgs \in Seq(Messages) /\ sent \in Seq(Nat) /\ Len(sent) = Len(msgs)
  /\ finished \in 0..Len(msgs)
  /\ netPC \in {"idle", "loop", "testClearing", "testKeyframe", "unclear",
                "write", "wait", "load", "store"}
  /\ netPC # "idle" => finished < Len(msgs)
  /\ tosend \in Nat
  /\ maxSendBufferSize \in SendLimits
  /\ clearing \in BOOLEAN /\ raced \in BOOLEAN
  /\ sentKeyframe \in 0..Writing
  /\ outChunkSize \in {InitialChunk, PageSize}
  /\ ending \in BOOLEAN /\ jobExiting \in BOOLEAN /\ netExiting \in BOOLEAN
  /\ dtorPC \in {"alive", "ending", "jobQueueWait", "jobQueueDone", "netQueueWait", "done"}
  /\ syncAt \in 0..Len(msgs)
  /\ semaphore \in Nat /\ space \in BOOLEAN /\ broken \in BOOLEAN

\* After a message that was discarded or cut short, the first message of which
\* the peer gets a byte is a keyframe: write() lets the network thread go on
\* only at the keyframe that m_sentKeyframe names, whatever it races with.
ResumeAtKeyframe ==
  \A j \in 2..Len(msgs) : sent[j] > 0 /\ ~Complete(j - 1) => msgs[j].key

\* As long as the session lives, a message is given up only if a keyframe after
\* it has reached write(): the stream never loses data it cannot resume from.
DiscardedForKeyframe ==
  \A i \in 1..finished :
    ~Complete(i) /\ ~ending =>
      \/ \E j \in (i + 1)..Len(msgs) : msgs[j].key
      \/ jobPC \in {"clear", "enqueue"} /\ job.key

\* What the peer believes the chunk size to be when message j begins, when it
\* received every announcement before it.
AnnouncedBefore(j) ==
  IF \E i \in 1..(j - 1) : msgs[i].kind = "setChunkSize" THEN PageSize ELSE InitialChunk

\* A message is cut with the chunk size the peer was told, whatever was discarded
\* before it, unless that was an announcement: the job of sendSetChunkSize changes
\* m_outChunkSize after its message is queued, on the thread that cuts the packets.
ChunkSizeAgreed ==
  \A j \in 1..Len(msgs) :
    /\ sent[j] > 0
    /\ \A i \in 1..(j - 1) : msgs[i].kind = "setChunkSize" => Complete(i)
    => msgs[j].chunk = AnnouncedBefore(j)

\* Bytes of the first i messages.
Written[i \in 0..Len(msgs)] == IF i = 0 THEN 0 ELSE Written[i - 1] + msgs[i].size

\* Bytes that increaseBuffer(size) counted and increaseBuffer(-size) did not yet.
Counted ==
  Written[Len(msgs)] - Written[finished]
  + (IF jobPC \in {"keyframe", "clear", "enqueue"} THEN job.size ELSE 0)

\* Unless two of its updates overlapped, m_bufferSize is the number of bytes
\* written and not yet finished, through sends, errors, cuts and discards.
BufferSizeExact == ~raced /\ ~netExiting => bufferSize = Counted

\* When the destructor is through with both queues no job runs, none will run
\* and no message is left: the members that jobs use may be destroyed.
StoppedWhenDestroyed ==
  dtorPC = "done" =>
    /\ jobPC = "idle" /\ netPC = "idle" /\ finished = Len(msgs)
    /\ \A i \in 1..Len(jobs) : jobs[i].kind # "sync" /\ JobSkipped(jobs[i])

\* A message that write()'s lambda gives up and reports as discarded with all
\* of its `size` bytes (line 259) was kept off the wire.
DiscardsAreWhole ==
  netPC = "load" /\ clearing /\ ~ending /\ ~Complete(Current) => sent[Current] = 0

\* ~RTMPSession returns, also when the socket is full for good or has failed.
DestructorReturns == (dtorPC = "ending") ~> (dtorPC = "done")

\* If the peer reads, so that a full socket has space again some time, and the
\* stream does not fail, every message is sent or given up.
EveryMessageFinishes ==
  WF_vars(HasSpaceAvailable) =>
    \A i \in 1..MaxMsgs : (Len(msgs) >= i) ~> (finished >= i \/ broken)

=============================================================================
