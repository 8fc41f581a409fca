--------------------------- MODULE JobQueue_proof ---------------------------
(***************************************************************************)
(* Theorems about JobQueue, for every number of callers and jobs.          *)
(***************************************************************************)
EXTENDS JobQueue, TLAPS, SequenceTheorems

-----------------------------------------------------------------------------
(* The inductive invariants. *)

\* The worker that popped a job after m_exiting was set does not come back to
\* the queue.
LateInv ==
  \/ lateStarts = 0
  \/ lateStarts = 1 /\ m_exiting /\ worker \in {"run", "notify", "test", "exited"}

\* Every job the queue knows of has been pushed, and the destructor returns
\* behind the worker.
KnownInv ==
  /\ pushed \in 0..MaxJobs
  /\ m_jobs \in Seq(1..pushed) /\ m_done \in Seq(1..pushed) /\ current \subseteq 1..pushed
  /\ owner = "gone" => worker = "exited"

-----------------------------------------------------------------------------
(* After m_exiting. *)

LEMMA InitLate == Init => LateInv
  BY DEF Init, LateInv

LEMMA StepLate == LateInv /\ [Next]_vars => LateInv'
<1> SUFFICES ASSUME LateInv, [Next]_vars PROVE LateInv'
  OBVIOUS
<1> USE DEF LateInv
<1>1. ASSUME NEW c \in Callers, Enqueue(c) PROVE LateInv'
  BY <1>1 DEF Enqueue
<1>2. ASSUME NEW c \in Callers, EnqueueNotify(c) PROVE LateInv'
  BY <1>2 DEF EnqueueNotify, NotifyAll
<1>3. CASE MarkExiting \/ EnqueueSync \/ Destroy
  BY <1>3 DEF MarkExiting, EnqueueSync, Destroy
<1>4. CASE OwnerStep
  BY <1>4 DEF OwnerStep, SyncNotify, SyncCheck, SyncWait, DestroyNotify, Join, NotifyAll
<1>5. CASE Look
  BY <1>5 DEF Look
<1>6. CASE Run \/ RunNotify \/ Wait \/ LoopTest
  BY <1>6 DEF Run, RunNotify, Wait, LoopTest
<1>7. CASE Spurious
  BY <1>7 DEF Spurious
<1>8. CASE UNCHANGED vars
  BY <1>8 DEF vars
<1> QED
  BY <1>1, <1>2, <1>3, <1>4, <1>5, <1>6, <1>7, <1>8 DEF Next, Thread

\* Once mark_exiting or the destructor has set m_exiting, the loop of thread()
\* starts one more job at most.
THEOREM AtMostOneLateStart == Spec => []OneLateStart
<1>1. LateInv => OneLateStart
  BY DEF LateInv, OneLateStart
<1> QED
  BY <1>1, InitLate, StepLate, PTL DEF Spec

-----------------------------------------------------------------------------
(* The refinement. *)

LEMMA InitKnown == Init => KnownInv
  BY JobAssumption DEF Init, KnownInv

\* A push.
LEMMA PushKnown ==
  ASSUME KnownInv, Push, UNCHANGED <<m_done, current, worker>>, owner' # "gone"
  PROVE  KnownInv'
<1>1. pushed' \in 0..MaxJobs /\ 1..pushed \subseteq 1..pushed' /\ pushed + 1 \in 1..pushed'
  BY JobAssumption DEF KnownInv, Push
<1>2. m_jobs \in Seq(1..pushed') /\ m_done' \in Seq(1..pushed') /\ current' \subseteq 1..pushed'
  BY <1>1 DEF KnownInv
<1>3. m_jobs' \in Seq(1..pushed')
  BY <1>1, <1>2, AppendProperties DEF Push
<1> QED
  BY <1>1, <1>2, <1>3 DEF KnownInv

LEMMA StepKnown == KnownInv /\ [Next]_vars => KnownInv'
<1> SUFFICES ASSUME KnownInv, [Next]_vars PROVE KnownInv'
  OBVIOUS
<1>1. ASSUME NEW c \in Callers, Enqueue(c) PROVE KnownInv'
  BY <1>1, PushKnown DEF Enqueue, Alive
<1>2. ASSUME NEW c \in Callers, EnqueueNotify(c) PROVE KnownInv'
  BY <1>2 DEF EnqueueNotify, NotifyAll, KnownInv
<1>3. CASE EnqueueSync
  BY <1>3, PushKnown DEF EnqueueSync
<1>4. CASE MarkExiting \/ Destroy
  BY <1>4 DEF MarkExiting, Destroy, KnownInv
<1>5. CASE OwnerStep
  BY <1>5 DEF OwnerStep, SyncNotify, SyncCheck, SyncWait, DestroyNotify, Join, NotifyAll, KnownInv
<1>6. CASE Look
  <2>1. CASE m_jobs # <<>>
    <3>1. Head(m_jobs) \in 1..pushed /\ Tail(m_jobs) \in Seq(1..pushed)
      BY <2>1, HeadTailProperties DEF KnownInv
    <3> QED
      BY <1>6, <2>1, <3>1 DEF Look, KnownInv
  <2>2. CASE m_jobs = <<>>
    BY <1>6, <2>2 DEF Look, KnownInv
  <2> QED
    BY <2>1, <2>2
<1>7. CASE Run
  <2>1. PICK j \in current : m_done' = Append(m_done, j)
    BY <1>7 DEF Run
  <2>2. m_done' \in Seq(1..pushed)
    BY <2>1, AppendProperties DEF KnownInv
  <2> QED
    BY <1>7, <2>2 DEF Run, KnownInv
<1>8. CASE RunNotify
  BY <1>8 DEF RunNotify, NotifyOne, KnownInv
<1>9. CASE Wait \/ LoopTest \/ Spurious
  BY <1>9 DEF Wait, LoopTest, Spurious, KnownInv
<1>10. CASE UNCHANGED vars
  BY <1>10 DEF vars, KnownInv
<1> QED
  BY <1>1, <1>2, <1>3, <1>4, <1>5, <1>6, <1>7, <1>8, <1>9, <1>10 DEF Next, Thread

\* What TypeOK adds to KnownInv.
PlaceType ==
  /\ worker \in {"look", "run", "notify", "toWait", "wait", "test", "exited"}
  /\ m_exiting \in BOOLEAN /\ caller \in [Callers -> {"idle", "notify"}]
  /\ owner \in {"idle", "notify", "check", "toWait", "wait", "exit", "join", "gone"}
  /\ synced \in 0..MaxJobs /\ lateStarts \in Nat

LEMMA StepPlace == KnownInv /\ PlaceType /\ [Next]_vars => PlaceType'
<1> SUFFICES ASSUME KnownInv, PlaceType, [Next]_vars PROVE PlaceType'
  OBVIOUS
<1> USE DEF PlaceType
<1>1. ASSUME NEW c \in Callers, Enqueue(c) PROVE PlaceType'
  BY <1>1 DEF Enqueue
<1>2. ASSUME NEW c \in Callers, EnqueueNotify(c) PROVE PlaceType'
  BY <1>2 DEF EnqueueNotify, NotifyAll
<1>3. CASE EnqueueSync
  BY <1>3, JobAssumption DEF EnqueueSync, Push, KnownInv
<1>4. CASE MarkExiting \/ Destroy
  BY <1>4 DEF MarkExiting, Destroy
<1>5. CASE OwnerStep
  BY <1>5 DEF OwnerStep, SyncNotify, SyncCheck, SyncWait, DestroyNotify, Join, NotifyAll
<1>6. CASE Look
  BY <1>6 DEF Look
<1>7. CASE Run \/ RunNotify \/ Wait \/ LoopTest \/ Spurious
  BY <1>7 DEF Run, RunNotify, NotifyOne, Wait, LoopTest, Spurious
<1>8. CASE UNCHANGED vars
  BY <1>8 DEF vars
<1> QED
  BY <1>1, <1>2, <1>3, <1>4, <1>5, <1>6, <1>7, <1>8 DEF Next, Thread

LEMMA InitPlace == Init => PlaceType
<1> SUFFICES ASSUME Init PROVE PlaceType
  OBVIOUS
<1>1. caller \in [Callers -> {"idle", "notify"}]
  BY DEF Init
<1>2. worker = "look" /\ m_exiting \in BOOLEAN /\ owner = "idle" /\ synced = 0 /\ lateStarts = 0
  BY Zenon DEF Init
<1>3. synced \in 0..MaxJobs /\ lateStarts \in Nat
  BY <1>2, JobAssumption
<1> QED
  BY <1>1, <1>2, <1>3, Zenon DEF PlaceType

\* Type correctness.
THEOREM TypeCorrect == Spec => []TypeOK
<1>1. KnownInv /\ PlaceType => TypeOK
  <2> SUFFICES ASSUME KnownInv, PlaceType PROVE TypeOK
    OBVIOUS
  <2>1. pushed \in 0..MaxJobs /\ 1..pushed \subseteq 1..MaxJobs
    BY JobAssumption DEF KnownInv
  <2>2. m_jobs \in Seq(1..MaxJobs) /\ m_done \in Seq(1..MaxJobs) /\ current \subseteq 1..MaxJobs
    BY <2>1, SeqMonotonic DEF KnownInv
  <2> QED
    BY <2>1, <2>2 DEF TypeOK, PlaceType
<1> QED
  BY <1>1, InitKnown, StepKnown, InitPlace, StepPlace, PTL DEF Spec

LEMMA InitSerial == Init => Serial!Init
  BY DEF Init, Serial!Init

\* A push is an Accept of a job that is new.
LEMMA PushSerial ==
  ASSUME KnownInv, Push, UNCHANGED <<m_done, current, worker>>, owner # "gone", owner' # "gone"
  PROVE  Serial!Next
<1>1. pushed + 1 \in 1..MaxJobs /\ pushed + 1 \notin 1..pushed
  BY JobAssumption DEF KnownInv, Push
<1>2. \A i \in 1..Len(m_jobs) : m_jobs[i] \in 1..pushed
  BY DEF KnownInv
<1>3. \A i \in 1..Len(m_done) : m_done[i] \in 1..pushed
  BY DEF KnownInv
<1>4. ~Serial!Known(pushed + 1)
  BY <1>1, <1>2, <1>3 DEF Serial!Known, KnownInv
<1>5. Serial!Accept(pushed + 1)
  BY <1>4 DEF Serial!Accept, Push
<1> QED
  BY <1>1, <1>5 DEF Serial!Next

\* A step of JobQueue is a step of SerialQueue, or none.
LEMMA StepSerial == KnownInv /\ [Next]_vars => [Serial!Next]_(Serial!vars)
<1> SUFFICES ASSUME KnownInv, [Next]_vars PROVE Serial!Next \/ UNCHANGED Serial!vars
  OBVIOUS
<1>1. ASSUME NEW c \in Callers, Enqueue(c) PROVE Serial!Next
  BY <1>1, PushSerial DEF Enqueue, Alive
<1>2. ASSUME NEW c \in Callers, EnqueueNotify(c) PROVE UNCHANGED Serial!vars
  BY <1>2 DEF EnqueueNotify, NotifyAll, Serial!vars
<1>3. CASE EnqueueSync
  BY <1>3, PushSerial DEF EnqueueSync
<1>4. CASE MarkExiting \/ Destroy
  BY <1>4 DEF MarkExiting, Destroy, Serial!vars
<1>5. CASE SyncNotify \/ SyncCheck \/ SyncWait \/ DestroyNotify
  BY <1>5 DEF SyncNotify, SyncCheck, SyncWait, DestroyNotify, NotifyAll, Serial!vars
<1>6. CASE Join
  <2>1. Serial!Leave
    BY <1>6 DEF Join, Serial!Leave
  <2> QED
    BY <2>1 DEF Serial!Next
<1>7. CASE Look
  <2>1. CASE m_jobs # <<>>
    <3>1. Serial!Start
      BY <1>7, <2>1 DEF Look, Serial!Start, KnownInv
    <3> QED
      BY <3>1 DEF Serial!Next
  <2>2. CASE m_jobs = <<>>
    BY <1>7, <2>2 DEF Look, Serial!vars
  <2> QED
    BY <2>1, <2>2
<1>8. CASE Run
  <2>1. PICK j \in current : m_done' = Append(m_done, j)
    BY <1>8 DEF Run
  <2>2. j \in 1..MaxJobs
    BY JobAssumption DEF KnownInv
  <2>3. Serial!Finish(j)
    BY <1>8, <2>1 DEF Run, Serial!Finish
  <2> QED
    BY <2>2, <2>3 DEF Serial!Next
<1>9. CASE RunNotify
  BY <1>9 DEF RunNotify, NotifyOne, Serial!vars
<1>10. CASE Wait \/ LoopTest \/ Spurious
  BY <1>10 DEF Wait, LoopTest, Spurious, Serial!vars
<1>11. CASE UNCHANGED vars
  BY <1>11 DEF vars, Serial!vars
<1> QED
  BY <1>1, <1>2, <1>3, <1>4, <1>5, <1>6, <1>7, <1>8, <1>9, <1>10, <1>11 DEF Next, Thread, OwnerStep

\* The worker of JobQueue runs jobs one at a time, in the order in which enqueue
\* and enqueue_sync pushed them, each once, and none after the join.
THEOREM ImplementsSerialQueue == Spec => Implements
<1> QED
  BY InitKnown, StepKnown, InitSerial, StepSerial, PTL DEF Spec, Implements, Serial!Spec
-----------------------------------------------------------------------------
(* Who sleeps. *)

\* No step makes the worker sleep with work to do, but its own wait.
LEMMA WorkerSleep == PlaceType /\ [Next]_vars /\ WorkerAsleep' => WorkerAsleep \/ worker = "toWait"
<1> SUFFICES ASSUME PlaceType, [Next]_vars, WorkerAsleep', worker # "toWait" PROVE WorkerAsleep
  OBVIOUS
<1> USE DEF WorkerAsleep
<1>1. ASSUME NEW c \in Callers, Enqueue(c) PROVE WorkerAsleep
  <2>1. caller'[c] = "notify"
    BY <1>1 DEF Enqueue, PlaceType
  <2> QED
    BY <2>1
<1>2. ASSUME NEW c \in Callers, EnqueueNotify(c) PROVE WorkerAsleep
  BY <1>2 DEF EnqueueNotify, NotifyAll
<1>3. CASE MarkExiting \/ EnqueueSync \/ Destroy
  BY <1>3 DEF MarkExiting, EnqueueSync, Destroy
<1>4. CASE OwnerStep
  BY <1>4 DEF OwnerStep, SyncNotify, SyncCheck, SyncWait, DestroyNotify, Join, NotifyAll
<1>5. CASE Thread
  BY <1>5 DEF Thread, Look, Run, RunNotify, Wait, LoopTest
<1>6. CASE Spurious
  BY <1>6 DEF Spurious
<1>7. CASE UNCHANGED vars
  BY <1>7 DEF vars
<1> QED
  BY <1>1, <1>2, <1>3, <1>4, <1>5, <1>6, <1>7 DEF Next

\* No step makes the owner sleep behind its job, but its own wait.
LEMMA OwnerSleep == KnownInv /\ [Next]_vars /\ OwnerAsleep' => OwnerAsleep \/ owner = "toWait"
<1> SUFFICES ASSUME KnownInv, [Next]_vars, OwnerAsleep', owner # "toWait" PROVE OwnerAsleep
  OBVIOUS
<1> USE DEF OwnerAsleep, Done
<1>1. ASSUME NEW c \in Callers, Enqueue(c) PROVE OwnerAsleep
  BY <1>1 DEF Enqueue
<1>2. ASSUME NEW c \in Callers, EnqueueNotify(c) PROVE OwnerAsleep
  BY <1>2 DEF EnqueueNotify, NotifyAll
<1>3. CASE MarkExiting \/ EnqueueSync \/ Destroy
  BY <1>3 DEF MarkExiting, EnqueueSync, Destroy
<1>4. CASE OwnerStep
  BY <1>4 DEF OwnerStep, SyncNotify, SyncCheck, SyncWait, DestroyNotify, Join, NotifyAll
<1>5. CASE Run
  <2>1. PICK j \in current : m_done' = Append(m_done, j)
    BY <1>5 DEF Run
  <2>2. /\ worker = "run" /\ worker' = "notify" /\ UNCHANGED <<current, owner, synced>>
        /\ owner = "wait" /\ synced \notin current
    BY <1>5 DEF Run
  <2>3. m_done \in Seq(1..pushed)
    BY DEF KnownInv
  <2>4. PICK i \in 1..Len(m_done') : m_done'[i] = synced
    BY <2>2
  <2>5. i \in 1..Len(m_done) /\ m_done[i] = synced
    BY <2>1, <2>2, <2>3, <2>4
  <2> QED
    BY <2>2, <2>5
<1>6. CASE Look \/ RunNotify \/ Wait \/ LoopTest
  BY <1>6 DEF Look, RunNotify, Wait, LoopTest, NotifyOne
<1>7. CASE Spurious
  BY <1>7 DEF Spurious
<1>8. CASE UNCHANGED vars
  BY <1>8 DEF vars
<1> QED
  BY <1>1, <1>2, <1>3, <1>4, <1>5, <1>6, <1>7, <1>8 DEF Next, Thread

\* A worker that sleeps with work to do, and a caller of enqueue_sync that
\* sleeps behind its job, came there through the window between a test and the
\* wait, for every number of callers and jobs.
THEOREM SleepThroughWindowOnly == Spec => SleepOnlyThroughWindow
<1> DEFINE Falls == /\ WorkerAsleep' => WorkerAsleep \/ worker = "toWait"
                    /\ OwnerAsleep' => OwnerAsleep \/ owner = "toWait"
<1>1. KnownInv /\ PlaceType /\ [Next]_vars => [Falls]_vars
  BY WorkerSleep, OwnerSleep
<1>2. [][Falls]_vars => SleepOnlyThroughWindow
  BY PTL DEF SleepOnlyThroughWindow
<1> HIDE DEF Falls
<1> QED
  BY <1>1, <1>2, InitKnown, StepKnown, InitPlace, StepPlace, PTL DEF Spec
=============================================================================
