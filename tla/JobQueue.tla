------------------------------ MODULE JobQueue ------------------------------
(***************************************************************************)
(* JobQueue (system/JobQueue.hpp) as it is built without Grand Central     *)
(* Dispatch: a worker thread, a queue under m_jobMutex, and two condition  *)
(* variables. Callers enqueue jobs; the owner, who alone calls             *)
(* enqueue_sync and mark_exiting in this program, also destroys the queue. *)
(*                                                                         *)
(* The worker holds m_mutex from the top of its loop on, but enqueue and   *)
(* the destructor notify without it, and setDone and notify_one happen     *)
(* without m_doneMutex; so a notification can fall between a test and the  *)
(* wait that follows it, and is lost. Both mutexes exclude nobody else and *)
(* are not modelled. (How the Dispatch build runs jobs is part of the      *)
(* modules whose components own the queues.)                               *)
(***************************************************************************)
EXTENDS Naturals, Sequences
CONSTANTS
    Callers,    \* threads that enqueue
    MaxJobs     \* bound: jobs ever enqueued
ASSUME JobAssumption == MaxJobs \in Nat

VARIABLES
    m_jobs,     \* the queue: jobs are numbered as they are pushed
    pushed,     \* how many there have been
    m_done,     \* the jobs that have run, in that order
    current,    \* the job the worker has popped, in a set of at most one
    worker,     \* where thread() is
    m_exiting,
    caller,     \* where each caller is in enqueue
    owner,      \* where the owner is in enqueue_sync or the destructor
    synced,     \* the owner's synchronous job, 0 while there is none
    lateStarts  \* history: jobs popped after m_exiting was set
vars == <<m_jobs, pushed, m_done, current, worker, m_exiting, caller, owner,
          synced, lateStarts>>

Alive == owner \notin {"exit", "join", "gone"}
Done(j) == \E i \in 1..Len(m_done) : m_done[i] = j

TypeOK ==
    /\ m_jobs \in Seq(1..MaxJobs) /\ pushed \in 0..MaxJobs
    /\ m_done \in Seq(1..MaxJobs) /\ current \subseteq 1..MaxJobs
    /\ worker \in {"look", "run", "notify", "toWait", "wait", "test", "exited"}
    /\ m_exiting \in BOOLEAN /\ caller \in [Callers -> {"idle", "notify"}]
    /\ owner \in {"idle", "notify", "check", "toWait", "wait", "exit", "join", "gone"}
    /\ synced \in 0..MaxJobs /\ lateStarts \in Nat

Init ==
    /\ m_jobs = <<>> /\ pushed = 0 /\ m_done = <<>> /\ current = {}
    /\ worker = "look" /\ m_exiting = FALSE
    /\ caller = [c \in Callers |-> "idle"] /\ owner = "idle"
    /\ synced = 0 /\ lateStarts = 0

Push ==
    /\ pushed < MaxJobs
    /\ pushed' = pushed + 1
    /\ m_jobs' = Append(m_jobs, pushed + 1)

\* Mutant: nobody is notified.
NotifyNobody == UNCHANGED worker
\* notify_all: the worker goes on if it waits, else nothing remembers it.
NotifyAll == worker' = IF worker = "wait" THEN "test" ELSE worker
NotifyOne == owner' = IF owner = "wait" THEN "idle" ELSE owner

Enqueue(c) ==
    /\ Alive /\ caller[c] = "idle"
    /\ Push
    /\ caller' = [caller EXCEPT ![c] = "notify"]
    /\ UNCHANGED <<m_done, current, worker, m_exiting, owner, synced, lateStarts>>

EnqueueNotify(c) ==
    /\ caller[c] = "notify"
    /\ NotifyAll
    /\ caller' = [caller EXCEPT ![c] = "idle"]
    /\ UNCHANGED <<m_jobs, pushed, m_done, current, m_exiting, owner, synced, lateStarts>>

MarkExiting ==
    /\ owner = "idle" /\ ~m_exiting
    /\ m_exiting' = TRUE
    /\ UNCHANGED <<m_jobs, pushed, m_done, current, worker, caller, owner, synced, lateStarts>>

EnqueueSync ==
    /\ owner = "idle"
    /\ Push
    /\ synced' = pushed + 1
    /\ owner' = "notify"
    /\ UNCHANGED <<m_done, current, worker, m_exiting, caller, lateStarts>>

SyncNotify ==
    /\ owner = "notify"
    /\ NotifyAll
    /\ owner' = "check"
    /\ UNCHANGED <<m_jobs, pushed, m_done, current, m_exiting, caller, synced, lateStarts>>

SyncCheck ==
    /\ owner = "check"
    /\ owner' = IF Done(synced) THEN "idle" ELSE "toWait"
    /\ UNCHANGED <<m_jobs, pushed, m_done, current, worker, m_exiting, caller, synced, lateStarts>>

SyncWait ==
    /\ owner = "toWait"
    /\ owner' = "wait"
    /\ UNCHANGED <<m_jobs, pushed, m_done, current, worker, m_exiting, caller, synced, lateStarts>>

\* ~JobQueue: nobody else uses the queue any more.
Destroy ==
    /\ owner = "idle" /\ \A c \in Callers : caller[c] = "idle"
    /\ m_exiting' = TRUE
    /\ owner' = "exit"
    /\ UNCHANGED <<m_jobs, pushed, m_done, current, worker, caller, synced, lateStarts>>

DestroyNotify ==
    /\ owner = "exit"
    /\ NotifyAll
    /\ owner' = "join"
    /\ UNCHANGED <<m_jobs, pushed, m_done, current, m_exiting, caller, synced, lateStarts>>

Join ==
    /\ owner = "join" /\ worker = "exited"
    /\ owner' = "gone"
    /\ UNCHANGED <<m_jobs, pushed, m_done, current, worker, m_exiting, caller, synced, lateStarts>>

\* Mutant: the job pushed last runs first.
LookNewest ==
    /\ worker = "look"
    /\ IF m_jobs # <<>>
       THEN /\ worker' = "run"
            /\ current' = {m_jobs[Len(m_jobs)]}
            /\ m_jobs' = SubSeq(m_jobs, 1, Len(m_jobs) - 1)
            /\ lateStarts' = lateStarts + (IF m_exiting THEN 1 ELSE 0)
       ELSE /\ worker' = "toWait"
            /\ UNCHANGED <<m_jobs, current, lateStarts>>
    /\ UNCHANGED <<pushed, m_done, m_exiting, caller, owner, synced>>

\* The test of the queue and the pop, under m_jobMutex.
Look ==
    /\ worker = "look"
    /\ IF m_jobs # <<>>
       THEN /\ worker' = "run"
            /\ current' = {Head(m_jobs)}
            /\ m_jobs' = Tail(m_jobs)
            /\ lateStarts' = lateStarts + (IF m_exiting THEN 1 ELSE 0)
       ELSE /\ worker' = "toWait"
            /\ UNCHANGED <<m_jobs, current, lateStarts>>
    /\ UNCHANGED <<pushed, m_done, m_exiting, caller, owner, synced>>

\* Job::operator(): the job and setDone.
Run ==
    /\ worker = "run"
    /\ \E j \in current : m_done' = Append(m_done, j)
    /\ worker' = "notify"
    /\ UNCHANGED <<m_jobs, pushed, current, m_exiting, caller, owner, synced, lateStarts>>

RunNotify ==
    /\ worker = "notify"
    /\ IF synced \in current THEN NotifyOne ELSE UNCHANGED owner
    /\ current' = {}
    /\ worker' = "test"
    /\ UNCHANGED <<m_jobs, pushed, m_done, m_exiting, caller, synced, lateStarts>>

Wait ==
    /\ worker = "toWait"
    /\ worker' = "wait"
    /\ UNCHANGED <<m_jobs, pushed, m_done, current, m_exiting, caller, owner, synced, lateStarts>>

\* Mutant: the thread empties the queue before it leaves.
LoopTestDrained ==
    /\ worker = "test"
    /\ worker' = IF m_exiting /\ m_jobs = <<>> THEN "exited" ELSE "look"
    /\ UNCHANGED <<m_jobs, pushed, m_done, current, m_exiting, caller, owner, synced, lateStarts>>

LoopTest ==
    /\ worker = "test"
    /\ worker' = IF m_exiting THEN "exited" ELSE "look"
    /\ UNCHANGED <<m_jobs, pushed, m_done, current, m_exiting, caller, owner, synced, lateStarts>>

\* A condition variable may wake up on its own.
Spurious ==
    /\ \/ worker = "wait" /\ worker' = "test" /\ UNCHANGED owner
       \/ owner = "wait" /\ owner' = "idle" /\ UNCHANGED worker
    /\ UNCHANGED <<m_jobs, pushed, m_done, current, m_exiting, caller, synced, lateStarts>>

Thread == Look \/ Run \/ RunNotify \/ Wait \/ LoopTest
OwnerStep == SyncNotify \/ SyncCheck \/ SyncWait \/ DestroyNotify \/ Join
Next ==
    \/ \E c \in Callers : Enqueue(c) \/ EnqueueNotify(c)
    \/ MarkExiting \/ EnqueueSync \/ Destroy
    \/ OwnerStep \/ Thread \/ Spurious

\* The threads run on; nothing makes anyone call.
Spec ==
    /\ Init /\ [][Next]_vars
    /\ WF_vars(Thread) /\ WF_vars(OwnerStep)
    /\ \A c \in Callers : WF_vars(EnqueueNotify(c))
-----------------------------------------------------------------------------
(* Jobs run one at a time and in the order of their push, and none once    *)
(* the destructor has joined the thread: the queue implements SerialQueue. *)
Serial == INSTANCE SerialQueue WITH
    Jobs <- 1..MaxJobs, waiting <- m_jobs, finished <- m_done,
    running <- IF worker = "run" THEN current ELSE {}, gone <- owner = "gone"
Implements == Serial!Spec

(* After m_exiting is set at most one more job starts, the one of a loop   *)
(* test passed before: a job may find its owner in its destructor once.    *)
OneLateStart == lateStarts <= 1

(* A job is left in the queue only by a notification that fell between the *)
(* worker's test of the queue and its wait: from any other point the       *)
(* worker reaches the job (or the queue is being left).                    *)
NoJobIsLost ==
    \A j \in 1..MaxJobs :
        (/\ \E i \in 1..Len(m_jobs) : m_jobs[i] = j
         /\ worker # "toWait"
         /\ worker = "wait" => owner = "notify" \/ \E c \in Callers : caller[c] = "notify")
        ~> (Done(j) \/ m_exiting)

(* Nobody falls asleep on what has happened already, but in the windows    *)
(* between a test and its wait: a worker that waits with jobs in the queue *)
(* or with the destructor in its join, a caller of enqueue_sync that waits *)
(* behind its job, with no notification to come.                           *)
WorkerAsleep ==
    /\ worker = "wait"
    /\ m_jobs # <<>> \/ owner = "join"
    /\ owner \notin {"notify", "exit"} /\ \A c \in Callers : caller[c] # "notify"
OwnerAsleep ==
    /\ owner = "wait" /\ Done(synced)
    /\ ~(worker = "notify" /\ synced \in current)
SleepOnlyThroughWindow ==
    [][/\ WorkerAsleep' => WorkerAsleep \/ worker = "toWait"
       /\ OwnerAsleep' => OwnerAsleep \/ owner = "toWait"]_vars

(* The destructor returns unless its notification fell between the loop    *)
(* test, or the test of the queue, and the wait; and a caller of           *)
(* enqueue_sync that waits when its job has started is woken.              *)
NobodyWaitsForever ==
    /\ (owner = "exit" /\ worker \notin {"look", "toWait"}) ~> owner = "gone"
    /\ (owner = "wait" /\ worker \in {"run", "notify"} /\ synced \in current) ~> owner # "wait"
\* Only a notification that falls into a window before a wait leaves anyone
\* waiting.
OnlyTheWindowBlocks == NoJobIsLost /\ NobodyWaitsForever
=============================================================================
