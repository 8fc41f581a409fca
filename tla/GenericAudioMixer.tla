------------------------- MODULE GenericAudioMixer -------------------------
(***************************************************************************)
(* GenericAudioMixer (src/mixers/GenericAudioMixer.cpp): the ring of mix   *)
(* windows between the sources, which mix their samples in from            *)
(* m_mixQueue, and the mix thread, which passes on one window per frame.   *)
(* Neither holds a lock the other takes: that they stay out of each        *)
(* other's window is a matter of time.                                     *)
(*                                                                         *)
(* Time is counted in samples of the output. A sample is known by its      *)
(* source and the time it belongs to; gains and the arithmetic of mixing   *)
(* and resampling are left out. The behaviour begins when the mix thread   *)
(* has entered its loop.                                                   *)
(***************************************************************************)
EXTENDS Integers, Sequences

CONSTANTS
    Windows,        \* kMixWindowCount
    Frame,          \* samples in a window
    Tolerance,      \* a gap smaller than this is closed (a quarter of Frame)
    Sources,        \* the sources
    Lengths,        \* samples in a buffer that is pushed
    JobDelay,       \* the queue mixes a buffer at most so long after its push
    MixDelay,       \* the mix thread is at most so late
    Lead,           \* a source pushes at most so much ahead of the clock
    MaxTime,        \* bound: the end of time
    MaxPushes       \* bound: how many buffers are pushed

ASSUME MixerAssumption ==
    /\ Windows \in Nat /\ Windows >= 4
    /\ Frame \in Nat \ {0} /\ Tolerance \in 1..Frame
    /\ Lengths \subseteq Nat \ {0}
    /\ MixDelay \in Nat /\ Lead \in Nat /\ JobDelay \in Nat
    /\ MaxTime \in Nat /\ MaxPushes \in Nat

\* What keeps the two sides apart: a buffer is mixed before the window it
\* belongs to goes out, none reaches round the ring, and the window that was
\* current at its push keeps its start until the job has read it.
ASSUME TimingAssumption ==
    /\ JobDelay + Tolerance <= Frame
    /\ MixDelay + Lead <= (Windows - 2) * Frame
    /\ MixDelay + JobDelay < (Windows - 2) * Frame

VARIABLES
    now,
    current,        \* m_currentWindow
    outgoing,       \* m_outgoingWindow
    start,          \* the start of each window
    content,        \* the samples mixed into each window, by position
    nextMixTime,    \* m_nextMixTime
    stamp,          \* mixThread's local currentTime
    mixPC,          \* where the mix thread is
    connected,      \* m_output still refers to an output
    dirty,          \* history: windows that went by without being output
    queue, job,     \* m_mixQueue, and its running job
    lastSampleTime, \* m_lastSampleTime
    captured,       \* the end of what each source has pushed
    released,       \* sources that are gone
    pushes

mixVars == <<current, outgoing, start, nextMixTime, stamp, mixPC, dirty>>
jobVars == <<queue, job, lastSampleTime>>
sourceVars == <<captured, released, pushes>>
vars == <<now, connected, content, mixVars, jobVars, sourceVars>>

Window == 0..(Windows - 1)
NextOf(w) == (w + 1) % Windows
NoWindow == -1
NoJob == [left |-> 0]
Never == -1
Silence == [o \in 0..(Frame - 1) |-> {}]

Init ==
    /\ now = 0 /\ connected \in BOOLEAN
    /\ current = 0 /\ outgoing = NoWindow
    /\ start = [w \in Window |-> IF w = 1 THEN Frame ELSE 0]
    /\ content = [w \in Window |-> Silence]
    /\ nextMixTime = 0 /\ stamp = 0 /\ mixPC = "wait" /\ dirty = {}
    /\ queue = <<>> /\ job = NoJob /\ lastSampleTime = [s \in Sources |-> Never]
    /\ captured = [s \in Sources |-> 0] /\ released = {} /\ pushes = 0

-----------------------------------------------------------------------------
(* Time (external). It does not pass a point by which one of the two sides  *)
(* is to have done its work.                                               *)

InTime(t) ==
    /\ t <= start[NextOf(current)] + MixDelay
    /\ \A i \in DOMAIN queue : t <= queue[i].time + JobDelay
    /\ job # NoJob => t <= job.pushed + JobDelay

Tick ==
    /\ now < MaxTime /\ InTime(now + 1)
    /\ now' = now + 1
    /\ UNCHANGED <<connected, content, mixVars, jobVars, sourceVars>>

-----------------------------------------------------------------------------
(* The callers: sources, and the session object that sets the output.      *)

Later(a, b) == IF a > b THEN a ELSE b

Push(s, length) ==
    /\ s \notin released /\ pushes < MaxPushes
    /\ Later(captured[s], now) + length <= now + Lead
    /\ queue' = Append(queue, [source |-> s, time |-> now, window |-> current,
                               length |-> length])
    /\ captured' = [captured EXCEPT ![s] = Later(@, now) + length]
    /\ pushes' = pushes + 1
    /\ UNCHANGED <<now, connected, content, mixVars, job, lastSampleTime, released>>

Release(s) ==
    /\ s \notin released
    /\ released' = released \cup {s}
    /\ UNCHANGED <<now, connected, content, mixVars, jobVars, captured, pushes>>

\* setOutput, and the end of the output, of which the mixer holds a weak pointer.
SetOutput ==
    /\ connected' = ~connected
    /\ UNCHANGED <<now, content, mixVars, jobVars, sourceVars>>

-----------------------------------------------------------------------------
(* The job of pushBuffer on m_mixQueue.                                    *)

\* A buffer that follows the last one of its source closely follows without a
\* gap; one that comes too early waits for its turn.
MixTime(j) ==
    LET last == lastSampleTime[j.source]
    IN  IF last # Never /\ j.time - last < Tolerance THEN last ELSE j.time

\* How far the buffer starts behind the window that was current at its push.
StartOffset(j) == Later(MixTime(j) - start[j.window], 0)

OffsetAt(n) == n % Frame
WindowAt(w, n) == (w + n \div Frame) % Windows

JobSkip ==
    /\ job = NoJob /\ queue # <<>> /\ Head(queue).source \in released
    /\ queue' = Tail(queue)
    /\ UNCHANGED <<now, connected, content, mixVars, job, lastSampleTime, sourceVars>>

JobStart ==
    /\ job = NoJob /\ queue # <<>> /\ Head(queue).source \notin released
    /\ LET j == Head(queue)
       IN  job' = [source |-> j.source, pushed |-> j.time, time |-> MixTime(j),
                   window |-> WindowAt(j.window, StartOffset(j)),
                   offset |-> OffsetAt(StartOffset(j)), left |-> j.length]
    /\ queue' = Tail(queue)
    /\ UNCHANGED <<now, connected, content, mixVars, lastSampleTime, sourceVars>>

\* The part of the buffer that falls into one window.
ToCopy == IF Frame - job.offset < job.left THEN Frame - job.offset ELSE job.left

JobCopy ==
    /\ job # NoJob
    /\ content' = [content EXCEPT ![job.window] =
         [o \in DOMAIN @ |->
            IF o \in job.offset..(job.offset + ToCopy - 1)
            THEN @[o] \cup {[source |-> job.source, time |-> job.time + o - job.offset]}
            ELSE @[o]]]
    /\ IF job.left > ToCopy
         THEN /\ job' = [job EXCEPT !.window = NextOf(@), !.offset = 0,
                                    !.time = @ + ToCopy, !.left = @ - ToCopy]
              /\ UNCHANGED lastSampleTime
         ELSE /\ job' = NoJob
              /\ lastSampleTime' = [lastSampleTime EXCEPT ![job.source] = job.time + ToCopy]
    /\ UNCHANGED <<now, connected, mixVars, queue, sourceVars>>

MixQueue == JobSkip \/ JobStart \/ JobCopy

-----------------------------------------------------------------------------
(* The mix thread.                                                         *)

\* A defect: the window that has just ended goes out.
EndedWindow == current
\* The window that goes out is the one that ended a frame ago.
GoesOut == outgoing

StampNow == nextMixTime

\* A defect: a window is passed over when it begins.
DueAtStart == start[current]
Due == start[NextOf(current)]

MixBegin ==
    /\ mixPC = "wait" /\ now >= Due
    /\ LET n == NextOf(current)
       IN  start' = [start EXCEPT ![n] = start[current] + Frame,
                                  ![NextOf(n)] = start[current] + 2 * Frame]
    /\ stamp' = StampNow
    /\ nextMixTime' = start[current]
    /\ IF connected /\ GoesOut # NoWindow
         THEN mixPC' = "output" /\ UNCHANGED dirty
         ELSE mixPC' = "switch" /\ dirty' = dirty \cup ({GoesOut} \ {NoWindow})
    /\ UNCHANGED <<now, connected, content, current, outgoing, jobVars, sourceVars>>

\* out->pushBuffer reads the window.
MixOutput ==
    /\ mixPC = "output" /\ mixPC' = "clear"
    /\ UNCHANGED <<now, connected, content, current, outgoing, start, nextMixTime, stamp,
                   dirty, jobVars, sourceVars>>

\* A defect: the window is not cleared.
Uncleared(w) == content[w]
Cleared(w) == Silence

MixClear ==
    /\ mixPC = "clear" /\ mixPC' = "switch"
    /\ content' = [content EXCEPT ![GoesOut] = Cleared(GoesOut)]
    /\ dirty' = dirty \ {GoesOut}
    /\ UNCHANGED <<now, connected, current, outgoing, start, nextMixTime, stamp,
                   jobVars, sourceVars>>

MixSwitch ==
    /\ mixPC = "switch" /\ mixPC' = "wait"
    /\ outgoing' = current /\ current' = NextOf(current)
    /\ UNCHANGED <<now, connected, content, start, nextMixTime, stamp, dirty,
                   jobVars, sourceVars>>

MixThread == MixBegin \/ MixOutput \/ MixClear \/ MixSwitch

Callers == \/ \E s \in Sources, length \in Lengths : Push(s, length)
           \/ \E s \in Sources : Release(s)
           \/ SetOutput

Next == Tick \/ Callers \/ MixQueue \/ MixThread

Spec == Init /\ [][Next]_vars

-----------------------------------------------------------------------------
\* The time at which a window begins: the last one out before the current one,
\* the others after it.
FrameStart(w) ==
    IF w = outgoing /\ mixPC # "switch" THEN start[current] - Frame
    ELSE start[current] + Frame * ((w - current) % Windows)

\* A sample lies in the window and at the position of its time, at most a
\* Tolerance late, unless it is left over in a window that went by when there
\* was no output: only output clears a window.
SamplesInPlace ==
    \A w \in Window \ dirty, o \in 0..(Frame - 1) :
        \A x \in content[w][o] : FrameStart(w) + o - x.time \in 0..(Tolerance - 1)

\* No moment of a source is mixed twice, whatever the jitter of its buffers.
EachMomentOnce ==
    /\ \A w1, w2 \in Window, o1, o2 \in 0..(Frame - 1) :
         content[w1][o1] \cap content[w2][o2] # {} => w1 = w2 /\ o1 = o2
    /\ job # NoJob =>
         \A w \in Window, o \in 0..(Frame - 1) : \A x \in content[w][o] :
             x.source = job.source => x.time < job.time

\* Samples are mixed once and at their times, and a window goes out with the
\* time at which it began.
SamplesOnTime ==
    /\ SamplesInPlace
    /\ EachMomentOnce
    /\ mixPC = "output" => stamp = start[current] - Frame

\* The queue never mixes behind the end of a window, nor into the window that
\* the mix thread passes on and clears, although no lock keeps it from doing so.
WindowsApart ==
    job # NoJob => /\ job.offset < Frame
                   /\ mixPC \in {"output", "clear"} => job.window # GoesOut

\* What goes out is complete: no buffer that waits or is being mixed has a
\* sample for the window on its way out.
NothingLate ==
    mixPC \in {"output", "clear"} =>
        /\ \A i \in DOMAIN queue : MixTime(queue[i]) >= start[current]
        /\ job # NoJob => job.time >= start[current]
=============================================================================
