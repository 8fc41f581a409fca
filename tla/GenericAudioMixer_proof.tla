------------------------ MODULE GenericAudioMixer_proof ------------------------
(***************************************************************************)
(* Theorems about GenericAudioMixer, for every ring, frame, source and     *)
(* delay that the assumptions allow.                                       *)
(***************************************************************************)
EXTENDS GenericAudioMixer, TLAPS, SequenceTheorems

-----------------------------------------------------------------------------
(* Frames are counted from the start, without the ring: frame g begins at  *)
(* At(g) and lies in the window Ring(g).                                   *)

At(g) == g * Frame
Ring(g) == g % Windows

\* What is left of the ring besides the window that goes out and the current one.
Slack == (Windows - 2) * Frame

LEMMA Positive ==
  /\ Windows \in Nat /\ Windows >= 4 /\ Frame \in Nat /\ Frame > 0 /\ Tolerance \in 1..Frame
  /\ MixDelay \in Nat /\ JobDelay \in Nat /\ Lead \in Nat
BY MixerAssumption

LEMMA Timing ==
  /\ Slack \in Nat
  /\ JobDelay + Tolerance <= Frame /\ MixDelay + Lead <= Slack /\ MixDelay + JobDelay < Slack
<1>1. Slack \in Nat
  BY Positive DEF Slack
<1> QED
  BY <1>1, TimingAssumption DEF Slack

LEMMA AtIsNat == \A g \in Nat : At(g) \in Nat
BY Positive DEF At

LEMMA AtNext == At(0) = 0 /\ \A g \in Int : At(g + 1) = At(g) + Frame
BY Positive DEF At

LEMMA AtAhead ==
  ASSUME NEW a \in Int, NEW b \in Int, a <= b
  PROVE  At(a) <= At(b) /\ At(a) \in Int
<1>1. At(b) = At(a) + (b - a) * Frame /\ At(a) \in Int
  BY Positive DEF At
<1>2. \A d \in Nat : d * Frame \in Nat
  BY Positive
<1> QED
  BY <1>1, <1>2

\* The order of two frames is known from a moment between them.
LEMMA AtBefore ==
  ASSUME NEW a \in Int, NEW b \in Int, At(a) < At(b)
  PROVE  a < b
<1> SUFFICES ASSUME b <= a PROVE FALSE
  OBVIOUS
<1> QED
  BY AtAhead

LEMMA AtRound == \A k \in Int : At(k + Windows - 1) = At(k + 1) + Slack
<1> TAKE k \in Int
<1>1. k + Windows - 1 = (k + 1) + (Windows - 2)
  BY Positive
<1>2. ((k + 1) + (Windows - 2)) * Frame = (k + 1) * Frame + (Windows - 2) * Frame
  BY Positive
<1> QED
  BY <1>1, <1>2 DEF At, Slack

LEMMA Division ==
  ASSUME NEW g \in Int, NEW n \in Nat, n > 0
  PROVE  g % n \in 0..(n - 1) /\ g \div n \in Int /\ g = n * (g \div n) + (g % n)
OBVIOUS

LEMMA Distributes == \A n, p, q \in Int : n * p \in Int /\ n * (p - q) = n * p - n * q
OBVIOUS

LEMMA NoMultiple ==
  ASSUME NEW n \in Nat, NEW d \in Int, 0 <= n * d, n * d < n
  PROVE  d = 0
<1>1. CASE d >= 1
  <2>1. n * d = n + n * (d - 1)
    OBVIOUS
  <2>2. n * (d - 1) >= 0
    BY <1>1
  <2> QED
    BY <2>1, <2>2
<1>2. CASE d <= -1
  <2>1. n * d = -n + n * (d + 1)
    OBVIOUS
  <2>2. n * (d + 1) <= 0
    BY <1>2
  <2> QED
    BY <2>1, <2>2
<1> QED
  BY <1>1, <1>2

\* A remainder is the number that is one.
LEMMA RemainderIs ==
  ASSUME NEW n \in Nat, n > 0, NEW g \in Int, NEW q \in Int, NEW r \in 0..(n - 1), g = n * q + r
  PROVE  g % n = r /\ g \div n = q
<1> PICK q1 \in Int : q1 = g \div n
  BY Division
<1> PICK r1 \in 0..(n - 1) : r1 = g % n
  BY Division
<1>1. g = n * q1 + r1
  BY Division
<1>2. n * (q - q1) = r1 - r /\ n * (q1 - q) = r - r1
  BY <1>1
<1>3. q1 = q
  <2>1. CASE r <= r1
    BY <1>2, <2>1, NoMultiple
  <2>2. CASE r1 <= r
    BY <1>2, <2>2, NoMultiple
  <2> QED
    BY <2>1, <2>2
<1> QED
  BY <1>1, <1>3

\* Going n on from a place in the ring.
LEMMA RingPlus ==
  ASSUME NEW g \in Int, NEW n \in Int
  PROVE  (Ring(g) + n) % Windows = Ring(g + n)
<1> DEFINE q == g \div Windows
<1> DEFINE p == (g + n) \div Windows
<1>1. Windows \in Nat /\ Windows > 0
  BY Positive
<1>2. q \in Int /\ g = Windows * q + Ring(g) /\ Ring(g) \in Int
  BY <1>1, Division DEF Ring
<1>3. p \in Int /\ g + n = Windows * p + Ring(g + n) /\ Ring(g + n) \in 0..(Windows - 1)
  BY <1>1, Division DEF Ring
<1> HIDE DEF q, p
<1>4. Ring(g) + n = Windows * (p - q) + Ring(g + n)
  <2>1. Windows * (p - q) = Windows * p - Windows * q /\ Windows * p \in Int /\ Windows * q \in Int
    BY <1>1, <1>2, <1>3, Distributes
  <2> QED
    BY <1>2, <1>3, <2>1
<1>5. Ring(g) + n \in Int /\ p - q \in Int
  BY <1>2, <1>3
<1> QED
  BY <1>1, <1>3, <1>4, <1>5, RemainderIs

LEMMA RingIn == \A g \in Int : Ring(g) \in Window /\ Ring(g) \in Nat
BY Positive, Division DEF Ring, Window

LEMMA RingNext == \A g \in Int : NextOf(Ring(g)) = Ring(g + 1)
BY RingPlus DEF NextOf

\* Two frames less than a ring apart lie in different windows.
LEMMA RingDistance ==
  ASSUME NEW a \in Int, NEW b \in Int, a <= b, b < a + Windows
  PROVE  (Ring(b) - Ring(a)) % Windows = b - a
<1> DEFINE q == a \div Windows
<1> DEFINE p == b \div Windows
<1>1. Windows \in Nat /\ Windows > 0
  BY Positive
<1>2. q \in Int /\ a = Windows * q + Ring(a) /\ Ring(a) \in Int
  BY <1>1, Division DEF Ring
<1>3. p \in Int /\ b = Windows * p + Ring(b) /\ Ring(b) \in Int
  BY <1>1, Division DEF Ring
<1> HIDE DEF q, p
<1>4. Ring(b) - Ring(a) = Windows * (q - p) + (b - a)
  <2>1. Windows * (q - p) = Windows * q - Windows * p /\ Windows * p \in Int /\ Windows * q \in Int
    BY <1>1, <1>2, <1>3, Distributes
  <2> QED
    BY <1>2, <1>3, <2>1
<1>5. b - a \in 0..(Windows - 1) /\ Ring(b) - Ring(a) \in Int /\ q - p \in Int
  BY <1>1, <1>2, <1>3
<1> QED
  BY <1>1, <1>4, <1>5, RemainderIs

LEMMA RingApart ==
  ASSUME NEW a \in Int, NEW b \in Int, a < b, b < a + Windows
  PROVE  Ring(a) # Ring(b)
<1> SUFFICES ASSUME Ring(a) = Ring(b) PROVE FALSE
  OBVIOUS
<1>1. (Ring(b) - Ring(a)) % Windows = b - a
  BY RingDistance
<1>2. Ring(b) - Ring(a) = Windows * 0 + 0 /\ Ring(b) - Ring(a) \in Int
  BY RingIn, Positive
<1>3. 0 \in 0..(Windows - 1) /\ Windows > 0 /\ Windows \in Nat
  BY Positive
<1>4. (Ring(b) - Ring(a)) % Windows = 0
  BY <1>2, <1>3, RemainderIs
<1> QED
  BY <1>1, <1>4

\* Going n samples on from the beginning of a frame.
LEMMA Onward ==
  ASSUME NEW f \in Int, NEW n \in Nat
  PROVE  \E g \in Int : /\ f <= g /\ WindowAt(Ring(f), n) = Ring(g)
                        /\ OffsetAt(n) \in 0..(Frame - 1) /\ At(g) + OffsetAt(n) = At(f) + n
<1>1. Frame \in Nat /\ Frame > 0
  BY Positive
<1> PICK q \in Int : q = n \div Frame
  BY <1>1, Division
<1> PICK r \in 0..(Frame - 1) : r = n % Frame
  BY <1>1, Division
<1>2. n = Frame * q + r
  BY <1>1, Division
<1>3. q >= 0
  <2> SUFFICES ASSUME q <= -1 PROVE FALSE
    OBVIOUS
  <2>1. Frame * q = -Frame + Frame * (q + 1) /\ Frame * (q + 1) <= 0
    BY <1>1
  <2> QED
    BY <1>1, <1>2, <2>1
<1>4. (f + q) * Frame = f * Frame + Frame * q /\ f * Frame \in Int /\ Frame * q \in Int
  BY <1>1
<1>5. At(f + q) + OffsetAt(n) = At(f) + n
  BY <1>2, <1>4 DEF At, OffsetAt
<1>6. WindowAt(Ring(f), n) = Ring(f + q)
  BY RingPlus DEF WindowAt
<1> QED
  BY <1>3, <1>5, <1>6 DEF OffsetAt

-----------------------------------------------------------------------------
(* The mix thread. *)

\* The last frame whose start has been set.
Known(k) == IF mixPC = "wait" THEN k + 1 ELSE k + 2

\* Frame k is the current one. It has begun, and is over when the mix thread
\* passes on the one before it; each window knows the start of its frame, for as
\* many frames as there are windows.
Clock(k) ==
  /\ current = Ring(k) /\ outgoing = IF k = 0 THEN NoWindow ELSE Ring(k - 1)
  /\ start \in [Window -> Nat]
  /\ \A i \in Nat : i <= Known(k) /\ Known(k) < i + Windows => start[Ring(i)] = At(i)
  /\ mixPC \in {"wait", "output", "clear", "switch"}
  /\ now \in Nat /\ At(k) <= now /\ now <= At(k + 1) + MixDelay
  /\ mixPC # "wait" => At(k + 1) <= now
  /\ mixPC \in {"output", "clear"} => k > 0
  /\ mixPC = "wait" /\ k > 0 => nextMixTime = At(k - 1)
  /\ mixPC # "wait" => nextMixTime = At(k)
  /\ mixPC = "output" => stamp = At(k - 1)

LEMMA KnownStarts ==
  ASSUME NEW k \in Nat, Clock(k)
  PROVE  start[current] = At(k) /\ start[NextOf(current)] = At(k + 1)
<1>1. Known(k) \in {k + 1, k + 2}
  BY DEF Known
<1>2. k + 1 \in Nat /\ k <= Known(k) /\ Known(k) < k + Windows
      /\ k + 1 <= Known(k) /\ Known(k) < (k + 1) + Windows
  BY <1>1, Positive
<1>3. start[Ring(k)] = At(k) /\ start[Ring(k + 1)] = At(k + 1)
  BY <1>2, Zenon DEF Clock
<1>4. NextOf(Ring(k)) = Ring(k + 1)
  BY RingNext
<1>5. current = Ring(k)
  BY Zenon DEF Clock
<1> QED
  BY <1>3, <1>4, <1>5, Zenon

LEMMA InitClock == Init => Clock(0)
<1> SUFFICES ASSUME Init PROVE Clock(0)
  OBVIOUS
<1>1. 0 \in Window /\ 1 \in Window /\ Ring(0) = 0 /\ Ring(1) = 1
  <2>1. 0 = Windows * 0 + 0 /\ 1 = Windows * 0 + 1 /\ 0 \in 0..(Windows - 1) /\ 1 \in 0..(Windows - 1)
    BY Positive
  <2> QED
    BY <2>1, Positive, RemainderIs DEF Ring, Window
<1>2. At(0) = 0 /\ At(1) = Frame
  BY Positive DEF At
<1>3. start \in [Window -> Nat] /\ start[0] = 0 /\ start[1] = Frame
  BY <1>1, Positive DEF Init
<1>4. \A i \in Nat : i <= Known(0) => start[Ring(i)] = At(i)
  <2>1. Known(0) = 1
    BY DEF Init, Known
  <2>2. \A i \in Nat : i <= 1 => i = 0 \/ i = 1
    OBVIOUS
  <2> QED
    BY <1>1, <1>2, <1>3, <2>1, <2>2, Zenon
<1>5. At(0) <= now /\ now <= At(0 + 1) + MixDelay /\ now \in Nat
  BY <1>2, Positive DEF Init
<1>6. mixPC = "wait" /\ mixPC \notin {"output", "clear"} /\ ~(0 > 0)
  BY DEF Init
<1>7. current = Ring(0) /\ outgoing = NoWindow
  BY <1>1, Zenon DEF Init
<1> QED
  BY <1>3, <1>4, <1>5, <1>6, <1>7, Zenon DEF Clock

\* A step of anyone else.
LEMMA OtherClock ==
  ASSUME NEW k \in Nat, Clock(k), UNCHANGED <<now, mixVars>>
  PROVE  Clock(k)'
BY Zenon DEF Clock, Known, mixVars

LEMMA TickClock ==
  ASSUME NEW k \in Nat, Clock(k), Tick
  PROVE  Clock(k)'
<1>1. now' = now + 1 /\ now + 1 <= At(k + 1) + MixDelay
  BY KnownStarts DEF Tick, InTime
<1>2. now \in Nat /\ At(k) <= now /\ (mixPC # "wait" => At(k + 1) <= now)
  BY Zenon DEF Clock
<1>3. At(k) \in Nat /\ At(k + 1) \in Nat
  BY AtIsNat
<1>4. now' \in Nat /\ At(k) <= now' /\ now' <= At(k + 1) + MixDelay /\ (mixPC # "wait" => At(k + 1) <= now')
  BY <1>1, <1>2, <1>3, Positive
<1>5. UNCHANGED mixVars
  BY Zenon DEF Tick
<1> QED
  BY <1>4, <1>5, Zenon DEF Clock, Known, mixVars

LEMMA BeginClock ==
  ASSUME NEW k \in Nat, Clock(k), MixBegin
  PROVE  Clock(k)'
<1>1. Known(k) = k + 1 /\ Known(k)' = k + 2
  BY Zenon DEF MixBegin, Known
<1>2. start' = [start EXCEPT ![Ring(k + 1)] = At(k + 1), ![Ring(k + 2)] = At(k + 2)]
  <2>1. start[current] + Frame = At(k + 1) /\ start[current] + 2 * Frame = At(k + 2)
    <3>1. start[current] = At(k) /\ At(k) \in Nat /\ At(k + 1) = At(k) + Frame /\ At((k + 1) + 1) = At(k + 1) + Frame
          /\ (k + 1) + 1 = k + 2
      BY KnownStarts, AtIsNat, AtNext
    <3> QED
      BY <3>1, Positive
  <2>2. NextOf(current) = Ring(k + 1) /\ NextOf(NextOf(current)) = Ring(k + 2)
    <3>1. (k + 1) + 1 = k + 2 /\ k + 1 \in Int
      OBVIOUS
    <3>2. current = Ring(k)
      BY DEF Clock
    <3> QED
      BY <3>1, <3>2, RingNext
  <2> QED
    BY <2>1, <2>2, Zenon DEF MixBegin
<1>3. Ring(k + 1) \in Window /\ Ring(k + 2) \in Window /\ At(k + 1) \in Nat /\ At(k + 2) \in Nat
  BY RingIn, AtIsNat
<1>4. start \in [Window -> Nat]
  BY Zenon DEF Clock
<1>5. start' \in [Window -> Nat]
  BY <1>2, <1>3, <1>4
<1>6. ASSUME NEW i \in Nat, i <= k + 2, k + 2 < i + Windows PROVE start'[Ring(i)] = At(i)
  <2>1. CASE i = k + 2
    BY <1>2, <1>3, <1>4, <2>1
  <2>2. CASE i = k + 1
    <3>1. Ring(k + 1) # Ring(k + 2)
      BY RingApart, Positive
    <3> QED
      BY <1>2, <1>3, <1>4, <2>2, <3>1
  <2>3. CASE i <= k
    <3>1. Ring(i) # Ring(k + 1) /\ Ring(i) # Ring(k + 2) /\ Ring(i) \in Window
      BY <1>6, <2>3, RingApart, RingIn, Positive
    <3>2. i <= k + 1 /\ k + 1 < i + Windows
      BY <1>6, <2>3, Positive
    <3>3. start[Ring(i)] = At(i)
      BY <1>1, <3>2, Zenon DEF Clock
    <3> QED
      BY <1>2, <1>3, <1>4, <3>1, <3>3
  <2> QED
    BY <1>6, <2>1, <2>2, <2>3
<1>7. At(k + 1) <= now
  BY KnownStarts DEF MixBegin, Due
<1>8. /\ mixPC = "wait" /\ nextMixTime' = At(k) /\ stamp' = nextMixTime
      /\ mixPC' \in {"output", "switch"} /\ (mixPC' = "output" => outgoing # NoWindow)
      /\ UNCHANGED <<now, current, outgoing>>
  BY KnownStarts, Zenon DEF MixBegin, StampNow, GoesOut
<1>9. mixPC' = "output" => k > 0
  BY <1>8 DEF Clock
<1> QED
  BY <1>1, <1>5, <1>6, <1>7, <1>8, <1>9, Zenon DEF Clock

LEMMA PassClock ==
  ASSUME NEW k \in Nat, Clock(k), MixOutput \/ MixClear
  PROVE  Clock(k)'
<1>1. /\ mixPC \in {"output", "clear"} /\ mixPC' \in {"clear", "switch"}
      /\ UNCHANGED <<now, current, outgoing, start, nextMixTime, stamp>>
  BY Zenon DEF MixOutput, MixClear
<1>2. Known(k) = k + 2 /\ Known(k)' = k + 2
  BY <1>1, Zenon DEF Known
<1> QED
  BY <1>1, <1>2, Zenon DEF Clock

LEMMA SwitchClock ==
  ASSUME NEW k \in Nat, Clock(k), MixSwitch
  PROVE  Clock(k + 1)'
<1>1. /\ mixPC = "switch" /\ mixPC' = "wait" /\ outgoing' = current /\ current' = NextOf(current)
      /\ UNCHANGED <<now, start, nextMixTime, stamp>>
  BY Zenon DEF MixSwitch
<1>2. Known(k) = k + 2 /\ Known(k + 1)' = k + 2
  BY <1>1 DEF Known
<1>3. current' = Ring(k + 1) /\ outgoing' = Ring((k + 1) - 1) /\ k + 1 # 0
  BY <1>1, RingNext DEF Clock
<1>4. now \in Nat /\ At(k + 1) <= now /\ now <= At((k + 1) + 1) + MixDelay
  <2>1. now \in Nat /\ At(k + 1) <= now /\ now <= At(k + 1) + MixDelay
    BY <1>1, Zenon DEF Clock
  <2>2. At(k + 1) \in Nat /\ At((k + 1) + 1) = At(k + 1) + Frame
    BY AtIsNat, AtNext
  <2> QED
    BY <2>1, <2>2, Positive
<1>5. nextMixTime = At((k + 1) - 1)
  BY <1>1 DEF Clock
<1> QED
  BY <1>1, <1>2, <1>3, <1>4, <1>5, Zenon DEF Clock

-----------------------------------------------------------------------------
(* The queue. *)

Buffers == [source : Sources, time : Nat, window : Window, length : Nat \ {0}]
Jobs == [source : Sources, pushed : Nat, time : Int, window : Window, offset : 0..(Frame - 1),
         left : Nat \ {0}]

Working == job # NoJob

\* The end of what has been mixed of a source, or will have been by the job.
Mixed(s) == IF Working /\ job.source = s THEN job.time + job.left ELSE lastSampleTime[s]

QueueType ==
  /\ queue \in Seq(Buffers) /\ (Working => job \in Jobs)
  /\ lastSampleTime \in [Sources -> Int] /\ captured \in [Sources -> Nat]

\* Frame f was the current one at a buffer's push.
PushedIn(b, f) == b.window = Ring(f) /\ At(f) <= b.time /\ b.time <= At(f + 1) + MixDelay

\* A buffer that waits, of which the source has pushed all up to end, has not
\* waited longer than it may; the buffers before it leave room for it.
Waiting(b, end, k) ==
  /\ \E f \in Nat : f <= k /\ PushedIn(b, f)
  /\ b.time <= now /\ now <= b.time + JobDelay
  /\ b.time + b.length <= end /\ end <= b.time + Lead
  /\ end <= captured[b.source] /\ Mixed(b.source) + b.length <= end

QueueInv(k, e) ==
  /\ e \in Seq(Nat) /\ Len(e) = Len(queue)
  /\ \A i \in DOMAIN queue : Waiting(queue[i], e[i], k)
  /\ \A i, j \in DOMAIN queue :
       i < j /\ queue[i].source = queue[j].source => e[i] + queue[j].length <= e[j]
  /\ \A s \in Sources : Mixed(s) <= captured[s]

\* The job mixes into frame g, where its samples belong but for a small shift,
\* and ends no further ahead than its source may be.
JobAt(g) ==
  /\ job.window = Ring(g)
  /\ job.pushed <= now /\ now <= job.pushed + JobDelay
  /\ job.pushed < job.time + Tolerance
  /\ job.time <= At(g) + job.offset /\ At(g) + job.offset < job.time + Tolerance
  /\ At(g) + job.offset + job.left <= job.pushed + Lead
JobInv == Working => \E g \in Nat : JobAt(g)

\* A buffer finds the start of the window that was current at its push.
LEMMA BufferStart ==
  ASSUME NEW k \in Nat, Clock(k), NEW f \in Nat, f <= k,
         NEW b \in Buffers, PushedIn(b, f), now <= b.time + JobDelay
  PROVE  start[b.window] = At(f)
<1>1. now \in Nat /\ At(k) <= now /\ (mixPC # "wait" => At(k + 1) <= now)
  BY Zenon DEF Clock
<1>2. b.time <= At(f + 1) + MixDelay /\ b.window = Ring(f) /\ b.time \in Nat
  BY DEF PushedIn, Buffers
<1>3. /\ At(k) \in Nat /\ At(k + 1) \in Nat /\ At(f + 1) \in Nat /\ At(f + Windows - 1) \in Nat
      /\ At(f + Windows - 1) = At(f + 1) + Slack /\ f + Windows - 1 \in Int
  <2>1. f + Windows - 1 \in Nat
    BY Positive
  <2> QED
    BY <2>1, AtIsNat, AtRound
<1>4. now < At(f + Windows - 1)
  BY <1>1, <1>2, <1>3, Timing, Positive
<1>5. k < f + Windows - 1 /\ (mixPC # "wait" => k + 1 < f + Windows - 1)
  <2>1. At(k) < At(f + Windows - 1)
    BY <1>1, <1>3, <1>4
  <2>2. mixPC # "wait" => At(k + 1) < At(f + Windows - 1)
    BY <1>1, <1>3, <1>4
  <2> QED
    BY <1>3, <2>1, <2>2, AtBefore
<1>6. f <= Known(k) /\ Known(k) < f + Windows
  BY <1>5, Positive DEF Known
<1> QED
  BY <1>2, <1>6, Zenon DEF Clock

LEMMA MixTimeIs ==
  ASSUME QueueType, NEW b \in Buffers
  PROVE  /\ MixTime(b) \in Int /\ b.time < MixTime(b) + Tolerance
         /\ lastSampleTime[b.source] <= MixTime(b)
         /\ MixTime(b) \in {b.time, lastSampleTime[b.source]}
<1>1. b.time \in Nat /\ lastSampleTime[b.source] \in Int
  BY DEF QueueType, Buffers
<1> QED
  BY <1>1, Positive DEF MixTime, Never

\* The job is neither behind the window that goes out nor round the ring.
LEMMA JobFrame ==
  ASSUME NEW k \in Nat, Clock(k), QueueType, Working, NEW g \in Int, JobAt(g)
  PROVE  /\ k - 1 <= g /\ g <= k + Windows - 2
         /\ mixPC # "wait" => k <= g
<1>1. now \in Nat /\ At(k) <= now /\ now <= At(k + 1) + MixDelay /\ (mixPC # "wait" => At(k + 1) <= now)
  BY Zenon DEF Clock
<1>2. job.pushed \in Nat /\ job.time \in Int /\ job.offset \in 0..(Frame - 1) /\ job.left \in Nat /\ job.left > 0
  BY DEF QueueType, Jobs
<1>3. /\ At(g) \in Int /\ At(k) \in Int /\ At(k + 1) \in Int /\ At(g + 2) = At(g) + Frame + Frame
      /\ At(k + Windows - 1) = At(k + 1) + Slack
  <2>1. At(g + 1) = At(g) + Frame /\ At((g + 1) + 1) = At(g + 1) + Frame /\ (g + 1) + 1 = g + 2
    BY AtNext
  <2> QED
    BY <2>1, AtAhead, AtRound
<1>4. now < At(g + 2)
  BY <1>1, <1>2, <1>3, Timing, Positive DEF JobAt
<1>5. k < g + 2 /\ (mixPC # "wait" => k + 1 < g + 2)
  <2>1. At(k) < At(g + 2) /\ (mixPC # "wait" => At(k + 1) < At(g + 2))
    BY <1>1, <1>3, <1>4, Positive
  <2> QED
    BY <2>1, AtBefore
<1>6. At(g) < At(k + Windows - 1)
  BY <1>1, <1>2, <1>3, Timing, Positive DEF JobAt
<1>7. g < k + Windows - 1
  BY <1>6, AtBefore, Positive
<1> QED
  BY <1>5, <1>7, Positive

LEMMA InitQueue == Init => QueueType /\ QueueInv(0, <<>>) /\ JobInv
<1> SUFFICES ASSUME Init PROVE QueueType /\ QueueInv(0, <<>>) /\ JobInv
  OBVIOUS
<1>1. queue = <<>> /\ ~Working /\ captured = [s \in Sources |-> 0] /\ lastSampleTime = [s \in Sources |-> -1]
  BY DEF Init, Working, Never
<1> QED
  BY <1>1 DEF QueueType, QueueInv, JobInv, Mixed

LEMMA Queued ==
  ASSUME QueueType, NEW i \in DOMAIN queue
  PROVE  queue[i] \in Buffers /\ queue[i].source \in Sources /\ queue[i].time \in Nat /\ queue[i].length \in Nat
<1>1. queue[i] \in Buffers
  BY DEF QueueType
<1> QED
  BY <1>1 DEF Buffers

LEMMA KeepsQueue ==
  ASSUME QueueType, NEW k \in Nat, NEW l \in Nat, k <= l, NEW e, QueueInv(k, e),
         UNCHANGED <<queue, now, captured>>, \A s \in Sources : Mixed(s)' = Mixed(s)
  PROVE  QueueInv(l, e)'
<1>1. ASSUME NEW i \in DOMAIN queue PROVE Waiting(queue[i], e[i], l)'
  <2>1. Waiting(queue[i], e[i], k)
    BY DEF QueueInv
  <2>2. \E f \in Nat : f <= l /\ PushedIn(queue[i], f)
    BY <2>1 DEF Waiting
  <2>3. queue[i].source \in Sources
    BY Queued
  <2> QED
    BY <2>1, <2>2, <2>3, Zenon DEF Waiting, PushedIn
<1> QED
  BY <1>1, Zenon DEF QueueInv

LEMMA TickQueue ==
  ASSUME QueueType, NEW k \in Nat, Clock(k), NEW e, QueueInv(k, e), Tick
  PROVE  QueueInv(k, e)'
<1>1. now' = now + 1 /\ now \in Nat /\ \A i \in DOMAIN queue : now + 1 <= queue[i].time + JobDelay
  BY DEF Tick, InTime, Clock
<1>2. UNCHANGED <<queue, captured, job, lastSampleTime>>
  BY Zenon DEF Tick, jobVars, sourceVars
<1>3. \A s : Mixed(s)' = Mixed(s)
  BY <1>2, Zenon DEF Mixed, Working
<1>4. ASSUME NEW i \in DOMAIN queue PROVE Waiting(queue[i], e[i], k)'
  <2>1. Waiting(queue[i], e[i], k)
    BY DEF QueueInv
  <2>2. queue[i].time \in Nat
    BY Queued
  <2>3. queue[i].time <= now' /\ now' <= queue[i].time + JobDelay
    BY <1>1, <2>1, <2>2 DEF Waiting
  <2> QED
    BY <1>2, <1>3, <2>1, <2>3, Zenon DEF Waiting, PushedIn
<1> QED
  BY <1>2, <1>3, <1>4, Zenon DEF QueueInv

\* The first buffer leaves the queue, dropped or mixed.
LEMMA TailQueue ==
  ASSUME QueueType, NEW k \in Nat, NEW e, QueueInv(k, e), queue # <<>>, queue' = Tail(queue),
         UNCHANGED <<now, captured>>,
         \A s \in Sources : Mixed(s)' \in Int /\ (Mixed(s)' = Mixed(s) \/ (s = queue[1].source /\ Mixed(s)' <= e[1]))
  PROVE  QueueInv(k, Tail(e))'
<1>1. /\ queue \in Seq(Buffers) /\ e \in Seq(Nat) /\ Len(e) = Len(queue) /\ 1 \in DOMAIN queue
      /\ captured \in [Sources -> Nat]
  BY DEF QueueType, QueueInv
<1>0. e[1] \in Nat /\ (\A s \in Sources : Mixed(s)' \in Int) /\ e[1] <= captured[queue[1].source]
  <2>1. e[1] \in Nat
    BY <1>1
  <2>2. \A s \in Sources : Mixed(s)' \in Int
    BY Zenon
  <2>3. Waiting(queue[1], e[1], k)
    BY <1>1, Zenon DEF QueueInv
  <2>4. e[1] <= captured[queue[1].source]
    BY <2>3, Zenon DEF Waiting
  <2> QED
    BY <2>1, <2>2, <2>4, Zenon
<1>2. \A i \in DOMAIN queue' : /\ i + 1 \in DOMAIN queue /\ queue'[i] = queue[i + 1] /\ Tail(e)[i] = e[i + 1]
                               /\ i \in Nat /\ 1 < i + 1
  BY <1>1
<1>3. Tail(e) \in Seq(Nat) /\ Len(Tail(e)) = Len(queue')
  BY <1>1
<1>4. ASSUME NEW i \in DOMAIN queue' PROVE Waiting(queue[i], Tail(e)[i], k)'
  <2> PICK b \in Buffers : b = queue[i + 1]
    BY <1>1, <1>2
  <2> PICK end \in Nat : end = e[i + 1]
    BY <1>1, <1>2
  <2>1. Waiting(b, end, k)
    BY <1>2 DEF QueueInv
  <2>2. b.source \in Sources /\ b.length \in Nat
    BY DEF Buffers
  <2>3. Mixed(b.source)' + b.length <= end
    <3>1. CASE Mixed(b.source)' = Mixed(b.source)
      BY <2>1, <3>1, Zenon DEF Waiting
    <3>2. CASE b.source = queue[1].source /\ Mixed(b.source)' <= e[1]
      <4>1. e[1] + b.length <= end
        BY <1>1, <1>2, <3>2 DEF QueueInv
      <4>2. e[1] \in Nat /\ Mixed(b.source)' \in Int
        BY <1>0, <2>2, Zenon
      <4> QED
        BY <2>2, <3>2, <4>1, <4>2
    <3> QED
      BY <2>2, <3>1, <3>2
  <2>4. Waiting(b, end, k)'
    BY <2>1, <2>3, Zenon DEF Waiting, PushedIn
  <2>5. queue'[i] = b /\ Tail(e)[i] = end
    BY <1>2
  <2> QED
    BY <2>4, <2>5, Zenon DEF Waiting, PushedIn
<1>5. ASSUME NEW i \in DOMAIN queue', NEW j \in DOMAIN queue', i < j, queue'[i].source = queue'[j].source
      PROVE  Tail(e)[i] + queue'[j].length <= Tail(e)[j]
  <2>1. i + 1 < j + 1
    BY <1>1, <1>5
  <2> QED
    BY <1>2, <1>5, <2>1, Zenon DEF QueueInv
<1>6. ASSUME NEW s \in Sources PROVE Mixed(s)' <= captured'[s]
  <2>1. CASE Mixed(s)' = Mixed(s)
    BY <2>1, Zenon DEF QueueInv
  <2>2. CASE s = queue[1].source /\ Mixed(s)' <= e[1]
    <3>1. e[1] <= captured[s] /\ e[1] \in Nat /\ captured[s] \in Nat /\ captured' = captured /\ Mixed(s)' \in Int
      BY <1>0, <1>1, <2>2
    <3> QED
      BY <2>2, <3>1
  <2> QED
    BY <2>1, <2>2
<1> QED
  BY <1>3, <1>4, <1>5, <1>6, Zenon DEF QueueInv

LEMMA MixedIsInt == QueueType => \A s \in Sources : Mixed(s) \in Int
BY DEF QueueType, Mixed, Jobs

LEMMA PushQueue ==
  ASSUME QueueType, NEW k \in Nat, Clock(k), NEW e, QueueInv(k, e),
         NEW s \in Sources, NEW length \in Lengths, Push(s, length)
  PROVE  QueueType' /\ \E d : QueueInv(k, d)'
<1> PICK b : b = [source |-> s, time |-> now, window |-> current, length |-> length]
  OBVIOUS
<1> PICK old \in Nat : old = captured[s]
  BY DEF QueueType
<1> PICK new : new = captured'[s]
  OBVIOUS
<1>1. /\ now \in Nat /\ At(k) <= now /\ now <= At(k + 1) + MixDelay /\ current = Ring(k) /\ current \in Window
      /\ length \in Nat \ {0}
  BY RingIn, MixerAssumption DEF Clock
<1>2. /\ queue' = Append(queue, b) /\ captured' = [captured EXCEPT ![s] = new]
      /\ UNCHANGED <<now, job, lastSampleTime>>
      /\ new = Later(old, now) + length /\ new <= now + Lead
  <2>1. captured'[s] = Later(captured[s], now) + length
    BY DEF Push, QueueType
  <2> QED
    BY <2>1 DEF Push
<1>3. new \in Nat /\ old + length <= new /\ now + length <= new /\ old <= new
  BY <1>1, <1>2 DEF Later
<1>4. b \in Buffers /\ QueueType'
  <2>1. b \in Buffers
    BY <1>1, <1>3 DEF Buffers
  <2>2. queue' \in Seq(Buffers) /\ captured' \in [Sources -> Nat]
    BY <1>2, <1>3, <2>1 DEF QueueType
  <2> QED
    BY <1>2, <2>1, <2>2, Zenon DEF QueueType, Working
<1>5. \A t \in Sources : captured[t] <= captured'[t]
  BY <1>2, <1>3 DEF QueueType
<1>6. \A t : Mixed(t)' = Mixed(t)
  BY <1>2, Zenon DEF Mixed, Working
<1> PICK n : n = Len(queue)
  OBVIOUS
<1>7. /\ n \in Nat /\ Len(queue') = n + 1 /\ Len(Append(e, new)) = n + 1 /\ Append(e, new) \in Seq(Nat)
      /\ queue'[n + 1] = b /\ Append(e, new)[n + 1] = new
      /\ DOMAIN queue' = 1..(n + 1) /\ DOMAIN queue = 1..n
      /\ \A i \in 1..n : queue'[i] = queue[i] /\ Append(e, new)[i] = e[i] /\ e[i] \in Nat
  BY <1>2, <1>3, <1>4 DEF QueueType, QueueInv
<1>8. Mixed(s) \in Int /\ Mixed(s) <= old
  BY MixedIsInt DEF QueueInv
<1>9. ASSUME NEW i \in 1..(n + 1) PROVE Waiting(queue[i], Append(e, new)[i], k)'
  <2>1. CASE i = n + 1
    <3>1. k <= k /\ PushedIn(b, k)
      BY <1>1 DEF PushedIn
    <3>2. b.time = now /\ b.length = length /\ b.source = s
      OBVIOUS
    <3>3. b.time <= now /\ now <= b.time + JobDelay /\ b.time + b.length <= new /\ new <= b.time + Lead
      BY <1>1, <1>2, <1>3, <3>2, Positive
    <3>4. new <= captured'[b.source] /\ Mixed(b.source)' + b.length <= new
      BY <1>1, <1>3, <1>6, <1>8, <3>2
    <3>5. Waiting(b, new, k)'
      BY <1>2, <3>1, <3>3, <3>4, Zenon DEF Waiting, PushedIn
    <3> QED
      BY <1>7, <2>1, <3>5, Zenon DEF Waiting, PushedIn
  <2>2. CASE i \in 1..n
    <3> PICK c \in Buffers : c = queue[i]
      BY <1>7, <2>2, Queued
    <3> PICK end \in Nat : end = e[i]
      BY <1>7, <2>2
    <3>1. Waiting(c, end, k) /\ c.source \in Sources
      BY <1>7, <2>2 DEF QueueInv, Buffers
    <3>2. end <= captured'[c.source]
      <4>1. end <= captured[c.source] /\ captured[c.source] <= captured'[c.source]
        BY <1>5, <3>1, Zenon DEF Waiting
      <4>2. captured[c.source] \in Nat /\ captured'[c.source] \in Nat
        BY <1>4, <3>1 DEF QueueType
      <4> QED
        BY <4>1, <4>2
    <3>3. Waiting(c, end, k)'
      BY <1>2, <1>6, <3>1, <3>2, Zenon DEF Waiting, PushedIn
    <3>4. queue'[i] = c /\ Append(e, new)[i] = end
      BY <1>7, <2>2
    <3> QED
      BY <3>3, <3>4, Zenon DEF Waiting, PushedIn
  <2>3. i = n + 1 \/ i \in 1..n
    BY <1>7
  <2> QED
    BY <2>1, <2>2, <2>3, Zenon
<1>10. ASSUME NEW i \in 1..(n + 1), NEW j \in 1..(n + 1), i < j, queue'[i].source = queue'[j].source
       PROVE  Append(e, new)[i] + queue'[j].length <= Append(e, new)[j]
  <2>1. i \in 1..n
    BY <1>10
  <2>2. CASE j = n + 1
    <3>1. queue'[j].source = s /\ queue'[j].length = length /\ Append(e, new)[j] = new
      BY <1>7, <2>2
    <3>2. queue[i].source = s
      BY <1>7, <1>10, <2>1, <3>1
    <3>3. Waiting(queue[i], e[i], k)
      BY <1>7, <2>1 DEF QueueInv
    <3>4. e[i] <= old /\ e[i] \in Nat /\ Append(e, new)[i] = e[i]
      BY <1>7, <2>1, <3>2, <3>3 DEF Waiting
    <3>5. e[i] + length <= new
      <4> PICK x \in Nat : x = e[i]
        BY <3>4
      <4>1. x <= old /\ length \in Nat
        BY <1>1, <3>4
      <4> QED
        BY <1>3, <4>1, SMTT(30)
    <3> QED
      BY <3>1, <3>4, <3>5, Zenon
  <2>3. CASE j \in 1..n
    <3>1. /\ queue'[i] = queue[i] /\ queue'[j] = queue[j]
          /\ Append(e, new)[i] = e[i] /\ Append(e, new)[j] = e[j]
      BY <1>7, <2>1, <2>3
    <3> QED
      BY <1>7, <1>10, <2>1, <2>3, <3>1, Zenon DEF QueueInv
  <2>4. j = n + 1 \/ j \in 1..n
    BY <1>7
  <2> QED
    BY <2>2, <2>3, <2>4, Zenon
<1>11. ASSUME NEW t \in Sources PROVE Mixed(t)' <= captured'[t]
  <2>1. Mixed(t) <= captured[t] /\ captured[t] <= captured'[t] /\ Mixed(t) \in Int
    BY <1>5, MixedIsInt DEF QueueInv
  <2>2. captured[t] \in Nat /\ captured'[t] \in Nat
    BY <1>4 DEF QueueType
  <2> QED
    BY <1>6, <2>1, <2>2
<1>12. QueueInv(k, Append(e, new))'
  BY <1>7, <1>9, <1>10, <1>11, Zenon DEF QueueInv
<1> QED
  BY <1>4, <1>12

LEMMA SkipQueue ==
  ASSUME QueueType, NEW k \in Nat, NEW e, QueueInv(k, e), JobSkip
  PROVE  QueueType' /\ QueueInv(k, Tail(e))'
<1>1. queue # <<>> /\ queue' = Tail(queue) /\ UNCHANGED <<now, captured, job, lastSampleTime>>
  BY Zenon DEF JobSkip, sourceVars
<1>2. \A s : Mixed(s)' = Mixed(s)
  BY <1>1, Zenon DEF Mixed, Working
<1>3. queue' \in Seq(Buffers)
  BY <1>1 DEF QueueType
<1>4. QueueType'
  BY <1>1, <1>3, Zenon DEF QueueType, Working
<1>5. \A s \in Sources : Mixed(s)' \in Int
  BY <1>2, MixedIsInt
<1> QED
  BY <1>1, <1>2, <1>4, <1>5, TailQueue

\* The first buffer becomes the job.
LEMMA StartQueue ==
  ASSUME QueueType, NEW k \in Nat, Clock(k), NEW e, QueueInv(k, e), JobStart
  PROVE  /\ QueueType' /\ QueueInv(k, Tail(e))' /\ JobInv'
         /\ Working' /\ lastSampleTime[job'.source] <= job'.time
<1>1. ~Working /\ queue # <<>> /\ queue' = Tail(queue) /\ UNCHANGED <<now, captured, lastSampleTime>>
  BY Zenon DEF JobStart, sourceVars, Working
<1>2. 1 \in DOMAIN queue /\ Head(queue) = queue[1] /\ e[1] \in Nat
  BY <1>1 DEF QueueType, QueueInv
<1> PICK b \in Buffers : b = queue[1]
  BY <1>2, Queued
<1> PICK end \in Nat : end = e[1]
  BY <1>2
<1>3. Waiting(b, end, k)
  BY <1>2, Zenon DEF QueueInv
<1>4. PICK f \in Nat : f <= k /\ PushedIn(b, f)
  BY <1>3, Zenon DEF Waiting
<1>5. b.window = Ring(f) /\ start[Ring(f)] = At(f) /\ At(f) \in Nat /\ At(f) <= b.time
  <2>1. b.window = Ring(f) /\ At(f) <= b.time
    BY <1>4, Zenon DEF PushedIn
  <2>2. now <= b.time + JobDelay
    BY <1>3, Zenon DEF Waiting
  <2> QED
    BY <1>4, <2>1, <2>2, BufferStart, AtIsNat
<1>6. /\ b.source \in Sources /\ b.time \in Nat /\ b.length \in Nat /\ b.length > 0
      /\ lastSampleTime[b.source] \in Int
  BY DEF Buffers, QueueType
<1> PICK t \in Int : /\ t = MixTime(b) /\ b.time < t + Tolerance /\ lastSampleTime[b.source] <= t
                     /\ (t = b.time \/ t = lastSampleTime[b.source])
  BY MixTimeIs
<1> PICK n \in Nat : n = StartOffset(b) /\ (n = t - At(f) \/ (n = 0 /\ t <= At(f)))
  BY <1>5 DEF StartOffset, Later
<1>0. f \in Int
  OBVIOUS
<1> PICK g \in Int : /\ f <= g /\ WindowAt(Ring(f), n) = Ring(g)
                     /\ OffsetAt(n) \in 0..(Frame - 1) /\ At(g) + OffsetAt(n) = At(f) + n
  BY <1>0, Onward, Zenon
<1> PICK o \in 0..(Frame - 1) : o = OffsetAt(n)
  OBVIOUS
<1>7. job' = [source |-> b.source, pushed |-> b.time, time |-> t, window |-> Ring(g), offset |-> o,
              left |-> b.length]
  BY <1>2, <1>5, Zenon DEF JobStart
<1>8. job' \in Jobs /\ Working'
  <2>1. job' \in Jobs
    BY <1>6, <1>7, RingIn DEF Jobs
  <2>2. job'.left = b.length /\ NoJob.left = 0 /\ NoJob' = NoJob
    BY <1>7 DEF NoJob
  <2> QED
    BY <1>6, <2>1, <2>2 DEF Working
<1>9. /\ job'.source = b.source /\ job'.pushed = b.time /\ job'.time = t /\ job'.window = Ring(g)
      /\ job'.offset = o /\ job'.left = b.length
  BY <1>7
<1>10. t + b.length <= end
  <2>1. lastSampleTime[b.source] + b.length <= end /\ b.time + b.length <= end
    BY <1>1, <1>3, Zenon DEF Waiting, Mixed
  <2> QED
    BY <1>6, <2>1
<1>11. QueueType'
  <2>1. queue' \in Seq(Buffers)
    BY <1>1 DEF QueueType
  <2> QED
    BY <1>1, <1>8, <2>1, Zenon DEF QueueType
<1>12. QueueInv(k, Tail(e))'
  <2>2. \A s : s # b.source => Mixed(s)' = Mixed(s)
    BY <1>1, <1>8, <1>9, Zenon DEF Mixed
  <2>3. Mixed(b.source)' = t + b.length
    BY <1>8, <1>9, Zenon DEF Mixed
  <2>1. \A s \in Sources : Mixed(s)' \in Int
    <3>1. t + b.length \in Int /\ \A s \in Sources : Mixed(s) \in Int
      BY <1>6, MixedIsInt
    <3> QED
      BY <2>2, <2>3, <3>1, Zenon
  <2>4. \A s : Mixed(s)' = Mixed(s) \/ (s = queue[1].source /\ Mixed(s)' <= e[1])
    BY <1>10, <2>2, <2>3, Zenon
  <2> QED
    BY <1>1, <2>1, <2>4, TailQueue
<1>13. JobAt(g)'
  <2>1. b.time <= now /\ now <= b.time + JobDelay /\ end <= b.time + Lead /\ b.time + b.length <= end
    BY <1>3, Zenon DEF Waiting
  <2>2. At(g) \in Int
    BY AtAhead
  <2>3. t <= At(g) + o /\ At(g) + o < t + Tolerance
    BY <1>5, <1>6, Positive
  <2>4. At(g) + o + b.length <= b.time + Lead
    BY <1>5, <1>6, <1>10, <2>1, <2>2, Positive
  <2> QED
    BY <1>1, <1>9, <2>1, <2>3, <2>4, Zenon DEF JobAt
<1>14. JobInv'
  BY <1>13, g \in Nat DEF JobInv
<1> QED
  BY <1>8, <1>9, <1>11, <1>12, <1>14, Zenon

LEMMA ToCopyIs ==
  ASSUME QueueType, Working
  PROVE  /\ ToCopy \in Nat /\ ToCopy >= 1 /\ ToCopy <= job.left /\ job.offset + ToCopy <= Frame
         /\ job.left > ToCopy => job.offset + ToCopy = Frame
BY Positive DEF QueueType, Jobs, ToCopy

LEMMA CopyQueue ==
  ASSUME QueueType, NEW k \in Nat, NEW e, QueueInv(k, e), JobInv, JobCopy
  PROVE  /\ QueueType' /\ QueueInv(k, e)' /\ JobInv'
         /\ Working' => /\ job'.source = job.source /\ job'.time = job.time + ToCopy
                        /\ UNCHANGED lastSampleTime
         /\ ~Working' => lastSampleTime' = [lastSampleTime EXCEPT ![job.source] = job.time + ToCopy]
<1>1. Working /\ UNCHANGED <<queue, now, captured>>
  BY Zenon DEF JobCopy, Working, sourceVars
<1>2. PICK g \in Nat : JobAt(g)
  BY <1>1, Zenon DEF JobInv
<1>3. /\ job \in Jobs /\ job.source \in Sources /\ job.time \in Int /\ job.left \in Nat /\ job.pushed \in Nat
      /\ job.offset \in 0..(Frame - 1) /\ job.window = Ring(g) /\ lastSampleTime \in [Sources -> Int]
  BY <1>1, <1>2 DEF QueueType, Jobs, JobAt
<1> PICK c \in Nat : c = ToCopy
  BY <1>1, ToCopyIs
<1>4. c >= 1 /\ c <= job.left /\ (job.left > c => job.offset + c = Frame)
  BY <1>1, ToCopyIs
<1>5. CASE job.left > c
  <2>1. job' = [job EXCEPT !.window = NextOf(@), !.offset = 0, !.time = @ + c, !.left = @ - c]
        /\ UNCHANGED lastSampleTime
    BY <1>5, Zenon DEF JobCopy
  <2>2. /\ job' = [source |-> job.source, pushed |-> job.pushed, time |-> job.time + c,
                   window |-> Ring(g + 1), offset |-> 0, left |-> job.left - c]
    <3>1. NextOf(job.window) = Ring(g + 1)
      BY <1>3, RingNext
    <3> QED
      BY <1>3, <2>1, <3>1 DEF Jobs
  <2>3. job' \in Jobs /\ Working' /\ job.left - c \in Nat \ {0}
    <3>1. job.left - c \in Nat \ {0} /\ Ring(g + 1) \in Window /\ 0 \in 0..(Frame - 1) /\ job.time + c \in Int
      BY <1>3, <1>5, RingIn, Positive
    <3>2. job' \in Jobs
      BY <1>3, <2>2, <3>1 DEF Jobs
    <3>3. job'.left = job.left - c /\ NoJob.left = 0 /\ NoJob' = NoJob
      BY <2>2 DEF NoJob
    <3> QED
      BY <3>1, <3>2, <3>3 DEF Working
  <2>4. QueueType'
    BY <1>1, <2>1, <2>3, Zenon DEF QueueType
  <2>5. \A s \in Sources : Mixed(s)' = Mixed(s)
    <3>1. job'.time + job'.left = job.time + job.left /\ job'.source = job.source
      BY <1>3, <1>5, <2>2
    <3> QED
      BY <1>1, <2>1, <2>3, <3>1, Zenon DEF Mixed
  <2>6. QueueInv(k, e)'
    BY <1>1, <2>5, KeepsQueue
  <2>7. JobAt(g + 1)'
    <3>1. /\ job'.pushed = job.pushed /\ job'.time = job.time + c /\ job'.window = Ring(g + 1)
          /\ job'.offset = 0 /\ job'.left = job.left - c
      BY <2>2
    <3>2. /\ job.pushed <= now /\ now <= job.pushed + JobDelay /\ job.pushed < job.time + Tolerance
          /\ job.time <= At(g) + job.offset /\ At(g) + job.offset < job.time + Tolerance
          /\ At(g) + job.offset + job.left <= job.pushed + Lead
      BY <1>2, Zenon DEF JobAt
    <3>3. At(g + 1) + 0 = At(g) + job.offset + c /\ At(g) \in Int
      <4>1. At(g) \in Int /\ At(g + 1) = At(g) + Frame
        BY AtNext, AtAhead
      <4>2. job.offset \in Int /\ job.offset + c = Frame
        BY <1>3, <1>4, <1>5
      <4> QED
        BY <4>1, <4>2, Positive
    <3>4. /\ job.pushed < (job.time + c) + Tolerance
          /\ job.time + c <= At(g + 1) + 0 /\ At(g + 1) + 0 < (job.time + c) + Tolerance
          /\ At(g + 1) + 0 + (job.left - c) <= job.pushed + Lead
      BY <1>3, <3>2, <3>3, Positive
    <3> QED
      BY <1>1, <3>1, <3>2, <3>4, Zenon DEF JobAt
  <2>8. JobInv'
    BY <2>7 DEF JobInv
  <2>9. job'.source = job.source /\ job'.time = job.time + c
    BY <2>2
  <2> QED
    BY <2>1, <2>3, <2>4, <2>6, <2>8, <2>9, Zenon
<1>6. CASE ~(job.left > c)
  <2>1. job' = NoJob /\ lastSampleTime' = [lastSampleTime EXCEPT ![job.source] = job.time + c]
    BY <1>6, Zenon DEF JobCopy
  <2>2. ~Working' /\ c = job.left
    BY <1>3, <1>4, <1>6, <2>1 DEF Working, NoJob
  <2>3. lastSampleTime' \in [Sources -> Int]
    BY <1>3, <2>1
  <2>4. QueueType' /\ JobInv'
    BY <1>1, <2>2, <2>3, Zenon DEF QueueType, JobInv
  <2>5. \A s \in Sources : Mixed(s)' = Mixed(s)
    BY <1>1, <1>3, <2>1, <2>2 DEF Mixed
  <2>6. QueueInv(k, e)'
    BY <1>1, <2>5, KeepsQueue
  <2> QED
    BY <2>1, <2>2, <2>4, <2>6, Zenon
<1> QED
  BY <1>5, <1>6

-----------------------------------------------------------------------------
(* The two sides together. *)

Schedule(k) == Clock(k) /\ QueueType /\ (\E e : QueueInv(k, e)) /\ JobInv

LEMMA InitSchedule == Init => Schedule(0)
BY InitClock, InitQueue, Zenon DEF Schedule

LEMMA OthersQueue ==
  ASSUME QueueType, NEW k \in Nat, NEW l \in Nat, k <= l, NEW e, QueueInv(k, e), JobInv,
         UNCHANGED <<now, jobVars, captured>>
  PROVE  QueueType' /\ QueueInv(l, e)' /\ JobInv'
<1>1. \A s : Mixed(s)' = Mixed(s)
  BY Zenon DEF Mixed, Working, jobVars
<1>2. QueueInv(l, e)'
  BY <1>1, KeepsQueue DEF jobVars
<1> QED
  BY <1>2, Zenon DEF QueueType, JobInv, JobAt, Working, jobVars

LEMMA TickJob ==
  ASSUME QueueType, NEW k \in Nat, Clock(k), JobInv, Tick
  PROVE  QueueType' /\ JobInv'
<1>1. now' = now + 1 /\ now \in Nat /\ (Working => now + 1 <= job.pushed + JobDelay)
  BY DEF Tick, InTime, Clock, Working
<1>2. UNCHANGED <<job, queue, lastSampleTime, captured>>
  BY Zenon DEF Tick, jobVars, sourceVars
<1>3. ASSUME NEW g \in Nat, Working, JobAt(g) PROVE JobAt(g)'
  <2>1. job.pushed \in Nat
    BY <1>3 DEF QueueType, Jobs
  <2>2. job.pushed <= now' /\ now' <= job.pushed + JobDelay
    BY <1>1, <1>3, <2>1 DEF JobAt
  <2> QED
    BY <1>2, <1>3, <2>2, Zenon DEF JobAt
<1> QED
  BY <1>2, <1>3, Zenon DEF QueueType, JobInv, Working

LEMMA StepSchedule ==
  ASSUME NEW k \in Nat, Schedule(k), [Next]_vars
  PROVE  \/ Schedule(k)'
         \/ MixSwitch /\ Schedule(k + 1)'
<1> PICK e : QueueInv(k, e)
  BY DEF Schedule
<1>1. Clock(k) /\ QueueType /\ JobInv
  BY DEF Schedule
<1>2. ASSUME NEW d, UNCHANGED <<now, mixVars>>, QueueType', QueueInv(k, d)', JobInv' PROVE Schedule(k)'
  BY <1>1, <1>2, OtherClock, Zenon DEF Schedule
<1>3. CASE Tick
  BY <1>1, <1>3, TickClock, TickQueue, TickJob, Zenon DEF Schedule
<1>4. ASSUME NEW s \in Sources, NEW length \in Lengths, Push(s, length) PROVE Schedule(k)'
  <2>1. UNCHANGED <<now, mixVars, job>>
    BY <1>4, Zenon DEF Push
  <2>2. JobInv'
    BY <1>1, <2>1, Zenon DEF JobInv, JobAt, Working
  <2> QED
    BY <1>1, <1>2, <1>4, <2>1, <2>2, PushQueue
<1>5. ASSUME UNCHANGED <<now, mixVars, jobVars, captured>> PROVE Schedule(k)'
  BY <1>1, <1>2, <1>5, k <= k, OthersQueue
<1>6. ASSUME NEW s \in Sources, Release(s) PROVE Schedule(k)'
  BY <1>5, <1>6, Zenon DEF Release
<1>7. CASE SetOutput
  BY <1>5, <1>7, Zenon DEF SetOutput, sourceVars
<1>8. CASE JobSkip
  <2>1. UNCHANGED <<now, mixVars, job>>
    BY <1>8, Zenon DEF JobSkip
  <2>2. JobInv'
    BY <1>1, <2>1, Zenon DEF JobInv, JobAt, Working
  <2> QED
    BY <1>1, <1>2, <1>8, <2>1, <2>2, SkipQueue, Zenon
<1>9. CASE JobStart
  <2>1. UNCHANGED <<now, mixVars>>
    BY <1>9, Zenon DEF JobStart
  <2> QED
    BY <1>1, <1>2, <1>9, <2>1, StartQueue, Zenon
<1>10. CASE JobCopy
  <2>1. UNCHANGED <<now, mixVars>>
    BY <1>10, Zenon DEF JobCopy
  <2> QED
    BY <1>1, <1>2, <1>10, <2>1, CopyQueue, Zenon
<1>11. CASE MixBegin \/ MixOutput \/ MixClear
  <2>1. UNCHANGED <<now, jobVars, captured>>
    BY <1>11, Zenon DEF MixBegin, MixOutput, MixClear, sourceVars
  <2>2. Clock(k)'
    BY <1>1, <1>11, BeginClock, PassClock
  <2>3. QueueType' /\ QueueInv(k, e)' /\ JobInv'
    BY <1>1, <2>1, k <= k, OthersQueue
  <2> QED
    BY <2>2, <2>3, Zenon DEF Schedule
<1>12. CASE MixSwitch
  <2>1. UNCHANGED <<now, jobVars, captured>>
    BY <1>12, Zenon DEF MixSwitch, sourceVars
  <2>2. QueueType' /\ QueueInv(k + 1, e)' /\ JobInv'
    BY <1>1, <2>1, k <= k + 1, k + 1 \in Nat, OthersQueue
  <2> QED
    BY <1>1, <1>12, <2>2, SwitchClock, Zenon DEF Schedule
<1>13. CASE UNCHANGED vars
  BY <1>5, <1>13, Zenon DEF vars, sourceVars
<1> QED
  BY <1>3, <1>4, <1>6, <1>7, <1>8, <1>9, <1>10, <1>11, <1>12, <1>13, Zenon
     DEF Next, Callers, MixQueue, MixThread

ScheduleInv == \E k \in Nat : Schedule(k)

LEMMA Scheduled == Spec => []ScheduleInv
<1>1. Init => ScheduleInv
  BY InitSchedule, 0 \in Nat, Zenon DEF ScheduleInv
<1>2. ScheduleInv /\ [Next]_vars => ScheduleInv'
  <2> SUFFICES ASSUME ScheduleInv, [Next]_vars PROVE ScheduleInv'
    OBVIOUS
  <2>1. PICK k \in Nat : Schedule(k)
    BY DEF ScheduleInv
  <2>2. k + 1 \in Nat
    OBVIOUS
  <2> QED
    BY <2>1, <2>2, StepSchedule, Zenon DEF ScheduleInv
<1> QED
  BY <1>1, <1>2, PTL DEF Spec

\* The queue never mixes into the window that is passed on and cleared, nor
\* behind the end of one, as long as the delays are those assumed.
THEOREM QueueKeepsOut == Spec => []WindowsApart
<1>1. ScheduleInv => WindowsApart
  <2> SUFFICES ASSUME ScheduleInv, Working
               PROVE  job.offset < Frame /\ (mixPC \in {"output", "clear"} => job.window # outgoing)
    BY DEF WindowsApart, Working, GoesOut
  <2>1. PICK k \in Nat : Schedule(k)
    BY DEF ScheduleInv
  <2>2. PICK g \in Nat : JobAt(g)
    BY <2>1 DEF Schedule, JobInv
  <2>3. job.offset < Frame
    BY <2>1, Positive DEF Schedule, QueueType, Jobs
  <2>4. ASSUME mixPC \in {"output", "clear"} PROVE job.window # outgoing
    <3>1. k > 0 /\ outgoing = IF k = 0 THEN NoWindow ELSE Ring(k - 1)
      BY <2>1, <2>4, Zenon DEF Schedule, Clock
    <3>2. k <= g /\ g <= k + Windows - 2
      <4>1. mixPC # "wait"
        BY <2>4
      <4> QED
        BY <2>1, <2>2, <4>1, JobFrame DEF Schedule
    <3>3. Ring(k - 1) # Ring(g)
      BY <3>1, <3>2, Positive, RingApart
    <3> QED
      BY <2>2, <3>1, <3>3 DEF JobAt
  <2> QED
    BY <2>3, <2>4
<1> QED
  BY <1>1, Scheduled, PTL

\* A window goes out complete: nothing that waits or is being mixed belongs into
\* it, as long as the delays are those assumed.
THEOREM WindowsGoOutComplete == Spec => []NothingLate
<1>1. ScheduleInv => NothingLate
  <2> SUFFICES ASSUME ScheduleInv, mixPC \in {"output", "clear"}
               PROVE  /\ \A i \in DOMAIN queue : MixTime(queue[i]) >= start[current]
                      /\ Working => job.time >= start[current]
    BY DEF NothingLate, Working
  <2>1. PICK k \in Nat : Schedule(k)
    BY DEF ScheduleInv
  <2>2. Clock(k) /\ QueueType /\ JobInv
    BY <2>1 DEF Schedule
  <2>3. PICK a \in Nat : a = start[current] /\ a + Frame <= now /\ now \in Nat
    <3>1. mixPC # "wait"
      OBVIOUS
    <3>2. start[current] = At(k) /\ At(k + 1) <= now /\ now \in Nat
      BY <2>2, <3>1, KnownStarts, Zenon DEF Clock
    <3>3. At(k) \in Nat /\ At(k + 1) = At(k) + Frame
      BY AtIsNat, AtNext
    <3> QED
      BY <3>2, <3>3, Positive
  <2>4. ASSUME NEW i \in DOMAIN queue PROVE MixTime(queue[i]) >= start[current]
    <3> PICK b \in Buffers : b = queue[i]
      BY <2>2, Queued
    <3>1. b.time \in Nat /\ now <= b.time + JobDelay
      <4>1. \E end : Waiting(b, end, k)
        BY <2>1 DEF Schedule, QueueInv
      <4> QED
        BY <4>1 DEF Waiting, Buffers
    <3>2. MixTime(b) \in Int /\ b.time < MixTime(b) + Tolerance
      BY <2>2, MixTimeIs
    <3> QED
      BY <2>3, <3>1, <3>2, Timing, Positive
  <2>5. ASSUME Working PROVE job.time >= start[current]
    <3>1. job.pushed \in Nat /\ job.time \in Int
      BY <2>2, <2>5 DEF QueueType, Jobs
    <3>2. now <= job.pushed + JobDelay /\ job.pushed < job.time + Tolerance
      BY <2>2, <2>5, Zenon DEF JobInv, JobAt
    <3> QED
      BY <2>3, <3>1, <3>2, Timing, Positive
  <2> QED
    BY <2>4, <2>5
<1> QED
  BY <1>1, Scheduled, PTL

-----------------------------------------------------------------------------
(* The samples. *)

Samples == [source : Sources, time : Int]
Position == 0..(Frame - 1)

\* Sample x lies at position o of window w.
Lies(x, w, o) == w \in Window /\ o \in Position /\ x \in content[w][o]

\* Up to where a source has been mixed so far.
Done(s) == IF Working /\ job.source = s THEN job.time ELSE lastSampleTime[s]

Once ==
  \A x : \A w1, o1, w2, o2 : Lies(x, w1, o1) /\ Lies(x, w2, o2) => w1 = w2 /\ o1 = o2
Behind == \A x, w, o : Lies(x, w, o) => x.time < Done(x.source)
InPlace == \A x, w, o :
  Lies(x, w, o) /\ w \notin dirty => FrameStart(w) + o - x.time \in 0..(Tolerance - 1)

ContentInv ==
  /\ content \in [Window -> [Position -> SUBSET Samples]]
  /\ Once /\ Behind /\ InPlace

\* The window of a frame that is to go out, or the one that does.
LEMMA PlaceAhead ==
  ASSUME NEW k \in Nat, Clock(k), NEW g \in Int, k <= g, g < k + Windows, Ring(g) # outgoing \/ mixPC = "switch"
  PROVE  FrameStart(Ring(g)) = At(g)
<1>1. FrameStart(Ring(g)) = start[current] + Frame * ((Ring(g) - current) % Windows)
  BY Zenon DEF FrameStart
<1>2. start[current] = At(k) /\ current = Ring(k)
  BY KnownStarts DEF Clock
<1>3. (Ring(g) - Ring(k)) % Windows = g - k
  BY RingDistance
<1>4. At(k) + Frame * (g - k) = At(g)
  <2>1. Frame * (g - k) = Frame * g - Frame * k /\ Frame * g \in Int /\ Frame * k \in Int
    BY Distributes, Positive
  <2>2. g * Frame = Frame * g /\ k * Frame = Frame * k
    BY Positive
  <2> QED
    BY <2>1, <2>2 DEF At
<1> QED
  BY <1>1, <1>2, <1>3, <1>4

LEMMA PlaceOut ==
  ASSUME NEW k \in Nat, Clock(k), k > 0, mixPC # "switch"
  PROVE  outgoing = Ring(k - 1) /\ FrameStart(outgoing) = At(k - 1)
<1>1. outgoing = Ring(k - 1)
  BY DEF Clock
<1>2. FrameStart(outgoing) = start[current] - Frame
  BY Zenon DEF FrameStart
<1>3. start[current] = At(k) /\ At((k - 1) + 1) = At(k - 1) + Frame /\ (k - 1) + 1 = k /\ At(k - 1) \in Nat
  BY KnownStarts, AtNext, AtIsNat
<1> QED
  BY <1>1, <1>2, <1>3, Positive

\* The window that the job mixes into begins when its frame does.
LEMMA JobPlace ==
  ASSUME NEW k \in Nat, Clock(k), QueueType, Working, NEW g \in Nat, JobAt(g)
  PROVE  FrameStart(job.window) = At(g)
<1>1. k - 1 <= g /\ g <= k + Windows - 2 /\ (mixPC # "wait" => k <= g) /\ job.window = Ring(g)
  BY JobFrame DEF JobAt
<1>2. outgoing = IF k = 0 THEN NoWindow ELSE Ring(k - 1)
  BY DEF Clock
<1>3. CASE k <= g
  <2>1. Ring(g) # outgoing
    <3>1. CASE k = 0
      BY <1>2, <3>1, RingIn DEF NoWindow
    <3>2. CASE k # 0
      BY <1>1, <1>2, <1>3, <3>2, RingApart, Positive
    <3> QED
      BY <3>1, <3>2
  <2> QED
    BY <1>1, <1>3, <2>1, PlaceAhead, Positive
<1>4. CASE g = k - 1
  <2>1. mixPC # "switch" /\ k > 0
    BY <1>1, <1>4
  <2> QED
    BY <1>1, <1>4, <2>1, PlaceOut
<1> QED
  BY <1>1, <1>3, <1>4

\* Every window lies ahead of frame k, less than a ring away.
LEMMA RingCover ==
  ASSUME NEW k \in Int, NEW w \in Window
  PROVE  \E g \in Int : k <= g /\ g < k + Windows /\ w = Ring(g)
<1>1. Windows \in Nat /\ Windows > 0 /\ w \in 0..(Windows - 1)
  BY Positive DEF Window
<1> PICK q \in Int : q = (w - k) \div Windows
  BY <1>1, Division
<1> PICK r \in 0..(Windows - 1) : r = (w - k) % Windows
  BY <1>1, Division
<1>2. w - k = Windows * q + r
  BY <1>1, Division
<1>3. k + r = Windows * (0 - q) + w
  <2>1. Windows * (0 - q) = Windows * 0 - Windows * q /\ Windows * 0 = 0 /\ Windows * q \in Int
    BY <1>1, Distributes
  <2> QED
    BY <1>1, <1>2, <2>1
<1>4. Ring(k + r) = w
  <2>1. k + r \in Int /\ 0 - q \in Int
    BY <1>1
  <2> QED
    BY <1>1, <1>3, <2>1, RemainderIs, Zenon DEF Ring
<1> QED
  BY <1>1, <1>4

LEMMA InitContent == Init => ContentInv
<1> SUFFICES ASSUME Init PROVE ContentInv
  OBVIOUS
<1>1. content = [w \in Window |-> [o \in Position |-> {}]]
  BY DEF Init, Silence, Position
<1>2. content \in [Window -> [Position -> SUBSET Samples]]
  BY <1>1
<1>3. \A x, w, o : ~Lies(x, w, o)
  BY <1>1 DEF Lies
<1> QED
  BY <1>2, <1>3, Zenon DEF ContentInv, Once, Behind, InPlace

\* A step that mixes nothing, and leaves the windows in place.
LEMMA KeepsContent ==
  ASSUME ContentInv, UNCHANGED content,
         \A s \in Sources : Done(s) <= Done(s)' /\ Done(s) \in Int /\ Done(s)' \in Int,
         \A w \in Window : w \notin dirty' => w \notin dirty /\ FrameStart(w)' = FrameStart(w)
  PROVE  ContentInv'
<1>1. \A x, w, o : Lies(x, w, o)' => Lies(x, w, o) /\ w \in Window
  BY Zenon DEF Lies
<1>2. \A x, w, o : Lies(x, w, o) => x \in Samples
  BY DEF Lies, ContentInv
<1>3. ASSUME NEW x, NEW w, NEW o, Lies(x, w, o)' PROVE x.time < Done(x.source)'
  <2>1. x \in Samples /\ x.time < Done(x.source)
    BY <1>1, <1>2, <1>3, Zenon DEF ContentInv, Behind
  <2>2. x.time \in Int /\ x.source \in Sources
    BY <2>1 DEF Samples
  <2>3. Done(x.source) <= Done(x.source)' /\ Done(x.source) \in Int /\ Done(x.source)' \in Int
    BY <2>2
  <2> QED
    BY <2>1, <2>2, <2>3
<1>4. Behind'
  BY <1>3, Zenon DEF Behind
<1>5. Once'
  <2>1. ASSUME NEW x, NEW w1, NEW o1, NEW w2, NEW o2, Lies(x, w1, o1)', Lies(x, w2, o2)'
        PROVE  w1 = w2 /\ o1 = o2
    <3>1. Lies(x, w1, o1) /\ Lies(x, w2, o2)
      BY <1>1, <2>1, Zenon
    <3> QED
      BY <3>1, Zenon DEF ContentInv, Once
  <2> QED
    BY <2>1, Zenon DEF Once
<1>6. InPlace'
  BY <1>1, Zenon DEF ContentInv, InPlace
<1> QED
  BY <1>4, <1>5, <1>6, Zenon DEF ContentInv

LEMMA DoneIsInt == QueueType => \A s \in Sources : Done(s) \in Int
BY DEF QueueType, Done, Jobs

\* A position after the job has mixed into its window.
LEMMA CopyLies ==
  ASSUME ContentInv, QueueType, Working, JobCopy, NEW x, NEW w, NEW o, Lies(x, w, o)'
  PROVE  \/ Lies(x, w, o)
         \/ /\ w = job.window /\ o \in job.offset..(job.offset + ToCopy - 1) /\ o \in Position
            /\ x = [source |-> job.source, time |-> job.time + o - job.offset]
<1>1. w \in Window /\ o \in Position /\ x \in content'[w][o]
  BY Zenon DEF Lies
<1>2. CASE w # job.window
  <2>1. content'[w] = content[w]
    BY <1>1, <1>2 DEF JobCopy, ContentInv
  <2> QED
    BY <1>1, <2>1, Zenon DEF Lies
<1>3. CASE w = job.window
  <2>1. content'[w] = [p \in Position |->
            IF p \in job.offset..(job.offset + ToCopy - 1)
            THEN content[w][p] \cup {[source |-> job.source, time |-> job.time + p - job.offset]}
            ELSE content[w][p]]
    BY <1>1, <1>3 DEF JobCopy, ContentInv
  <2>2. content'[w][o] = IF o \in job.offset..(job.offset + ToCopy - 1)
            THEN content[w][o] \cup {[source |-> job.source, time |-> job.time + o - job.offset]}
            ELSE content[w][o]
    BY <1>1, <2>1, Zenon
  <2> QED
    BY <1>1, <1>3, <2>2, Zenon DEF Lies
<1> QED
  BY <1>2, <1>3, Zenon

LEMMA CopyType ==
  ASSUME ContentInv, QueueType, Working, JobCopy
  PROVE  content' \in [Window -> [Position -> SUBSET Samples]]
<1>1. /\ job.source \in Sources /\ job.time \in Int /\ job.window \in Window /\ job.offset \in Int
      /\ content \in [Window -> [Position -> SUBSET Samples]]
  BY DEF QueueType, Jobs, ContentInv
<1>2. \A p \in Position : [source |-> job.source, time |-> job.time + p - job.offset] \in Samples
  BY <1>1, Positive DEF Position, Samples
<1> DEFINE filled == [p \in Position |->
             IF p \in job.offset..(job.offset + ToCopy - 1)
             THEN content[job.window][p] \cup {[source |-> job.source, time |-> job.time + p - job.offset]}
             ELSE content[job.window][p]]
<1>3. content' = [content EXCEPT ![job.window] = filled]
  BY <1>1 DEF JobCopy
<1>4. \A p \in Position : content[job.window][p] \in SUBSET Samples
  BY <1>1
<1>5. filled \in [Position -> SUBSET Samples]
  BY <1>2, <1>4
<1> HIDE DEF filled
<1> QED
  BY <1>1, <1>3, <1>5

LEMMA CopyContent ==
  ASSUME NEW k \in Nat, Clock(k), QueueType, JobInv, ContentInv, NEW e, QueueInv(k, e), JobCopy
  PROVE  ContentInv'
<1>1. Working /\ UNCHANGED <<now, mixVars>>
  BY Zenon DEF JobCopy, Working
<1>2. PICK g \in Nat : JobAt(g)
  BY <1>1, Zenon DEF JobInv
<1>3. /\ job.source \in Sources /\ job.time \in Int /\ job.offset \in 0..(Frame - 1) /\ job.window \in Window
      /\ job.left \in Nat
  BY <1>1 DEF QueueType, Jobs
<1> PICK src \in Sources : src = job.source
  BY <1>3
<1> PICK c \in Nat : c = ToCopy /\ c >= 1
  BY <1>1, ToCopyIs
<1> DEFINE Fresh(x, o) == /\ o \in job.offset..(job.offset + c - 1) /\ o \in Position
                          /\ x = [source |-> job.source, time |-> job.time + o - job.offset]
<1>4. \A x, w, o : Lies(x, w, o)' => Lies(x, w, o) \/ (w = job.window /\ Fresh(x, o))
  <2> TAKE x, w, o
  <2> SUFFICES ASSUME Lies(x, w, o)' PROVE Lies(x, w, o) \/ (w = job.window /\ Fresh(x, o))
    OBVIOUS
  <2> QED
    BY <1>1, CopyLies
<1>5. \A x, o : Fresh(x, o) => /\ x.source = src /\ x.time = job.time + o - job.offset /\ o \in Int
                               /\ job.time <= x.time /\ x.time < job.time + c /\ x.time \in Int
  BY <1>3
<1> HIDE DEF Fresh
<1>6. QueueType' /\ lastSampleTime \in [Sources -> Int]
  BY <1>1, CopyQueue, Zenon DEF QueueType
<1>7. Done(src) = job.time /\ Done(src)' = job.time + c
  <2>1. Done(src) = job.time
    BY <1>1, Zenon DEF Done
  <2>2. CASE Working'
    <3>1. job'.source = src /\ job'.time = job.time + c
      BY <1>1, <2>2, CopyQueue, Zenon
    <3> QED
      BY <2>1, <2>2, <3>1, Zenon DEF Done
  <2>3. CASE ~Working'
    <3>1. lastSampleTime' = [lastSampleTime EXCEPT ![src] = job.time + c]
      BY <2>3, CopyQueue, Zenon
    <3>2. lastSampleTime'[src] = job.time + c
      BY <1>6, <3>1
    <3> QED
      BY <2>1, <2>3, <3>2, Zenon DEF Done
  <2> QED
    BY <2>2, <2>3
<1>8. ASSUME NEW s \in Sources, s # src PROVE Done(s)' = Done(s)
  <2>1. CASE Working'
    <3>1. job'.source = src /\ UNCHANGED lastSampleTime
      BY <1>1, <2>1, CopyQueue, Zenon
    <3> QED
      BY <1>8, <2>1, <3>1, Zenon DEF Done
  <2>2. CASE ~Working'
    <3>1. lastSampleTime' = [lastSampleTime EXCEPT ![src] = job.time + c]
      BY <2>2, CopyQueue, Zenon
    <3>2. lastSampleTime'[s] = lastSampleTime[s]
      BY <1>6, <1>8, <3>1
    <3> QED
      BY <1>8, <2>2, <3>2, Zenon DEF Done
  <2> QED
    BY <2>1, <2>2
<1>9. \A x, w, o : Lies(x, w, o) => x \in Samples /\ x.time < Done(x.source)
  <2>1. \A x, w, o : Lies(x, w, o) => x \in Samples
    BY DEF Lies, ContentInv
  <2> QED
    BY <2>1, Zenon DEF ContentInv, Behind
\* What lay there before and what is new never meet.
<1>10. ASSUME NEW x, NEW w, NEW o, Lies(x, w, o), NEW p, Fresh(x, p) PROVE FALSE
  <2>1. x.time < job.time /\ job.time <= x.time /\ x.time \in Int
    BY <1>5, <1>7, <1>9, <1>10, Zenon
  <2> QED
    BY <1>3, <2>1
<1>11. Once'
  <2>1. ASSUME NEW x, NEW w1, NEW o1, NEW w2, NEW o2, Lies(x, w1, o1)', Lies(x, w2, o2)'
        PROVE  w1 = w2 /\ o1 = o2
    <3>1. CASE Lies(x, w1, o1) /\ Lies(x, w2, o2)
      BY <3>1, Zenon DEF ContentInv, Once
    <3>2. CASE w1 = job.window /\ Fresh(x, o1) /\ w2 = job.window /\ Fresh(x, o2)
      <4>1. /\ x.time = job.time + o1 - job.offset /\ o1 \in Int
            /\ x.time = job.time + o2 - job.offset /\ o2 \in Int
        BY <1>5, <3>2, Zenon
      <4> QED
        BY <1>3, <3>2, <4>1
    <3>3. Lies(x, w1, o1) \/ (w1 = job.window /\ Fresh(x, o1))
      BY <1>4, <2>1, Zenon
    <3>4. Lies(x, w2, o2) \/ (w2 = job.window /\ Fresh(x, o2))
      BY <1>4, <2>1, Zenon
    <3> QED
      BY <1>10, <3>1, <3>2, <3>3, <3>4, Zenon
  <2> QED
    BY <2>1, Zenon DEF Once
<1>12. Behind'
  <2>1. ASSUME NEW x, NEW w, NEW o, Lies(x, w, o)' PROVE x.time < Done(x.source)'
    <3>1. CASE Lies(x, w, o)
      <4>1. x \in Samples /\ x.time < Done(x.source)
        BY <1>9, <3>1, Zenon
      <4>2. x.time \in Int /\ x.source \in Sources
        BY <4>1 DEF Samples
      <4>3. CASE x.source = src
        <5>1. x.time < job.time /\ Done(x.source)' = job.time + c
          BY <1>7, <4>1, <4>3, Zenon
        <5> QED
          BY <1>3, <4>2, <5>1
      <4>4. CASE x.source # src
        BY <1>8, <4>1, <4>2, <4>4, Zenon
      <4> QED
        BY <4>3, <4>4
    <3>2. CASE Fresh(x, o)
      <4>1. x.source = src /\ x.time < job.time + c
        BY <1>5, <3>2, Zenon
      <4> QED
        BY <1>7, <4>1, Zenon
    <3> QED
      BY <1>4, <2>1, <3>1, <3>2, Zenon
  <2> QED
    BY <2>1, Zenon DEF Behind
<1>13. InPlace'
  <2>1. \A w : FrameStart(w)' = FrameStart(w)
    BY <1>1, Zenon DEF FrameStart, mixVars
  <2>2. dirty' = dirty
    BY <1>1, Zenon DEF mixVars
  <2>3. ASSUME NEW x, NEW w, NEW o, Lies(x, w, o)', w \notin dirty'
        PROVE  FrameStart(w)' + o - x.time \in 0..(Tolerance - 1)
    <3>1. CASE Lies(x, w, o)
      BY <2>1, <2>2, <2>3, <3>1, Zenon DEF ContentInv, InPlace
    <3>2. CASE w = job.window /\ Fresh(x, o)
      <4>1. FrameStart(w)' = At(g)
        BY <1>1, <1>2, <2>1, <3>2, JobPlace
      <4>2. x.time = job.time + o - job.offset /\ o \in Int
        BY <1>5, <3>2, Zenon
      <4>3. job.time <= At(g) + job.offset /\ At(g) + job.offset < job.time + Tolerance /\ At(g) \in Nat
        BY <1>2, AtIsNat DEF JobAt
      <4>4. At(g) + o - x.time \in 0..(Tolerance - 1)
        BY <1>3, <4>2, <4>3, Positive
      <4> QED
        BY <4>1, <4>4, Zenon
    <3>3. Lies(x, w, o) \/ (w = job.window /\ Fresh(x, o))
      BY <1>4, <2>3, Zenon
    <3> QED
      BY <3>1, <3>2, <3>3, Zenon
  <2> QED
    BY <2>3, Zenon DEF InPlace
<1> QED
  BY <1>1, <1>11, <1>12, <1>13, CopyType, Zenon DEF ContentInv

LEMMA StartContent ==
  ASSUME NEW k \in Nat, Clock(k), QueueType, ContentInv, NEW e, QueueInv(k, e), JobStart
  PROVE  ContentInv'
<1>1. ~Working /\ UNCHANGED <<content, mixVars, lastSampleTime>>
  BY Zenon DEF JobStart, Working
<1>2. PICK s \in Sources : s = job'.source
  BY StartQueue DEF QueueType, Jobs
<1>3. Working' /\ job'.time \in Int /\ lastSampleTime[s] <= job'.time /\ lastSampleTime \in [Sources -> Int]
  BY <1>2, StartQueue DEF QueueType, Jobs
<1>4. \A t \in Sources : Done(t) <= Done(t)' /\ Done(t) \in Int /\ Done(t)' \in Int
  <2> TAKE t \in Sources
  <2>1. Done(t) = lastSampleTime[t] /\ lastSampleTime[t] \in Int
    BY <1>1, <1>3 DEF Done
  <2>2. CASE t = s
    <3>1. Done(t)' = job'.time
      BY <1>2, <1>3, <2>2, Zenon DEF Done
    <3> QED
      BY <1>3, <2>1, <2>2, <3>1
  <2>3. CASE t # s
    <3>1. Done(t)' = lastSampleTime[t]
      BY <1>1, <1>2, <2>3, Zenon DEF Done
    <3> QED
      BY <2>1, <3>1
  <2> QED
    BY <2>2, <2>3
<1>5. \A w : FrameStart(w)' = FrameStart(w)
  BY <1>1, Zenon DEF FrameStart, mixVars
<1>6. dirty' = dirty
  BY <1>1, Zenon DEF mixVars
<1> QED
  BY <1>1, <1>4, <1>5, <1>6, KeepsContent, Zenon

\* A step that mixes nothing and leaves the windows where they are.
LEMMA SamePlaces ==
  ASSUME QueueType, ContentInv, UNCHANGED <<content, job, lastSampleTime>>,
         \A w \in Window : w \notin dirty' => w \notin dirty /\ FrameStart(w)' = FrameStart(w)
  PROVE  ContentInv'
<1>1. \A s : Done(s)' = Done(s)
  BY Zenon DEF Done, Working
<1>2. \A s \in Sources : Done(s) <= Done(s)' /\ Done(s) \in Int /\ Done(s)' \in Int
  BY <1>1, DoneIsInt
<1> QED
  BY <1>2, KeepsContent, Zenon

LEMMA BeginContent ==
  ASSUME NEW k \in Nat, Clock(k), QueueType, ContentInv, MixBegin
  PROVE  ContentInv'
<1>1. /\ mixPC = "wait" /\ UNCHANGED <<content, job, lastSampleTime, current, outgoing>>
      /\ \/ mixPC' = "output" /\ dirty' = dirty
         \/ mixPC' = "switch" /\ dirty' = dirty \cup ({outgoing} \ {NoWindow})
  BY Zenon DEF MixBegin, jobVars, GoesOut
<1>2. start'[current] = start[current]
  <2>1. Known(k)' = k + 2 /\ Clock(k)'
    BY <1>1, BeginClock DEF Known
  <2>2. k <= k + 2 /\ k + 2 < k + Windows
    BY Positive
  <2>3. start'[Ring(k)] = At(k)
    BY <2>1, <2>2, Zenon DEF Clock
  <2>4. start[current] = At(k) /\ current = Ring(k)
    BY KnownStarts DEF Clock
  <2> QED
    BY <2>3, <2>4
<1>3. ASSUME NEW w \in Window, w \notin dirty' PROVE w \notin dirty /\ FrameStart(w)' = FrameStart(w)
  <2>1. CASE mixPC' = "output" /\ dirty' = dirty
    BY <1>1, <1>2, <1>3, <2>1 DEF FrameStart
  <2>2. CASE mixPC' = "switch" /\ dirty' = dirty \cup ({outgoing} \ {NoWindow})
    <3>1. w # NoWindow
      BY DEF Window, NoWindow
    <3>2. w # outgoing /\ w \notin dirty
      BY <1>3, <2>2, <3>1
    <3> QED
      BY <1>1, <1>2, <3>2, Zenon DEF FrameStart
  <2> QED
    BY <1>1, <2>1, <2>2
<1> QED
  BY <1>1, <1>3, SamePlaces, Zenon

LEMMA OutputContent ==
  ASSUME QueueType, ContentInv, MixOutput
  PROVE  ContentInv'
<1>1. /\ mixPC = "output" /\ mixPC' = "clear"
      /\ UNCHANGED <<content, job, lastSampleTime, current, outgoing, start, dirty>>
  BY Zenon DEF MixOutput, jobVars
<1>2. \A w : FrameStart(w)' = FrameStart(w)
  BY <1>1 DEF FrameStart
<1> QED
  BY <1>1, <1>2, SamePlaces, Zenon

LEMMA ClearContent ==
  ASSUME QueueType, ContentInv, MixClear
  PROVE  ContentInv'
<1>1. /\ mixPC = "clear" /\ mixPC' = "switch" /\ content' = [content EXCEPT ![outgoing] = Silence]
      /\ dirty' = dirty \ {outgoing} /\ UNCHANGED <<job, lastSampleTime, current, outgoing, start>>
  BY Zenon DEF MixClear, jobVars, GoesOut, Cleared
<1>2. content \in [Window -> [Position -> SUBSET Samples]] /\ Silence = [o \in Position |-> {}]
  BY DEF ContentInv, Silence, Position
<1>3. content' \in [Window -> [Position -> SUBSET Samples]]
  BY <1>1, <1>2
<1>4. \A x, w, o : Lies(x, w, o)' => Lies(x, w, o) /\ w # outgoing
  BY <1>1, <1>2 DEF Lies
<1>5. \A s : Done(s)' = Done(s)
  BY <1>1, Zenon DEF Done, Working
<1>6. Behind'
  BY <1>4, <1>5, Zenon DEF ContentInv, Behind
<1>7. Once'
  <2>1. ASSUME NEW x, NEW w1, NEW o1, NEW w2, NEW o2, Lies(x, w1, o1)', Lies(x, w2, o2)'
        PROVE  w1 = w2 /\ o1 = o2
    <3>1. Lies(x, w1, o1) /\ Lies(x, w2, o2)
      BY <1>4, <2>1, Zenon
    <3> QED
      BY <3>1, Zenon DEF ContentInv, Once
  <2> QED
    BY <2>1, Zenon DEF Once
<1>8. InPlace'
  <2>1. ASSUME NEW x, NEW w, NEW o, Lies(x, w, o)', w \notin dirty'
        PROVE  FrameStart(w)' + o - x.time \in 0..(Tolerance - 1)
    <3>1. Lies(x, w, o) /\ w # outgoing
      BY <1>4, <2>1, Zenon
    <3>2. w \notin dirty
      BY <1>1, <2>1, <3>1
    <3>3. FrameStart(w)' = FrameStart(w)
      BY <1>1, <3>1, Zenon DEF FrameStart
    <3> QED
      BY <3>1, <3>2, <3>3, Zenon DEF ContentInv, InPlace
  <2> QED
    BY <2>1, Zenon DEF InPlace
<1> QED
  BY <1>3, <1>6, <1>7, <1>8, Zenon DEF ContentInv

LEMMA SwitchContent ==
  ASSUME NEW k \in Nat, Clock(k), QueueType, ContentInv, MixSwitch
  PROVE  ContentInv'
<1>1. /\ mixPC = "switch" /\ mixPC' = "wait" /\ outgoing' = current /\ current' = NextOf(current)
      /\ UNCHANGED <<content, job, lastSampleTime, start, dirty>>
  BY Zenon DEF MixSwitch, jobVars
<1>2. current = Ring(k) /\ NextOf(current) = Ring(k + 1) /\ start[Ring(k + 1)] = At(k + 1)
  <2>1. current = Ring(k)
    BY DEF Clock
  <2> QED
    BY <2>1, RingNext, KnownStarts
<1>3. ASSUME NEW w \in Window PROVE FrameStart(w)' = FrameStart(w)
  <2> PICK g \in Int : k <= g /\ g < k + Windows /\ w = Ring(g)
    BY RingCover
  <2>1. FrameStart(w) = At(g)
    BY <1>1, PlaceAhead
  <2>2. CASE g = k
    <3>1. FrameStart(w)' = At(k + 1) - Frame
      BY <1>1, <1>2, <2>2 DEF FrameStart
    <3>2. At(k + 1) = At(k) + Frame /\ At(k) \in Nat
      BY AtNext, AtIsNat
    <3> QED
      BY <2>1, <2>2, <3>1, <3>2, Positive
  <2>3. CASE k + 1 <= g
    <3>1. w # Ring(k)
      BY <2>3, RingApart
    <3>2. FrameStart(w)' = At(k + 1) + Frame * ((w - Ring(k + 1)) % Windows)
      BY <1>1, <1>2, <3>1, Zenon DEF FrameStart
    <3>3. (Ring(g) - Ring(k + 1)) % Windows = g - (k + 1)
      <4>1. k + 1 \in Int /\ g < (k + 1) + Windows
        BY Positive
      <4> QED
        BY <2>3, <4>1, RingDistance
    <3>4. At(k + 1) + Frame * (g - (k + 1)) = At(g)
      <4>1. Frame * (g - (k + 1)) = Frame * g - Frame * (k + 1) /\ Frame * g \in Int /\ Frame * (k + 1) \in Int
        BY Distributes, Positive
      <4>2. g * Frame = Frame * g /\ (k + 1) * Frame = Frame * (k + 1)
        BY Positive
      <4> QED
        BY <4>1, <4>2 DEF At
    <3> QED
      BY <2>1, <3>2, <3>3, <3>4, Zenon
  <2> QED
    BY <2>2, <2>3
<1> QED
  BY <1>1, <1>3, SamePlaces, Zenon

LEMMA StepContent ==
  ASSUME NEW k \in Nat, Schedule(k), ContentInv, [Next]_vars
  PROVE  ContentInv'
<1> PICK e : QueueInv(k, e)
  BY DEF Schedule
<1>1. Clock(k) /\ QueueType /\ JobInv
  BY DEF Schedule
<1>2. ASSUME UNCHANGED <<content, mixVars, job, lastSampleTime>> PROVE ContentInv'
  <2>1. \A w : FrameStart(w)' = FrameStart(w)
    BY <1>2, Zenon DEF FrameStart, mixVars
  <2>2. dirty' = dirty
    BY <1>2, Zenon DEF mixVars
  <2> QED
    BY <1>1, <1>2, <2>1, <2>2, SamePlaces, Zenon
<1>3. CASE Tick \/ SetOutput \/ JobSkip
  BY <1>2, <1>3, Zenon DEF Tick, SetOutput, JobSkip, jobVars
<1>4. ASSUME NEW s \in Sources, NEW length \in Lengths, Push(s, length) PROVE ContentInv'
  BY <1>2, <1>4, Zenon DEF Push
<1>5. ASSUME NEW s \in Sources, Release(s) PROVE ContentInv'
  BY <1>2, <1>5, Zenon DEF Release, jobVars
<1>6. CASE JobStart
  BY <1>1, <1>6, StartContent
<1>7. CASE JobCopy
  BY <1>1, <1>7, CopyContent
<1>8. CASE MixBegin
  BY <1>1, <1>8, BeginContent
<1>9. CASE MixOutput \/ MixClear
  BY <1>1, <1>9, OutputContent, ClearContent
<1>10. CASE MixSwitch
  BY <1>1, <1>10, SwitchContent
<1>11. CASE UNCHANGED vars
  BY <1>2, <1>11, Zenon DEF vars, jobVars
<1> QED
  BY <1>3, <1>4, <1>5, <1>6, <1>7, <1>8, <1>9, <1>10, <1>11, Zenon
     DEF Next, Callers, MixQueue, MixThread

\* Samples are mixed once, at most a tolerance behind their times, into the
\* window of those times, and a window goes out with the time at which it began,
\* for any jitter, sources, buffers and ring, as long as the delays are those
\* assumed.
THEOREM SamplesAreOnTime == Spec => []SamplesOnTime
<1>1. ScheduleInv /\ ContentInv => SamplesOnTime
  <2> SUFFICES ASSUME ScheduleInv, ContentInv PROVE SamplesOnTime
    OBVIOUS
  <2>1. PICK k \in Nat : Schedule(k)
    BY DEF ScheduleInv
  <2>2. \A w \in Window, o \in Position : \A x \in content[w][o] : Lies(x, w, o)
    BY Zenon DEF Lies
  <2>3. SamplesInPlace
    BY <2>2, Zenon DEF SamplesInPlace, Position, ContentInv, InPlace
  <2>4. EachMomentOnce
    <3>1. ASSUME NEW w1 \in Window, NEW w2 \in Window, NEW o1 \in Position, NEW o2 \in Position,
                 content[w1][o1] \cap content[w2][o2] # {}
          PROVE  w1 = w2 /\ o1 = o2
      <4>1. PICK x : x \in content[w1][o1] /\ x \in content[w2][o2]
        BY <3>1
      <4> QED
        BY <2>2, <4>1, ZenonT(60) DEF ContentInv, Once
    <3>2. ASSUME Working, NEW w \in Window, NEW o \in Position, NEW x \in content[w][o], x.source = job.source
          PROVE  x.time < job.time
      <4>1. x.time < Done(x.source)
        BY <2>2, Zenon DEF ContentInv, Behind
      <4> QED
        BY <3>2, <4>1, Zenon DEF Done
    <3> QED
      BY <3>1, <3>2 DEF EachMomentOnce, Position, Working
  <2>5. ASSUME mixPC = "output" PROVE stamp = start[current] - Frame
    <3>1. stamp = At(k - 1) /\ k > 0
      BY <2>1, <2>5 DEF Schedule, Clock
    <3>2. start[current] = At(k) /\ At((k - 1) + 1) = At(k - 1) + Frame /\ (k - 1) + 1 = k /\ At(k - 1) \in Nat
      BY <2>1, <3>1, KnownStarts, AtNext, AtIsNat DEF Schedule
    <3> QED
      BY <3>1, <3>2, Positive
  <2> QED
    BY <2>3, <2>4, <2>5 DEF SamplesOnTime
<1>2. Init => ContentInv
  BY InitContent
<1>3. ScheduleInv /\ ContentInv /\ [Next]_vars => ContentInv'
  BY StepContent, Zenon DEF ScheduleInv
<1> QED
  BY <1>1, <1>2, <1>3, Scheduled, PTL DEF Spec
=============================================================================
