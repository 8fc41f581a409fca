------------------------------ MODULE Parts_proof ------------------------------
(***************************************************************************)
(* Theorems about the parts that stand alone, for every value of their     *)
(* constants, in three chapters: the parts with state, each by itself (the *)
(* two byte buffers, the stream session, the geometry transforms, the      *)
(* resampling with AudioConverter and the throughput adaptation); the      *)
(* calculations, from what AMF is read back to what the filters keep; and  *)
(* Parts, in which one of the parts runs.                                  *)
(***************************************************************************)
EXTENDS Parts, Calculations, TLAPS, SequenceTheorems, NaturalsInduction, WellFoundedInduction

-----------------------------------------------------------------------------
(* The receive buffer. *)

Sized == capBytes \in Nat /\ WriteSizes \subseteq Nat /\ MaxWritten \in Nat

\* The pointers stay in the block, which has room for what was asked for, and
\* no more is unread than was written.
BlockInv ==
  /\ m_preBuffer \in Seq(Nat)
  /\ m_readPointer \in Nat /\ m_writePointer \in Nat /\ ensured \in Nat /\ written \in Nat
  /\ Pre!PointersInBlock
  /\ m_writePointer - m_readPointer <= written /\ written <= MaxWritten

LEMMA InitBlock == Sized /\ Pre!Init => BlockInv
<1> SUFFICES ASSUME Sized, Pre!Init PROVE BlockInv
  OBVIOUS
<1>1. m_preBuffer \in Seq(Nat) /\ Len(m_preBuffer) = capBytes
  BY DEF Sized, Pre!Init
<1> QED
  BY <1>1 DEF Sized, Pre!Init, BlockInv, Pre!PointersInBlock, Pre!m_preBufferSize

\* The block behind ensureCapacityForWrite.
LEMMA GrownBlock ==
  ASSUME BlockInv, NEW n \in Nat, n > Pre!availableSpace
  PROVE  /\ Pre!Grown(n) \in Seq(Nat) /\ Len(Pre!Grown(n)) = m_writePointer + n
         /\ Pre!m_preBufferSize <= m_writePointer + n
         /\ \A i \in 1..Pre!m_preBufferSize : Pre!Grown(n)[i] = m_preBuffer[i]
<1>1. PICK room \in Nat : room = Len(m_preBuffer) /\ m_writePointer <= room
  BY DEF BlockInv, Pre!PointersInBlock, Pre!m_preBufferSize
<1>2. room + n - (room - m_writePointer) = m_writePointer + n /\ m_writePointer + n \in Nat
      /\ room <= m_writePointer + n
  BY <1>1 DEF BlockInv, Pre!availableSpace, Pre!m_preBufferSize
<1>3. Pre!Grown(n) = [i \in 1..(m_writePointer + n) |-> IF i <= room THEN m_preBuffer[i] ELSE 0]
  BY <1>1, <1>2 DEF Pre!Grown, Pre!availableSpace, Pre!m_preBufferSize
<1>4. \A i \in 1..room : m_preBuffer[i] \in Nat
  BY <1>1 DEF BlockInv
<1>5. Pre!Grown(n) \in Seq(Nat) /\ Len(Pre!Grown(n)) = m_writePointer + n
  BY <1>2, <1>3, <1>4
<1>6. \A i \in 1..room : Pre!Grown(n)[i] = m_preBuffer[i]
  BY <1>2, <1>3
<1> QED
  BY <1>1, <1>2, <1>5, <1>6 DEF Pre!m_preBufferSize

\* The block behind didWrite.
LEMMA WrittenBlock ==
  ASSUME BlockInv, NEW n \in Nat, Pre!didWrite(n)
  PROVE  /\ m_preBuffer' \in Seq(Nat) /\ Len(m_preBuffer') = Len(m_preBuffer)
         /\ \A i \in 1..Len(m_preBuffer) :
              m_preBuffer'[i] = IF i \in (m_writePointer + 1)..(m_writePointer + n)
                                THEN written + (i - m_writePointer) ELSE m_preBuffer[i]
<1>1. PICK room \in Nat : room = Len(m_preBuffer)
  BY DEF BlockInv
<1>2. m_preBuffer' = [i \in 1..room |->
         IF i \in (m_writePointer + 1)..(m_writePointer + n)
         THEN written + i - m_writePointer ELSE m_preBuffer[i]]
  BY <1>1 DEF Pre!didWrite, Pre!m_preBufferSize
<1>3. \A i \in 1..room : m_preBuffer[i] \in Nat
  BY <1>1 DEF BlockInv
<1>4. \A i \in (m_writePointer + 1)..(m_writePointer + n) :
         written + i - m_writePointer \in Nat /\ written + i - m_writePointer = written + (i - m_writePointer)
  BY DEF BlockInv
<1>5. m_preBuffer' \in Seq(Nat) /\ Len(m_preBuffer') = room
  BY <1>2, <1>3, <1>4
<1> QED
  BY <1>1, <1>2, <1>4, <1>5

LEMMA StepBlock == Sized /\ BlockInv /\ [Pre!Next]_(Pre!vars) => BlockInv'
<1> SUFFICES ASSUME Sized, BlockInv, [Pre!Next]_(Pre!vars) PROVE BlockInv'
  OBVIOUS
<1>1. ASSUME NEW n \in WriteSizes, Pre!ensureCapacityForWrite(n) PROVE BlockInv'
  <2>1. n \in Nat
    BY DEF Sized
  <2>2. CASE n > Pre!availableSpace
    BY <1>1, <2>1, <2>2, GrownBlock DEF Pre!ensureCapacityForWrite, BlockInv, Pre!PointersInBlock, Pre!m_preBufferSize
  <2>3. CASE ~(n > Pre!availableSpace)
    BY <1>1, <2>1, <2>3 DEF Pre!ensureCapacityForWrite, Pre!availableSpace, BlockInv, Pre!PointersInBlock,
                            Pre!m_preBufferSize
  <2> QED
    BY <2>2, <2>3
<1>2. ASSUME NEW n \in WriteSizes, Pre!didWrite(n) PROVE BlockInv'
  <2>1. n \in Nat
    BY DEF Sized
  <2>2. m_preBuffer' \in Seq(Nat) /\ Len(m_preBuffer') = Len(m_preBuffer)
    BY <1>2, <2>1, WrittenBlock
  <2> QED
    BY <1>2, <2>1, <2>2 DEF Pre!didWrite, BlockInv, Pre!PointersInBlock, Pre!m_preBufferSize, Sized
<1>3. ASSUME NEW n \in WriteSizes, Pre!didRead(n) PROVE BlockInv'
  BY <1>3 DEF Pre!didRead, Pre!Reset, Pre!availableBytes, BlockInv, Pre!PointersInBlock, Pre!m_preBufferSize, Sized
<1>4. CASE Pre!reset
  BY <1>4 DEF Pre!reset, Pre!Reset, BlockInv, Pre!PointersInBlock, Pre!m_preBufferSize
<1>5. CASE UNCHANGED Pre!vars
  BY <1>5 DEF Pre!vars, BlockInv, Pre!PointersInBlock, Pre!m_preBufferSize
<1> QED
  BY <1>1, <1>2, <1>3, <1>4, <1>5 DEF Pre!Next

\* The assertions of didWrite and didRead hold: both pointers stay in the block,
\* and so does what was asked for.
THEOREM PointersStayInBlock ==
  ASSUME Sized
  PROVE  Pre!Spec => []Pre!PointersInBlock
<1>1. Pre!Init => BlockInv
  BY InitBlock
<1>2. BlockInv /\ [Pre!Next]_(Pre!vars) => BlockInv'
  BY StepBlock
<1>3. BlockInv => Pre!PointersInBlock
  BY DEF BlockInv
<1> QED
  BY <1>1, <1>2, <1>3, PTL DEF Pre!Spec

-----------------------------------------------------------------------------
(* The refinement. *)

\* Two blocks that agree on a stretch.
LEMMA SameStretch ==
  ASSUME NEW b \in Seq(Nat), NEW c \in Seq(Nat), NEW r \in Nat, NEW w \in Nat, r <= w,
         w <= Len(b), w <= Len(c), \A i \in (r + 1)..w : b[i] = c[i]
  PROVE  SubSeq(b, r + 1, w) = SubSeq(c, r + 1, w)
<1>1. PICK n \in Nat : n = w - r
  OBVIOUS
<1>2. /\ SubSeq(b, r + 1, w) \in Seq(Nat) /\ Len(SubSeq(b, r + 1, w)) = n
      /\ \A i \in 1..n : SubSeq(b, r + 1, w)[i] = b[r + i]
  BY <1>1, SMTT(30)
<1>3. /\ SubSeq(c, r + 1, w) \in Seq(Nat) /\ Len(SubSeq(c, r + 1, w)) = n
      /\ \A i \in 1..n : SubSeq(c, r + 1, w)[i] = c[r + i]
  BY <1>1
<1>4. \A i \in 1..n : r + i \in (r + 1)..w
  BY <1>1
<1>5. \A i \in 1..n : SubSeq(b, r + 1, w)[i] = SubSeq(c, r + 1, w)[i]
  BY <1>2, <1>3, <1>4
<1> QED
  BY <1>2, <1>3, <1>5, SeqEqual

\* The block c is the block b with the bytes k + 1, ..., k + n behind the first
\* w, and what that makes of the bytes behind the first r.
Overwritten(b, c, r, w, n, k) ==
  /\ r <= w /\ w + n <= Len(b) /\ Len(c) = Len(b)
  /\ \A i \in 1..Len(b) : c[i] = IF i \in (w + 1)..(w + n) THEN k + (i - w) ELSE b[i]
Extended(b, c, r, w, n, k) ==
  SubSeq(c, r + 1, w + n) = SubSeq(b, r + 1, w) \o [i \in 1..n |-> k + i]

\* A block with n new bytes behind its unread ones.
LEMMA UnreadWritten ==
  ASSUME NEW b \in Seq(Nat), NEW c \in Seq(Nat), NEW r \in Nat, NEW w \in Nat, NEW n \in Nat, NEW k \in Nat,
         Overwritten(b, c, r, w, n, k)
  PROVE  Extended(b, c, r, w, n, k)
<1> USE DEF Overwritten
<1>1. SubSeq(c, r + 1, w) \o SubSeq(c, w + 1, w + n) = SubSeq(c, r + 1, w + n)
  <2>1. r + 1 \in 1..(Len(c) + 1) /\ w \in ((r + 1) - 1)..Len(c) /\ w + n \in w..Len(c)
    OBVIOUS
  <2> QED
    BY <2>1, ConcatAdjacentSubSeq
<1>2. SubSeq(c, r + 1, w) = SubSeq(b, r + 1, w)
  <2>1. \A i \in (r + 1)..w : c[i] = b[i]
    OBVIOUS
  <2> QED
    BY <2>1, SameStretch
<1>3. SubSeq(c, w + 1, w + n) = [i \in 1..n |-> k + i]
  <2>1. /\ SubSeq(c, w + 1, w + n) \in Seq(Nat) /\ Len(SubSeq(c, w + 1, w + n)) = n
        /\ \A i \in 1..n : SubSeq(c, w + 1, w + n)[i] = c[w + i]
    OBVIOUS
  <2>2. [i \in 1..n |-> k + i] \in Seq(Nat) /\ Len([i \in 1..n |-> k + i]) = n
    OBVIOUS
  <2>3. \A i \in 1..n : c[w + i] = k + i
    OBVIOUS
  <2> QED
    BY <2>1, <2>2, <2>3, SeqEqual
<1> QED
  BY <1>1, <1>2, <1>3 DEF Extended

\* The end of a stretch.
LEMMA DropFromStretch ==
  ASSUME NEW b \in Seq(Nat), NEW r \in Nat, NEW w \in Nat, NEW n \in Nat, r + n < w, w <= Len(b)
  PROVE  SubSeq(b, (r + n) + 1, w) = SubSeq(SubSeq(b, r + 1, w), n + 1, w - r)
<1>1. PICK m \in Nat : m = w - r - n /\ w - r = n + m
  OBVIOUS
<1> DEFINE s == SubSeq(b, r + 1, w)
<1>2. s \in Seq(Nat) /\ Len(s) = n + m /\ \A i \in 1..(n + m) : s[i] = b[r + i]
  BY <1>1
<1> HIDE DEF s
<1>3. /\ SubSeq(b, (r + n) + 1, w) \in Seq(Nat) /\ Len(SubSeq(b, (r + n) + 1, w)) = m
      /\ \A i \in 1..m : SubSeq(b, (r + n) + 1, w)[i] = b[(r + n) + i]
  BY <1>1
<1>4. /\ SubSeq(s, n + 1, w - r) \in Seq(Nat) /\ Len(SubSeq(s, n + 1, w - r)) = m
      /\ \A i \in 1..m : SubSeq(s, n + 1, w - r)[i] = s[n + i]
  <2>1. n + 1 \in Int /\ w - r \in Int /\ n + 1 <= w - r + 1 /\ (w - r) - (n + 1) + 1 = m
    BY <1>1
  <2>2. \A i \in (n + 1)..(w - r) : s[i] \in Nat
    BY <1>1, <1>2, SMTT(30)
  <2>3. \A i \in 1..m : (n + 1) + i - 1 = n + i
    OBVIOUS
  <2>4. m > 0 /\ n + 1 <= w - r
    BY <1>1
  <2> QED
    BY <2>1, <2>2, <2>3, <2>4, SubSeqProperties
<1>5. \A i \in 1..m : s[n + i] = b[(r + n) + i]
  BY <1>1, <1>2
<1>6. \A i \in 1..m : SubSeq(b, (r + n) + 1, w)[i] = SubSeq(s, n + 1, w - r)[i]
  BY <1>3, <1>4, <1>5
<1> QED
  BY <1>3, <1>4, <1>6, SeqEqual DEF s

LEMMA UnreadLength ==
  ASSUME BlockInv
  PROVE  /\ Pre!Unread \in Seq(Nat) /\ Len(Pre!Unread) = m_writePointer - m_readPointer
         /\ Len(Pre!Unread) \in Nat /\ Len(Pre!Unread) <= written
BY DEF BlockInv, Pre!PointersInBlock, Pre!Unread, Pre!m_preBufferSize

LEMMA InitQueue == Sized /\ Pre!Init => Pre!Queue!Init
<1> SUFFICES ASSUME Sized, Pre!Init PROVE Pre!Unread = <<>>
  BY DEF Pre!Queue!Init
<1> QED
  BY SubSeqEmpty DEF Pre!Init, Pre!Unread

LEMMA StepQueue == Sized /\ BlockInv /\ [Pre!Next]_(Pre!vars) => [Pre!Queue!Next]_(Pre!Queue!vars)
<1> SUFFICES ASSUME Sized, BlockInv, [Pre!Next]_(Pre!vars) PROVE Pre!Queue!Next \/ Pre!Unread' = Pre!Unread
  BY DEF Pre!Queue!vars
<1>1. ASSUME NEW n \in WriteSizes, Pre!ensureCapacityForWrite(n) PROVE Pre!Unread' = Pre!Unread
  <2>1. n \in Nat /\ UNCHANGED <<m_readPointer, m_writePointer>>
    BY <1>1 DEF Sized, Pre!ensureCapacityForWrite
  <2>2. CASE n > Pre!availableSpace
    <3>1. m_preBuffer' = Pre!Grown(n)
      BY <1>1, <2>2 DEF Pre!ensureCapacityForWrite
    <3>2. /\ Pre!Grown(n) \in Seq(Nat) /\ m_preBuffer \in Seq(Nat)
          /\ m_readPointer \in Nat /\ m_writePointer \in Nat /\ m_readPointer <= m_writePointer
          /\ m_writePointer <= Len(m_preBuffer) /\ m_writePointer <= Len(Pre!Grown(n))
          /\ \A i \in (m_readPointer + 1)..m_writePointer : Pre!Grown(n)[i] = m_preBuffer[i]
      <4>1. /\ Pre!Grown(n) \in Seq(Nat) /\ Len(Pre!Grown(n)) = m_writePointer + n
            /\ \A i \in 1..Pre!m_preBufferSize : Pre!Grown(n)[i] = m_preBuffer[i]
        BY <2>1, <2>2, GrownBlock
      <4>2. /\ m_preBuffer \in Seq(Nat) /\ m_readPointer \in Nat /\ m_writePointer \in Nat
            /\ m_readPointer <= m_writePointer /\ m_writePointer <= Len(m_preBuffer)
        BY DEF BlockInv, Pre!PointersInBlock, Pre!m_preBufferSize
      <4>3. m_writePointer <= m_writePointer + n
        BY <2>1, <4>2
      <4>4. \A i \in (m_readPointer + 1)..m_writePointer : i \in 1..Pre!m_preBufferSize
        BY <4>2, SMTT(30) DEF Pre!m_preBufferSize
      <4> QED
        BY <4>1, <4>2, <4>3, <4>4, ZenonT(60)
    <3> QED
      BY <2>1, <3>1, <3>2, SameStretch DEF Pre!Unread
  <2>3. CASE ~(n > Pre!availableSpace)
    BY <1>1, <2>1, <2>3 DEF Pre!ensureCapacityForWrite, Pre!Unread
  <2> QED
    BY <2>2, <2>3
<1>2. ASSUME NEW n \in WriteSizes, Pre!didWrite(n) PROVE Pre!Queue!Next
  <2> DEFINE data == [i \in 1..n |-> written + i]
  <2>1. n \in Nat /\ written \in 0..MaxWritten /\ written + n <= MaxWritten
    BY <1>2 DEF Sized, Pre!didWrite, BlockInv
  <2>2. Pre!Unread' = Pre!Unread \o data
    <3>1. /\ m_writePointer' = m_writePointer + n /\ m_readPointer' = m_readPointer
          /\ m_readPointer \in Nat /\ m_writePointer \in Nat /\ m_readPointer <= m_writePointer
          /\ m_writePointer + n <= Len(m_preBuffer) /\ m_preBuffer \in Seq(Nat) /\ written \in Nat
      BY <1>2, <2>1 DEF Pre!didWrite, BlockInv, Pre!PointersInBlock, Pre!m_preBufferSize
    <3>2. m_preBuffer' \in Seq(Nat) /\ Overwritten(m_preBuffer, m_preBuffer', m_readPointer, m_writePointer, n, written)
      BY <1>2, <2>1, <3>1, WrittenBlock DEF Overwritten
    <3>3. Extended(m_preBuffer, m_preBuffer', m_readPointer, m_writePointer, n, written)
      BY <2>1, <3>1, <3>2, UnreadWritten, Zenon
    <3> QED
      BY <3>1, <3>3, Zenon DEF Extended, Pre!Unread
  <2>3. data \in Seq(Nat) /\ Len(data) = n
    BY <2>1
  <2>4. Pre!Queue!AtMost(Len(data), Pre!Queue!Room) = n
    <3>1. PICK l \in Nat : l = Len(Pre!Unread) /\ l <= written
      BY UnreadLength
    <3>2. n <= MaxWritten - l
      BY <2>1, <3>1 DEF Sized
    <3>3. Pre!Queue!Room = MaxWritten - l
      BY <3>1 DEF Pre!Queue!Room
    <3> HIDE DEF data
    <3> QED
      BY <2>1, <2>3, <3>1, <3>2, <3>3 DEF Pre!Queue!AtMost, Sized
  <2>5. SubSeq(data, 1, n) = data
    BY <2>3, SubSeqFull
  <2>6. Pre!Queue!Put(data)
    BY <2>2, <2>4, <2>5 DEF Pre!Queue!Put
  <2> DEFINE Batches == {[i \in 1..m |-> k + i] : m \in WriteSizes, k \in 0..MaxWritten}
  <2>7. data \in Batches
    BY <2>1
  <2> HIDE DEF data, Batches
  <2>8. \E d \in Batches : Pre!Queue!Put(d)
    BY <2>6, <2>7
  <2> QED
    BY <2>8 DEF Pre!Queue!Next, Batches
<1>3. ASSUME NEW n \in WriteSizes, Pre!didRead(n) PROVE Pre!Queue!Next
  <2>1. n \in 0..MaxWritten /\ n <= Len(Pre!Unread)
    BY <1>3, UnreadLength DEF Sized, Pre!didRead, Pre!availableBytes, BlockInv
  <2>2. Pre!Queue!AtMost(n, Len(Pre!Unread)) = n
    BY <2>1, UnreadLength DEF Pre!Queue!AtMost
  <2>3. Pre!Unread' = SubSeq(Pre!Unread, n + 1, Len(Pre!Unread))
    <3>1. CASE n = Pre!availableBytes
      <4>1. Pre!Unread' = <<>>
        BY <1>3, <3>1, SubSeqEmpty DEF Pre!didRead, Pre!Reset, Pre!Unread
      <4>2. n + 1 \in Int /\ Len(Pre!Unread) \in Int /\ Len(Pre!Unread) < n + 1
        BY <2>1, <3>1, UnreadLength DEF Pre!availableBytes
      <4> QED
        BY <4>1, <4>2, SubSeqEmpty
    <3>2. CASE n # Pre!availableBytes
      <4>1. m_readPointer' = m_readPointer + n /\ UNCHANGED <<m_writePointer, m_preBuffer>>
        BY <1>3, <3>2 DEF Pre!didRead
      <4>2. /\ m_preBuffer \in Seq(Nat) /\ m_readPointer \in Nat /\ m_writePointer \in Nat
            /\ n \in Nat /\ m_readPointer + n < m_writePointer /\ m_writePointer <= Len(m_preBuffer)
        BY <1>3, <2>1, <3>2 DEF Pre!didRead, Pre!availableBytes, BlockInv, Pre!PointersInBlock, Pre!m_preBufferSize
      <4> QED
        BY <4>1, <4>2, UnreadLength, DropFromStretch DEF Pre!Unread
    <3> QED
      BY <3>1, <3>2
  <2>4. Pre!Queue!Get(n)
    BY <2>2, <2>3 DEF Pre!Queue!Get
  <2> QED
    BY <2>1, <2>4 DEF Pre!Queue!Next
<1>4. CASE Pre!reset
  <2>1. Pre!Unread' = <<>>
    BY <1>4, SubSeqEmpty DEF Pre!reset, Pre!Reset, Pre!Unread
  <2> QED
    BY <2>1 DEF Pre!Queue!Next, Pre!Queue!Clear
<1>5. CASE UNCHANGED Pre!vars
  BY <1>5 DEF Pre!vars, Pre!Unread
<1> QED
  BY <1>1, <1>2, <1>3, <1>4, <1>5 DEF Pre!Next

\* What the session reads from the buffer is what the stream wrote into it, in
\* order and without a gap, however often the block grew or was reset.
THEOREM ImplementsByteQueue ==
  ASSUME Sized
  PROVE  Pre!Spec => Pre!PreBufferIsQueue
<1>1. Pre!Init => BlockInv /\ Pre!Queue!Init
  BY InitBlock, InitQueue
<1>2. BlockInv /\ [Pre!Next]_(Pre!vars) => BlockInv'
  BY StepBlock
<1>3. BlockInv /\ [Pre!Next]_(Pre!vars) => [Pre!Queue!Next]_(Pre!Queue!vars)
  BY StepQueue
<1> QED
  BY <1>1, <1>2, <1>3, PTL DEF Pre!Spec, Pre!PreBufferIsQueue, Pre!Queue!Spec

-----------------------------------------------------------------------------
(* The ring buffer. *)

\* The place i behind p in an array of t bytes, and the one j in front of the
\* one before r.
Slot(t, p, i) == IF p + i < t THEN p + i ELSE p + i - t
Behind(t, r, j) == IF j < r THEN r - 1 - j ELSE t + r - 1 - j

LEMMA Wraps ==
  ASSUME NEW t \in Nat, t > 0, NEW p \in 0..t, NEW i \in 0..(t - 1)
  PROVE  (p + i) % t = Slot(t, p, i) /\ Slot(t, p, i) \in 0..(t - 1)
<1>1. CASE p + i < t
  <2>1. p + i \in 0..(t - 1)
    BY <1>1
  <2>2. (p + i) % t = p + i
    BY <2>1
  <2> QED
    BY <1>1, <2>1, <2>2 DEF Slot
<1>2. CASE p + i >= t
  <2>1. PICK r \in 0..(t - 1) : r = p + i - t
    BY <1>2
  <2>2. (p + i) % t = r
    <3>1. r % t = r
      BY <2>1
    <3>2. (r + t) % t = r % t
      OBVIOUS
    <3>3. p + i = r + t
      BY <2>1
    <3> QED
      BY <3>1, <3>2, <3>3
  <2> QED
    BY <1>2, <2>1, <2>2 DEF Slot
<1> QED
  BY <1>1, <1>2

\* Two positions that are n places apart, round and round.
Apart(t, r, n, w) == r + n \in {w - t, w, w + t, w + 2 * t}

LEMMA CellIsSlot ==
  ASSUME NEW t \in Nat, m_total = t, t > 0, NEW p \in 0..t, NEW n \in 0..t, NEW i \in 1..n
  PROVE  Ring!Cell(p, n, i) = Slot(t, p, i - 1)
BY DEF Ring!Cell, Ring!First, Ring!End, Ring!Least, Slot

MoveFits(p, n) == m_total \in Nat /\ m_total > 0 /\ p \in 0..m_total /\ n \in 0..m_total
Moves(p, n) == Ring!Moved(p, n) \in 0..m_total /\ Ring!Moved(p, n) \in {p + n, p + n - m_total}

LEMMA MovedOn ==
  ASSUME NEW p, NEW n, MoveFits(p, n)
  PROVE  Moves(p, n)
BY DEF MoveFits, Moves, Ring!Moved, Ring!First, Ring!End, Ring!Least

\* The n bytes from place r of an array b of t bytes.
Stretch(b, t, r, n) == [i \in 1..n |-> b[Slot(t, r, i - 1)]]

LEMMA StretchIs ==
  ASSUME NEW t \in Nat, t > 0, NEW b \in [0..(t - 1) -> Nat], NEW r \in 0..t, NEW n \in Nat, n <= t
  PROVE  /\ Stretch(b, t, r, n) \in Seq(Nat) /\ Len(Stretch(b, t, r, n)) = n
         /\ \A i \in 1..n : Stretch(b, t, r, n)[i] = b[Slot(t, r, i - 1)]
<1>1. \A i \in 1..n : Slot(t, r, i - 1) \in 0..(t - 1)
  BY DEF Slot
<1>2. \A i \in 1..n : b[Slot(t, r, i - 1)] \in Nat
  BY <1>1
<1> QED
  BY <1>2 DEF Stretch

\* A stretch that lies within the array, and the bytes it is made of.
StretchFits(b, t, r, n) ==
  t \in Nat /\ t > 0 /\ b \in [0..(t - 1) -> Nat] /\ r \in 0..t /\ n \in Nat /\ n <= t

StretchExists(b, t, r, n) ==
  \E s \in Seq(Nat) : /\ s = Stretch(b, t, r, n) /\ Len(s) = n
                      /\ \A i \in 1..n : s[i] = b[Slot(t, r, i - 1)]

LEMMA StretchGiven ==
  ASSUME NEW b, NEW t, NEW r, NEW n, StretchFits(b, t, r, n)
  PROVE  StretchExists(b, t, r, n)
<1>0. t \in Nat /\ t > 0 /\ b \in [0..(t - 1) -> Nat] /\ r \in 0..t /\ n \in Nat /\ n <= t
  BY DEF StretchFits
<1>1. \A i \in 1..n : Slot(t, r, i - 1) \in 0..(t - 1)
  BY <1>0 DEF Slot
<1>2. \A i \in 1..n : b[Slot(t, r, i - 1)] \in Nat
  BY <1>0, <1>1
<1>3. /\ Stretch(b, t, r, n) \in Seq(Nat) /\ Len(Stretch(b, t, r, n)) = n
      /\ \A i \in 1..n : Stretch(b, t, r, n)[i] = b[Slot(t, r, i - 1)]
  BY <1>0, <1>2 DEF Stretch
<1> QED
  BY <1>3, Zenon DEF StretchExists

LEMMA Joined ==
  ASSUME NEW a \in Seq(Nat), NEW b \in Seq(Nat)
  PROVE  /\ a \o b \in Seq(Nat) /\ Len(a \o b) = Len(a) + Len(b)
         /\ \A i \in 1..Len(a) : (a \o b)[i] = a[i]
         /\ \A i \in 1..Len(b) : (a \o b)[Len(a) + i] = b[i]
OBVIOUS

LEMMA LastOnes ==
  ASSUME NEW s \in Seq(Nat), NEW a \in Nat, NEW k \in Nat, Len(s) = a + k
  PROVE  /\ SubSeq(s, a + 1, a + k) \in Seq(Nat) /\ Len(SubSeq(s, a + 1, a + k)) = k
         /\ \A i \in 1..k : SubSeq(s, a + 1, a + k)[i] = s[a + i]
OBVIOUS

\* The k bytes behind the first o.
Numbered(o, k) == [i \in 1..k |-> o + i]

LEMMA NumberedIs ==
  ASSUME NEW o \in Nat, NEW k \in Nat
  PROVE  /\ Numbered(o, k) \in Seq(Nat) /\ Len(Numbered(o, k)) = k
         /\ \A i \in 1..k : Numbered(o, k)[i] = o + i
BY DEF Numbered

\* The array c is b with the k bytes behind the first o at w.
WrittenAt(b, c, t, w, k, o) ==
  /\ \A i \in 1..k : c[Slot(t, w, i - 1)] = o + i
  /\ \A p \in 0..(t - 1) : (\A i \in 1..k : Slot(t, w, i - 1) # p) => c[p] = b[p]

\* k bytes, numbered from o + 1, go behind n bytes that begin at r.
PutFits(b, c, t, r, w, n, k, o) ==
  /\ t \in Nat /\ t > 0 /\ b \in [0..(t - 1) -> Nat] /\ c \in [0..(t - 1) -> Nat]
  /\ r \in 0..t /\ w \in 0..t /\ n \in Nat /\ k \in Nat /\ n + k <= t /\ o \in Nat
  /\ Apart(t, r, n, w) /\ WrittenAt(b, c, t, w, k, o)

PutAdds(b, c, t, r, n, k, o) == Stretch(c, t, r, n + k) = Stretch(b, t, r, n) \o Numbered(o, k)

LEMMA StretchWritten ==
  ASSUME NEW b, NEW c, NEW t, NEW r, NEW w, NEW n, NEW k, NEW o, PutFits(b, c, t, r, w, n, k, o)
  PROVE  PutAdds(b, c, t, r, n, k, o)
<1>0. /\ t \in Nat /\ t > 0 /\ b \in [0..(t - 1) -> Nat] /\ c \in [0..(t - 1) -> Nat]
      /\ r \in 0..t /\ w \in 0..t /\ n \in Nat /\ k \in Nat /\ n + k <= t /\ o \in Nat
      /\ WrittenAt(b, c, t, w, k, o)
  BY DEF PutFits
<1>a. /\ t \in Nat /\ t > 0 /\ r \in 0..t /\ w \in 0..t /\ n \in Nat /\ k \in Nat /\ n + k <= t
      /\ Apart(t, r, n, w)
  BY DEF PutFits
<1>1. PICK data \in Seq(Nat) : data = Numbered(o, k) /\ Len(data) = k /\ \A i \in 1..k : data[i] = o + i
  BY <1>0, NumberedIs, Zenon
<1>2. n + k \in Nat /\ n <= t
  BY <1>0
<1>3. PICK old \in Seq(Nat) : /\ old = Stretch(b, t, r, n) /\ Len(old) = n
                             /\ \A i \in 1..n : old[i] = b[Slot(t, r, i - 1)]
  <2>1. StretchFits(b, t, r, n)
    BY <1>0, <1>2 DEF StretchFits
  <2>2. StretchExists(b, t, r, n)
    BY <2>1, StretchGiven, Zenon
  <2> QED
    BY <2>2, Zenon DEF StretchExists
<1>4. PICK all \in Seq(Nat) : /\ all = Stretch(c, t, r, n + k) /\ Len(all) = n + k
                             /\ \A i \in 1..(n + k) : all[i] = c[Slot(t, r, i - 1)]
  <2>1. StretchFits(c, t, r, n + k)
    BY <1>0, <1>2 DEF StretchFits
  <2>2. StretchExists(c, t, r, n + k)
    BY <2>1, StretchGiven, Zenon
  <2> QED
    BY <2>2, Zenon DEF StretchExists
<1>5. /\ old \o data \in Seq(Nat) /\ Len(old \o data) = n + k
      /\ \A i \in 1..n : (old \o data)[i] = old[i]
      /\ \A j \in 1..k : (old \o data)[n + j] = data[j]
  <2>1. Len(data) = k /\ Len(old) = n
    BY <1>1, <1>3, Zenon
  <2> QED
    BY <2>1, Joined
<1>6. ASSUME NEW i \in 1..(n + k) PROVE (old \o data)[i] = all[i]
  <2>1. CASE i <= n
    <3>1. \A j \in 1..k : Slot(t, w, j - 1) # Slot(t, r, i - 1)
      BY <1>a, <2>1 DEF Slot, Apart
    <3>2. Slot(t, r, i - 1) \in 0..(t - 1)
      BY <1>0, <2>1 DEF Slot
    <3>3. c[Slot(t, r, i - 1)] = b[Slot(t, r, i - 1)]
      BY <1>0, <3>1, <3>2 DEF WrittenAt
    <3>4. i \in 1..n
      BY <1>0, <2>1
    <3>5. old[i] = b[Slot(t, r, i - 1)]
      BY <1>3, <3>4
    <3> QED
      BY <1>4, <1>5, <3>3, <3>4, <3>5
  <2>2. CASE i > n
    <3>1. PICK j \in 1..k : j = i - n
      BY <1>0, <2>2
    <3>2. Slot(t, r, i - 1) = Slot(t, w, j - 1)
      BY <1>a, <2>2, <3>1 DEF Slot, Apart
    <3>3. all[i] = o + j
      BY <1>0, <1>4, <3>2 DEF WrittenAt
    <3>4. data[j] = o + j
      BY <1>1, <3>1
    <3>5. i = n + j
      BY <1>0, <3>1
    <3>6. (old \o data)[n + j] = data[j]
      BY <1>5
    <3> QED
      BY <3>3, <3>4, <3>5, <3>6
  <2>3. i <= n \/ i > n
    BY <1>0
  <2> QED
    BY <2>1, <2>2, <2>3, Zenon
<1>7. old \o data = all
  BY <1>4, <1>5, <1>6, SeqEqual
<1> QED
  BY <1>1, <1>3, <1>4, <1>7 DEF PutAdds

\* The first k of k + m bytes are taken, and the others left alone.
LeftAlone(b, c, t, r, k, m) == \A i \in 1..m : c[Slot(t, r, k + i - 1)] = b[Slot(t, r, k + i - 1)]

TakeFits(b, c, t, r, q, k, m) ==
  /\ t \in Nat /\ t > 0 /\ b \in [0..(t - 1) -> Nat] /\ c \in [0..(t - 1) -> Nat]
  /\ r \in 0..t /\ q \in 0..t /\ k \in Nat /\ m \in Nat /\ k + m <= t /\ q \in {r + k, r + k - t}
  /\ LeftAlone(b, c, t, r, k, m)
TakeLeaves(b, c, t, r, q, k, m) ==
  /\ Stretch(c, t, q, m) = SubSeq(Stretch(b, t, r, k + m), k + 1, k + m)
  /\ Stretch(b, t, r, k) = SubSeq(Stretch(b, t, r, k + m), 1, k)

LEMMA StretchTaken ==
  ASSUME NEW b, NEW c, NEW t, NEW r, NEW q, NEW k, NEW m, TakeFits(b, c, t, r, q, k, m)
  PROVE  TakeLeaves(b, c, t, r, q, k, m)
<1>0. /\ t \in Nat /\ t > 0 /\ b \in [0..(t - 1) -> Nat] /\ c \in [0..(t - 1) -> Nat]
      /\ r \in 0..t /\ q \in 0..t /\ k \in Nat /\ m \in Nat /\ k + m <= t
      /\ LeftAlone(b, c, t, r, k, m)
  BY DEF TakeFits
<1>a. /\ t \in Nat /\ t > 0 /\ r \in 0..t /\ q \in 0..t /\ k \in Nat /\ m \in Nat /\ k + m <= t
      /\ q \in {r + k, r + k - t}
  BY DEF TakeFits
<1>1. k + m \in Nat /\ k <= t /\ m <= t
  BY <1>0
<1>2. PICK all \in Seq(Nat) : /\ all = Stretch(b, t, r, k + m) /\ Len(all) = k + m
                             /\ \A i \in 1..(k + m) : all[i] = b[Slot(t, r, i - 1)]
  <2>1. StretchFits(b, t, r, k + m)
    BY <1>0, <1>1 DEF StretchFits
  <2>2. StretchExists(b, t, r, k + m)
    BY <2>1, StretchGiven, Zenon
  <2> QED
    BY <2>2, Zenon DEF StretchExists
<1>3. PICK rest \in Seq(Nat) : /\ rest = Stretch(c, t, q, m) /\ Len(rest) = m
                              /\ \A i \in 1..m : rest[i] = c[Slot(t, q, i - 1)]
  <2>1. StretchFits(c, t, q, m)
    BY <1>0, <1>1 DEF StretchFits
  <2>2. StretchExists(c, t, q, m)
    BY <2>1, StretchGiven, Zenon
  <2> QED
    BY <2>2, Zenon DEF StretchExists
<1>4. PICK first \in Seq(Nat) : /\ first = Stretch(b, t, r, k) /\ Len(first) = k
                               /\ \A i \in 1..k : first[i] = b[Slot(t, r, i - 1)]
  <2>1. StretchFits(b, t, r, k)
    BY <1>0, <1>1 DEF StretchFits
  <2>2. StretchExists(b, t, r, k)
    BY <2>1, StretchGiven, Zenon
  <2> QED
    BY <2>2, Zenon DEF StretchExists
<1>5. rest = SubSeq(all, k + 1, k + m)
  <2>1. /\ SubSeq(all, k + 1, k + m) \in Seq(Nat) /\ Len(SubSeq(all, k + 1, k + m)) = m
        /\ \A i \in 1..m : SubSeq(all, k + 1, k + m)[i] = all[k + i]
    BY <1>0, <1>2, LastOnes, Zenon
  <2>2. ASSUME NEW i \in 1..m PROVE rest[i] = all[k + i]
    <3>1. Slot(t, q, i - 1) = Slot(t, r, k + i - 1)
      BY <1>a DEF Slot
    <3>2. all[k + i] = b[Slot(t, r, k + i - 1)]
      <4>1. k + i \in 1..(k + m)
        BY <1>a
      <4>2. \A h \in 1..(k + m) : all[h] = b[Slot(t, r, h - 1)]
        BY <1>2
      <4>3. (k + i) - 1 = k + i - 1
        BY <1>a
      <4>4. all[k + i] = b[Slot(t, r, (k + i) - 1)]
        BY <4>1, <4>2, Zenon
      <4> QED
        BY <4>3, <4>4, Zenon
    <3>3. c[Slot(t, r, k + i - 1)] = b[Slot(t, r, k + i - 1)]
      BY <1>0 DEF LeftAlone
    <3> QED
      BY <1>3, <3>1, <3>2, <3>3
  <2>3. PICK s \in Seq(Nat) : s = SubSeq(all, k + 1, k + m)
    BY <2>1, Zenon
  <2>4. Len(s) = m /\ \A i \in 1..m : rest[i] = s[i]
    BY <2>1, <2>2, <2>3, Zenon
  <2>5. rest = s
    BY <1>3, <2>4, SeqEqual, SMTT(30)
  <2> QED
    BY <2>3, <2>5, Zenon
<1>6. first = SubSeq(all, 1, k)
  <2>1. /\ SubSeq(all, 1, k) \in Seq(Nat) /\ Len(SubSeq(all, 1, k)) = k
        /\ \A i \in 1..k : SubSeq(all, 1, k)[i] = all[i]
    <3>1. all \in Seq(Nat) /\ Len(all) = k + m
      BY <1>2, Zenon
    <3>2. k \in Nat /\ k <= Len(all)
      BY <1>a, <3>1
    <3> QED
      BY <3>1, <3>2, SMTT(30)
  <2>2. ASSUME NEW i \in 1..k PROVE first[i] = all[i]
    <3>1. i \in 1..(k + m)
      BY <1>a
    <3> QED
      BY <1>2, <1>4, <3>1
  <2> QED
    BY <1>4, <2>1, <2>2, SeqEqual
<1> QED
  BY <1>2, <1>3, <1>4, <1>5, <1>6 DEF TakeLeaves

\* What can be put back still lies in front of the n bytes from r, as far as
\* there is room for it.
Restorable(b, t, r, n, s) ==
  \A j \in 0..(Len(s) - 1) : j < t - n => s[Len(s) - j] = b[Behind(t, r, j)]

\* The last k bytes taken are put back.
RestoreFits(b, t, r, q, n, k, s, a) ==
  /\ t \in Nat /\ t > 0 /\ b \in [0..(t - 1) -> Nat] /\ r \in 0..t /\ q \in 0..t
  /\ n \in Nat /\ k \in Nat /\ n + k <= t /\ q \in {r - k, r - k + t}
  /\ s \in Seq(Nat) /\ a \in Nat /\ Len(s) = a + k /\ Restorable(b, t, r, n, s)
RestoreAdds(b, t, r, q, n, k, s, a) == Stretch(b, t, q, n + k) = SubSeq(s, a + 1, a + k) \o Stretch(b, t, r, n)

LEMMA StretchRestored ==
  ASSUME NEW b, NEW t, NEW r, NEW q, NEW n, NEW k, NEW s, NEW a, RestoreFits(b, t, r, q, n, k, s, a)
  PROVE  RestoreAdds(b, t, r, q, n, k, s, a)
<1>0. /\ t \in Nat /\ t > 0 /\ b \in [0..(t - 1) -> Nat] /\ r \in 0..t /\ q \in 0..t
      /\ n \in Nat /\ k \in Nat /\ n + k <= t
      /\ s \in Seq(Nat) /\ a \in Nat /\ Len(s) = a + k /\ Restorable(b, t, r, n, s)
  BY DEF RestoreFits
<1>a. /\ t \in Nat /\ t > 0 /\ r \in 0..t /\ q \in 0..t /\ n \in Nat /\ k \in Nat /\ a \in Nat
      /\ n + k <= t /\ q \in {r - k, r - k + t}
  BY DEF RestoreFits
<1>1. a + k \in Nat
  BY <1>0
<1>2. PICK back \in Seq(Nat) : /\ back = SubSeq(s, a + 1, a + k) /\ Len(back) = k
                             /\ \A i \in 1..k : back[i] = s[a + i]
  BY <1>0, LastOnes, ZenonT(60)
<1>3. n + k \in Nat /\ n <= t
  BY <1>a
<1>4. PICK old \in Seq(Nat) : /\ old = Stretch(b, t, r, n) /\ Len(old) = n
                             /\ \A i \in 1..n : old[i] = b[Slot(t, r, i - 1)]
  <2>1. StretchFits(b, t, r, n)
    BY <1>0, <1>3 DEF StretchFits
  <2>2. StretchExists(b, t, r, n)
    BY <2>1, StretchGiven, Zenon
  <2> QED
    BY <2>2, Zenon DEF StretchExists
<1>5. PICK all \in Seq(Nat) : /\ all = Stretch(b, t, q, n + k) /\ Len(all) = n + k
                             /\ \A i \in 1..(n + k) : all[i] = b[Slot(t, q, i - 1)]
  <2>1. StretchFits(b, t, q, n + k)
    BY <1>0, <1>3 DEF StretchFits
  <2>2. StretchExists(b, t, q, n + k)
    BY <2>1, StretchGiven, Zenon
  <2> QED
    BY <2>2, Zenon DEF StretchExists
<1>6. /\ back \o old \in Seq(Nat) /\ Len(back \o old) = n + k
      /\ \A i \in 1..k : (back \o old)[i] = back[i]
      /\ \A j \in 1..n : (back \o old)[k + j] = old[j]
  <2>1. Len(back) = k /\ Len(old) = n
    BY <1>2, <1>4, Zenon
  <2>2. /\ back \o old \in Seq(Nat) /\ Len(back \o old) = Len(back) + Len(old)
        /\ \A i \in 1..Len(back) : (back \o old)[i] = back[i]
        /\ \A j \in 1..Len(old) : (back \o old)[Len(back) + j] = old[j]
    BY Joined, Zenon
  <2>3. k + n = n + k
    BY <1>a
  <2> QED
    BY <2>1, <2>2, <2>3, Zenon
<1>7. ASSUME NEW i \in 1..(n + k) PROVE (back \o old)[i] = all[i]
  <2>1. CASE i <= k
    <3>1. i \in 1..k
      BY <1>a, <2>1
    <3>2. k - i \in 0..((a + k) - 1) /\ k - i < t - n /\ (a + k) - (k - i) = a + i
      BY <1>a, <2>1
    <3>3. Slot(t, q, i - 1) = Behind(t, r, k - i)
      BY <1>a, <2>1 DEF Slot, Behind
    <3>4. s[(a + k) - (k - i)] = b[Behind(t, r, k - i)]
      <4>1. \A j \in 0..((a + k) - 1) : j < t - n => s[(a + k) - j] = b[Behind(t, r, j)]
        BY <1>0 DEF Restorable
      <4> QED
        BY <3>2, <4>1, Zenon
    <3>5. back[i] = s[a + i]
      BY <1>2, <3>1
    <3> QED
      BY <1>5, <1>6, <3>1, <3>2, <3>3, <3>4, <3>5
  <2>2. CASE i > k
    <3>1. PICK j \in 1..n : j = i - k
      BY <1>a, <2>2
    <3>2. Slot(t, q, i - 1) = Slot(t, r, j - 1)
      BY <1>a, <2>2, <3>1 DEF Slot
    <3>3. (back \o old)[k + j] = old[j] /\ old[j] = b[Slot(t, r, j - 1)]
      BY <1>4, <1>6
    <3>4. i = k + j
      BY <1>a, <3>1
    <3> QED
      BY <1>5, <3>2, <3>3, <3>4
  <2>3. i <= k \/ i > k
    BY <1>a
  <2> QED
    BY <2>1, <2>2, <2>3, Zenon
<1>8. back \o old = all
  BY <1>a, <1>5, <1>6, <1>7, SeqEqual
<1> QED
  BY <1>2, <1>4, <1>5, <1>8 DEF RestoreAdds

RingArray == m_total \in Nat \ {0} /\ MaxOffered \in Nat

\* Both positions are in the array or at its end, as far from each other as
\* bytes are held, and what can be put back lies in front of those.
RingInv ==
  /\ m_buffer \in [0..(m_total - 1) -> Nat]
  /\ m_size \in 0..m_total /\ m_read \in 0..m_total /\ m_write \in 0..m_total
  /\ Apart(m_total, m_read, m_size, m_write)
  /\ offered \in Nat /\ offered <= MaxOffered
  /\ taken \in Seq(Nat) /\ Restorable(m_buffer, m_total, m_read, m_size, taken)

HeldFits(b, r, n) == b \in [0..(m_total - 1) -> Nat] /\ r \in 0..m_total /\ n \in Nat /\ n <= m_total
HeldFrom(b, r, n) == [i \in 1..n |-> b[(r + i - 1) % m_total]]
HeldMatches(b, r, n) == HeldFrom(b, r, n) = Stretch(b, m_total, r, n)

LEMMA HeldIs ==
  ASSUME RingArray, NEW b, NEW r, NEW n, HeldFits(b, r, n)
  PROVE  HeldMatches(b, r, n)
<1>0. b \in [0..(m_total - 1) -> Nat] /\ r \in 0..m_total /\ n \in Nat /\ n <= m_total
  BY DEF HeldFits
<1>1. PICK t \in Nat : t = m_total /\ t > 0
  BY DEF RingArray
<1>2. ASSUME NEW i \in 1..n PROVE (r + i - 1) % t = Slot(t, r, i - 1)
  <2>1. i - 1 \in 0..(t - 1) /\ r + i - 1 = r + (i - 1)
    BY <1>0, <1>1
  <2> QED
    BY <1>0, <1>1, <2>1, Wraps
<1> QED
  BY <1>1, <1>2, Zenon DEF Stretch, HeldFrom, HeldMatches

LEMMA InitRing == RingArray /\ Ring!Init => RingInv /\ Ring!Queue!Init
<1> SUFFICES ASSUME RingArray, Ring!Init PROVE RingInv /\ Ring!Queue!Init
  OBVIOUS
<1>1. RingInv
  BY DEF RingArray, Ring!Init, RingInv, Apart, Restorable
<1>2. Ring!Held = <<>>
  BY DEF Ring!Init, Ring!Held
<1> QED
  BY <1>1, <1>2 DEF Ring!Init, Ring!Queue!Init

LEMMA HeldNow ==
  ASSUME RingArray, RingInv
  PROVE  /\ Ring!Held = Stretch(m_buffer, m_total, m_read, m_size)
         /\ Ring!Held \in Seq(Nat) /\ Len(Ring!Held) = m_size
<1>0. /\ m_total \in Nat /\ m_total > 0 /\ m_buffer \in [0..(m_total - 1) -> Nat] /\ m_read \in 0..m_total
      /\ m_size \in Nat /\ m_size <= m_total
  BY DEF RingArray, RingInv
<1>1. Ring!Held = Stretch(m_buffer, m_total, m_read, m_size)
  <2>1. HeldFits(m_buffer, m_read, m_size)
    BY <1>0 DEF HeldFits
  <2>2. HeldMatches(m_buffer, m_read, m_size)
    BY <2>1, HeldIs, Zenon
  <2> QED
    BY <2>2, Zenon DEF HeldMatches, HeldFrom, Ring!Held
<1>2. /\ Stretch(m_buffer, m_total, m_read, m_size) \in Seq(Nat)
      /\ Len(Stretch(m_buffer, m_total, m_read, m_size)) = m_size
  BY <1>0, StretchIs
<1> QED
  BY <1>1, <1>2

\* What put writes, and where it goes on.
LEMMA PutWrites ==
  ASSUME RingArray, RingInv, NEW k \in Nat, k <= m_total
  PROVE  /\ Ring!Filled(k) \in [0..(m_total - 1) -> Nat]
         /\ WrittenAt(m_buffer, Ring!Filled(k), m_total, m_write, k, offered)
<1> DEFINE cell(i) == Slot(m_total, m_write, i - 1)
<1>0. m_total \in Nat /\ m_total > 0 /\ m_write \in 0..m_total /\ offered \in Nat
  BY DEF RingArray, RingInv
<1>1. \A i \in 1..k : Ring!Cell(m_write, k, i) = cell(i) /\ cell(i) \in 0..(m_total - 1)
  <2> TAKE i \in 1..k
  <2>1. k \in 0..m_total
    OBVIOUS
  <2>2. Ring!Cell(m_write, k, i) = cell(i)
    BY <1>0, <2>1, CellIsSlot
  <2>3. cell(i) \in 0..(m_total - 1)
    BY <1>0 DEF Slot
  <2> QED
    BY <2>2, <2>3, Zenon
<1>2. \A i, j \in 1..k : cell(i) = cell(j) => i = j
  BY <1>0 DEF Slot
<1> HIDE DEF cell
<1>3. ASSUME NEW i \in 1..k PROVE Ring!Filled(k)[cell(i)] = offered + i
  <2> DEFINE P(j) == Ring!Cell(m_write, k, j) = cell(i)
             c == CHOOSE j \in 1..k : P(j)
  <2>1. \E j \in 1..k : P(j)
    BY <1>1, Zenon
  <2>2. c \in 1..k /\ P(c)
    BY <2>1, Zenon
  <2>3. c = i
    BY <1>1, <1>2, <2>2, Zenon
  <2>4. Ring!Filled(k)[cell(i)] = offered + c
    BY <1>1, <2>1, Zenon DEF Ring!Filled
  <2> QED
    BY <2>3, <2>4, Zenon
<1>4. ASSUME NEW p \in 0..(m_total - 1), \A i \in 1..k : cell(i) # p PROVE Ring!Filled(k)[p] = m_buffer[p]
  BY <1>1, <1>4, Zenon DEF Ring!Filled
<1>5. Ring!Filled(k) \in [0..(m_total - 1) -> Nat]
  <2>1. ASSUME NEW p \in 0..(m_total - 1) PROVE Ring!Filled(k)[p] \in Nat
    <3>1. CASE \E i \in 1..k : cell(i) = p
      <4>1. PICK i \in 1..k : cell(i) = p
        BY <3>1, Zenon
      <4>2. offered + i \in Nat
        BY <1>0
      <4> QED
        BY <1>3, <4>1, <4>2, Zenon
    <3>2. CASE \A i \in 1..k : cell(i) # p
      <4>1. m_buffer[p] \in Nat
        BY DEF RingInv
      <4> QED
        BY <1>4, <3>2, <4>1, Zenon
    <3> QED
      BY <3>1, <3>2, Zenon
  <2>2. Ring!Filled(k) = [p \in 0..(m_total - 1) |-> Ring!Filled(k)[p]]
    BY Zenon DEF Ring!Filled
  <2> QED
    BY <2>1, <2>2, Zenon
<1> QED
  BY <1>3, <1>4, <1>5, Zenon DEF cell, WrittenAt

\* A write of k bytes.
LEMMA StepWrite ==
  ASSUME RingArray, RingInv, NEW k \in Nat, m_size + k <= m_total,
         NEW w \in 0..m_total, w \in {m_write + k, m_write + k - m_total}
  PROVE  /\ Apart(m_total, m_read, m_size + k, w)
         /\ Restorable(Ring!Filled(k), m_total, m_read, m_size + k, taken)
         /\ Stretch(Ring!Filled(k), m_total, m_read, m_size + k) =
              Stretch(m_buffer, m_total, m_read, m_size) \o Numbered(offered, k)
<1>0. /\ m_total \in Nat /\ m_total > 0 /\ m_write \in 0..m_total /\ m_read \in 0..m_total
      /\ m_size \in Nat /\ k <= m_total /\ offered \in Nat /\ m_buffer \in [0..(m_total - 1) -> Nat]
      /\ Apart(m_total, m_read, m_size, m_write) /\ Restorable(m_buffer, m_total, m_read, m_size, taken)
      /\ Len(taken) \in Nat
  BY DEF RingArray, RingInv
<1>1. /\ Ring!Filled(k) \in [0..(m_total - 1) -> Nat]
      /\ WrittenAt(m_buffer, Ring!Filled(k), m_total, m_write, k, offered)
  BY <1>0, PutWrites
<1>2. Apart(m_total, m_read, m_size + k, w)
  BY <1>0 DEF Apart
<1>3. Restorable(Ring!Filled(k), m_total, m_read, m_size + k, taken)
  <2> SUFFICES ASSUME NEW j \in 0..(Len(taken) - 1), j < m_total - (m_size + k)
               PROVE  taken[Len(taken) - j] = Ring!Filled(k)[Behind(m_total, m_read, j)]
    BY DEF Restorable
  <2>1. taken[Len(taken) - j] = m_buffer[Behind(m_total, m_read, j)]
    BY <1>0 DEF Restorable
  <2>2. Behind(m_total, m_read, j) \in 0..(m_total - 1)
    BY <1>0 DEF Behind
  <2>3. \A i \in 1..k : Slot(m_total, m_write, i - 1) # Behind(m_total, m_read, j)
    BY <1>0 DEF Slot, Behind, Apart
  <2> QED
    BY <1>1, <2>1, <2>2, <2>3, Zenon DEF WrittenAt
<1>4. Stretch(Ring!Filled(k), m_total, m_read, m_size + k) =
        Stretch(m_buffer, m_total, m_read, m_size) \o Numbered(offered, k)
  <2>1. PutFits(m_buffer, Ring!Filled(k), m_total, m_read, m_write, m_size, k, offered)
    BY <1>0, <1>1, Zenon DEF PutFits
  <2>2. PutAdds(m_buffer, Ring!Filled(k), m_total, m_read, m_size, k, offered)
    BY <2>1, StretchWritten, Zenon
  <2> QED
    BY <2>2, Zenon DEF PutAdds
<1> QED
  BY <1>2, <1>3, <1>4

LEMMA FirstOnes ==
  ASSUME NEW n \in Nat, NEW k \in Nat, k <= n, NEW o \in Nat
  PROVE  SubSeq(Numbered(o, n), 1, k) = Numbered(o, k)
<1>1. PICK s \in Seq(Nat) : s = Numbered(o, n) /\ Len(s) = n /\ \A i \in 1..n : s[i] = o + i
  BY NumberedIs, Zenon
<1>2. PICK p \in Seq(Nat) : p = Numbered(o, k) /\ Len(p) = k /\ \A i \in 1..k : p[i] = o + i
  BY NumberedIs, Zenon
<1>3. /\ SubSeq(s, 1, k) \in Seq(Nat) /\ Len(SubSeq(s, 1, k)) = k
      /\ \A i \in 1..k : SubSeq(s, 1, k)[i] = s[i]
  BY <1>1
<1>4. \A i \in 1..k : s[i] = p[i]
  BY <1>1, <1>2
<1>5. SubSeq(s, 1, k) = p
  BY <1>2, <1>3, <1>4, SeqEqual
<1> QED
  BY <1>1, <1>2, <1>5

LEMMA StepPut ==
  ASSUME RingArray, RingInv, NEW n \in 1..(m_total + 1), Ring!Put(n)
  PROVE  RingInv' /\ Ring!Queue!Next
<1> DEFINE k == IF m_size + n > m_total THEN m_total - m_size ELSE n
<1>0. /\ m_total \in Nat /\ m_total > 0 /\ m_size \in Nat /\ m_size <= m_total /\ offered \in Nat
      /\ m_read \in 0..m_total /\ m_write \in 0..m_total
  BY DEF RingArray, RingInv
<1>1. k \in Nat /\ m_size + k <= m_total /\ k <= n /\ k <= m_total /\ n \in Nat
  BY <1>0
<1>2. /\ m_write' = IF k > 0 THEN Ring!Moved(m_write, k) ELSE m_write
      /\ m_size' = m_size + k /\ offered' = offered + n /\ offered + n <= MaxOffered
      /\ m_read' = m_read /\ taken' = taken /\ m_buffer' = Ring!Filled(k)
  BY Zenon DEF Ring!Put
<1>3. k = Ring!Queue!AtMost(n, m_total - m_size)
  BY <1>0 DEF Ring!Queue!AtMost
<1> HIDE DEF k
<1>4. m_write' \in 0..m_total /\ m_write' \in {m_write + k, m_write + k - m_total}
  <2>1. /\ Ring!Moved(m_write, k) \in 0..m_total
        /\ Ring!Moved(m_write, k) \in {m_write + k, m_write + k - m_total}
    <3>1. MoveFits(m_write, k)
      BY <1>0, <1>1 DEF MoveFits
    <3> QED
      BY <3>1, MovedOn, Zenon DEF Moves
  <2> QED
    BY <1>0, <1>1, <1>2, <2>1
<1>5. /\ Apart(m_total, m_read, m_size + k, m_write')
      /\ Restorable(Ring!Filled(k), m_total, m_read, m_size + k, taken)
      /\ Stretch(Ring!Filled(k), m_total, m_read, m_size + k) =
           Stretch(m_buffer, m_total, m_read, m_size) \o Numbered(offered, k)
  BY <1>1, <1>4, StepWrite, Zenon
<1>6. Ring!Filled(k) \in [0..(m_total - 1) -> Nat]
  BY <1>1, PutWrites
<1>7. RingInv'
  <2>1. m_size + k \in 0..m_total /\ offered + n \in Nat
    BY <1>0, <1>1
  <2> QED
    BY <1>0, <1>2, <1>4, <1>5, <1>6, <2>1, Zenon DEF RingInv
<1>8. Ring!Queue!Next
  <2> DEFINE data == Numbered(offered, n)
  <2>1. Ring!Held' = Stretch(Ring!Filled(k), m_total, m_read, m_size + k)
    <3>1. m_size + k \in Nat
      BY <1>0, <1>1
    <3>2. HeldFits(Ring!Filled(k), m_read, m_size + k)
      BY <1>0, <1>1, <1>2, <1>6, <3>1 DEF HeldFits
    <3>3. HeldMatches(Ring!Filled(k), m_read, m_size + k)
      BY <3>2, HeldIs, Zenon
    <3>4. m_buffer' = Ring!Filled(k) /\ m_read' = m_read /\ m_size' = m_size + k
      BY <1>0, <1>1, <1>2, <1>6
    <3> QED
      BY <3>3, <3>4, Zenon DEF HeldMatches, HeldFrom, Ring!Held
  <2>2. Len(data) = n /\ SubSeq(data, 1, k) = Numbered(offered, k)
    BY <1>0, <1>1, NumberedIs, FirstOnes
  <2> HIDE DEF data
  <2>3. Ring!Queue!AtMost(Len(data), Ring!Queue!Room) = k
    BY <1>3, <2>2, HeldNow, Zenon DEF Ring!Queue!Room
  <2>4. Ring!Queue!Put(data)
    BY <1>2, <1>5, <2>1, <2>2, <2>3, HeldNow, Zenon DEF Ring!Queue!Put
  <2>5. offered \in 0..MaxOffered
    BY DEF RingArray, RingInv
  <2>6. data \in {[i \in 1..m |-> o + i] : m \in 1..(m_total + 1), o \in 0..MaxOffered}
    BY <2>5 DEF data, Numbered
  <2> QED
    BY <2>4, <2>6 DEF Ring!Queue!Next
<1> QED
  BY <1>7, <1>8

\* The bytes that go out, and what is left of the array when they are erased.
LEMMA BytesAre ==
  ASSUME RingArray, RingInv, NEW k \in Nat, k <= m_total
  PROVE  Ring!Bytes(k) = Stretch(m_buffer, m_total, m_read, k)
<1>0. m_total \in Nat /\ m_total > 0 /\ m_read \in 0..m_total /\ k \in 0..m_total
  BY DEF RingArray, RingInv
<1>1. \A i \in 1..k : Ring!Cell(m_read, k, i) = Slot(m_total, m_read, i - 1)
  BY <1>0, CellIsSlot
<1> QED
  BY <1>1, Zenon DEF Ring!Bytes, Stretch

LEMMA EmptiedIs ==
  ASSUME RingArray, RingInv, NEW k \in Nat, NEW m \in Nat, k + m <= m_total
  PROVE  /\ Ring!Emptied(k) \in [0..(m_total - 1) -> Nat]
         /\ LeftAlone(m_buffer, Ring!Emptied(k), m_total, m_read, k, m)
<1>0. m_total \in Nat /\ m_total > 0 /\ m_read \in 0..m_total /\ k \in 0..m_total
  BY DEF RingArray, RingInv
<1>1. \A i \in 1..k : Ring!Cell(m_read, k, i) = Slot(m_total, m_read, i - 1)
  BY <1>0, CellIsSlot
<1>2. m_buffer \in [0..(m_total - 1) -> Nat]
  BY DEF RingInv
<1>3. Ring!Emptied(k) \in [0..(m_total - 1) -> Nat]
  BY <1>2 DEF Ring!Emptied
<1>4. ASSUME NEW i \in 1..m
      PROVE  Ring!Emptied(k)[Slot(m_total, m_read, k + i - 1)] = m_buffer[Slot(m_total, m_read, k + i - 1)]
  <2>1. Slot(m_total, m_read, k + i - 1) \in 0..(m_total - 1)
    BY <1>0 DEF Slot
  <2>2. \A j \in 1..k : Slot(m_total, m_read, j - 1) # Slot(m_total, m_read, k + i - 1)
    BY <1>0 DEF Slot
  <2> QED
    BY <1>1, <2>1, <2>2, Zenon DEF Ring!Emptied
<1> QED
  BY <1>3, <1>4, Zenon DEF LeftAlone

LEMMA TakenRestorable ==
  ASSUME NEW t \in Nat, t > 0, NEW b \in [0..(t - 1) -> Nat], NEW r \in 0..t, NEW q \in 0..t,
         NEW k \in Nat, NEW m \in Nat, k + m <= t, q \in {r + k, r + k - t},
         NEW s \in Seq(Nat), Restorable(b, t, r, k + m, s)
  PROVE  /\ s \o Stretch(b, t, r, k) \in Seq(Nat)
         /\ Restorable(b, t, q, m, s \o Stretch(b, t, r, k))
<1>1. k <= t /\ k + m \in Nat
  OBVIOUS
<1>2. PICK first \in Seq(Nat) : /\ first = Stretch(b, t, r, k) /\ Len(first) = k
                               /\ \A i \in 1..k : first[i] = b[Slot(t, r, i - 1)]
  BY <1>1, StretchIs
<1>3. PICK l \in Nat : l = Len(s)
  OBVIOUS
<1>4. /\ s \o first \in Seq(Nat) /\ Len(s \o first) = l + k
      /\ \A i \in 1..l : (s \o first)[i] = s[i]
      /\ \A i \in 1..k : (s \o first)[l + i] = first[i]
  <2>1. Len(first) = k
    BY <1>2, Zenon
  <2> QED
    BY <1>3, <2>1, Joined
<1>5. ASSUME NEW j \in 0..(l + k - 1), j < t - m PROVE (s \o first)[l + k - j] = b[Behind(t, q, j)]
  <2>1. CASE j < k
    <3>1. PICK i \in 1..k : i = k - j /\ l + k - j = l + i
      BY <2>1
    <3>2. Behind(t, q, j) = Slot(t, r, i - 1)
      BY <2>1, <3>1 DEF Behind, Slot
    <3>3. (s \o first)[l + i] = first[i] /\ first[i] = b[Slot(t, r, i - 1)]
      BY <1>2, <1>4, Zenon
    <3> QED
      BY <3>1, <3>2, <3>3, Zenon
  <2>2. CASE j >= k
    <3>1. PICK i \in 0..(l - 1) : i = j - k /\ l + k - j = l - i /\ i < t - (k + m)
      BY <1>5, <2>2
    <3>2. Behind(t, q, j) = Behind(t, r, i)
      BY <1>5, <2>2, <3>1 DEF Behind
    <3>3. s[l - i] = b[Behind(t, r, i)]
      BY <1>3, <3>1 DEF Restorable
    <3>4. l - i \in 1..l
      OBVIOUS
    <3>5. (s \o first)[l - i] = s[l - i]
      BY <1>4, <3>4, Zenon
    <3> QED
      BY <3>1, <3>2, <3>3, <3>5, Zenon
  <2>3. j < k \/ j >= k
    OBVIOUS
  <2> QED
    BY <2>1, <2>2, <2>3, Zenon
<1>6. Restorable(b, t, q, m, s \o first)
  <2>1. Len(s \o first) = l + k
    BY <1>4
  <2>2. \A j \in 0..(l + k - 1) : j < t - m => (s \o first)[l + k - j] = b[Behind(t, q, j)]
    BY <1>5, Zenon
  <2> QED
    BY <2>1, <2>2 DEF Restorable
<1> QED
  BY <1>2, <1>4, <1>6, Zenon

\* The first k bytes held go out.
TakesFirst(k) ==
  /\ m_size' = m_size - k
  /\ m_read' \in 0..m_total /\ m_read' \in {m_read + k, m_read + k - m_total}
  /\ m_buffer' \in [0..(m_total - 1) -> Nat]
  /\ LeftAlone(m_buffer, m_buffer', m_total, m_read, k, m_size - k)
  /\ \/ taken' = taken \o Ring!Bytes(k) /\ m_buffer' = m_buffer
     \/ taken' = <<>>
  /\ UNCHANGED <<m_write, offered>>

LEMMA StepTake ==
  ASSUME RingArray, RingInv, NEW k \in Nat, k <= m_size, TakesFirst(k)
  PROVE  RingInv' /\ Ring!Queue!Get(k)
<1>0. /\ m_total \in Nat /\ m_total > 0 /\ m_write \in 0..m_total /\ m_read \in 0..m_total
      /\ m_size \in Nat /\ m_size <= m_total /\ offered \in Nat /\ offered <= MaxOffered
      /\ Apart(m_total, m_read, m_size, m_write)
  BY DEF RingArray, RingInv
<1>1. PICK m \in Nat : m = m_size - k /\ m_size = k + m /\ k + m <= m_total /\ k <= m_total
  BY <1>0
<1>2. PICK q \in 0..m_total : q = m_read' /\ q \in {m_read + k, m_read + k - m_total}
  BY DEF TakesFirst
<1>3. PICK c \in [0..(m_total - 1) -> Nat] : c = m_buffer' /\ LeftAlone(m_buffer, c, m_total, m_read, k, m)
  BY <1>1, Zenon DEF TakesFirst
<1>4. m_buffer \in [0..(m_total - 1) -> Nat] /\ taken \in Seq(Nat)
      /\ Restorable(m_buffer, m_total, m_read, k + m, taken)
  BY <1>1, Zenon DEF RingInv
<1>5. /\ Stretch(c, m_total, q, m) = SubSeq(Stretch(m_buffer, m_total, m_read, k + m), k + 1, k + m)
      /\ Stretch(m_buffer, m_total, m_read, k) = SubSeq(Stretch(m_buffer, m_total, m_read, k + m), 1, k)
  <2>1. TakeFits(m_buffer, c, m_total, m_read, q, k, m)
    BY <1>0, <1>1, <1>2, <1>3, <1>4, Zenon DEF TakeFits
  <2>2. TakeLeaves(m_buffer, c, m_total, m_read, q, k, m)
    BY <2>1, StretchTaken, Zenon
  <2> QED
    BY <2>2, Zenon DEF TakeLeaves
<1>6. Apart(m_total, q, m, m_write)
  <2>1. q \in 0..m_total /\ q \in {m_read + k, m_read + k - m_total}
    BY <1>2, Zenon
  <2>2. m_size = k + m
    BY <1>1, Zenon
  <2> QED
    BY <1>0, <2>1, <2>2 DEF Apart
<1>7. taken' \in Seq(Nat) /\ Restorable(c, m_total, q, m, taken')
  <2>1. CASE taken' = taken \o Ring!Bytes(k) /\ m_buffer' = m_buffer
    <3>1. taken' = taken \o Stretch(m_buffer, m_total, m_read, k) /\ c = m_buffer
      BY <1>1, <1>3, <2>1, BytesAre
    <3>2. /\ taken \o Stretch(m_buffer, m_total, m_read, k) \in Seq(Nat)
          /\ Restorable(m_buffer, m_total, q, m, taken \o Stretch(m_buffer, m_total, m_read, k))
      BY <1>0, <1>1, <1>2, <1>4, TakenRestorable
    <3> QED
      BY <3>1, <3>2, Zenon
  <2>2. CASE taken' = <<>>
    BY <2>2 DEF Restorable
  <2> QED
    BY <2>1, <2>2 DEF TakesFirst
<1>8. RingInv'
  <2>1. m_size' = m /\ m_write' = m_write /\ offered' = offered /\ m \in 0..m_total
    BY <1>0, <1>1 DEF TakesFirst
  <2> QED
    BY <1>0, <1>2, <1>3, <1>6, <1>7, <2>1, Zenon DEF RingInv
<1>9. Ring!Queue!Get(k)
  <2>1. Ring!Held' = Stretch(c, m_total, q, m)
    <3>1. m_size' = m /\ m <= m_total
      BY <1>0, <1>1 DEF TakesFirst
    <3>2. HeldFits(c, q, m)
      BY <1>2, <1>3, <3>1 DEF HeldFits
    <3>3. HeldMatches(c, q, m)
      BY <3>2, HeldIs, Zenon
    <3>4. m_buffer' = c /\ m_read' = q
      BY <1>2, <1>3
    <3> QED
      BY <3>1, <3>3, <3>4, Zenon DEF HeldMatches, HeldFrom, Ring!Held
  <2>2. Ring!Held = Stretch(m_buffer, m_total, m_read, k + m) /\ Len(Ring!Held) = k + m
    BY <1>1, HeldNow
  <2>3. Ring!Queue!AtMost(k, Len(Ring!Held)) = k
    BY <1>1, <2>2 DEF Ring!Queue!AtMost
  <2>4. \/ taken' = taken \o SubSeq(Ring!Held, 1, k)
        \/ taken' = <<>>
    BY <1>1, <1>5, <2>2, BytesAre DEF TakesFirst
  <2>5. Ring!Held' = SubSeq(Ring!Held, k + 1, Len(Ring!Held))
    BY <1>5, <2>1, <2>2, Zenon
  <2> QED
    BY <2>3, <2>4, <2>5, Zenon DEF Ring!Queue!Get
<1> QED
  BY <1>8, <1>9

LEMMA StepGet ==
  ASSUME RingArray, RingInv, NEW n \in 1..(m_total + 1), NEW clear \in BOOLEAN, Ring!Get(n, clear)
  PROVE  RingInv' /\ Ring!Queue!Next
<1>0. /\ m_total \in Nat /\ m_total > 0 /\ m_read \in 0..m_total
      /\ m_size \in Nat /\ m_size <= m_total /\ m_buffer \in [0..(m_total - 1) -> Nat]
  BY DEF RingArray, RingInv
<1>1. PICK k \in Nat : k = Ring!Least(n, m_size) /\ k <= m_size /\ k <= m_total
  BY <1>0 DEF Ring!Least
<1>2. /\ m_buffer' = IF clear THEN Ring!Emptied(k) ELSE m_buffer
      /\ m_read' = IF k > 0 THEN Ring!Moved(m_read, k) ELSE m_read
      /\ m_size' = m_size - k
      /\ taken' = IF clear THEN <<>> ELSE taken \o Ring!Bytes(k)
      /\ UNCHANGED <<m_write, offered>>
  BY <1>1, Zenon DEF Ring!Get
<1>3. m_read' \in 0..m_total /\ m_read' \in {m_read + k, m_read + k - m_total}
  <2>1. /\ Ring!Moved(m_read, k) \in 0..m_total
        /\ Ring!Moved(m_read, k) \in {m_read + k, m_read + k - m_total}
    <3>1. k \in 0..m_total
      BY <1>0, <1>1
    <3>2. MoveFits(m_read, k)
      BY <1>0, <3>1 DEF MoveFits
    <3> QED
      BY <3>2, MovedOn, Zenon DEF Moves
  <2> QED
    BY <1>0, <1>1, <1>2, <2>1
<1>4. m_buffer' \in [0..(m_total - 1) -> Nat] /\ LeftAlone(m_buffer, m_buffer', m_total, m_read, k, m_size - k)
  <2>1. m_size - k \in Nat /\ k + (m_size - k) <= m_total
    BY <1>0, <1>1
  <2>2. /\ Ring!Emptied(k) \in [0..(m_total - 1) -> Nat]
        /\ LeftAlone(m_buffer, Ring!Emptied(k), m_total, m_read, k, m_size - k)
    BY <2>1, EmptiedIs
  <2>3. LeftAlone(m_buffer, m_buffer, m_total, m_read, k, m_size - k)
    BY DEF LeftAlone
  <2> QED
    BY <1>0, <1>2, <2>2, <2>3, Zenon
<1>5. TakesFirst(k)
  BY <1>2, <1>3, <1>4, Zenon DEF TakesFirst
<1>6. RingInv' /\ Ring!Queue!Get(k)
  BY <1>1, <1>5, StepTake
<1>7. k \in 0..m_total
  BY <1>0, <1>1
<1> QED
  BY <1>6, <1>7 DEF Ring!Queue!Next

LEMMA StepRead ==
  ASSUME RingArray, RingInv, NEW n \in 1..(m_total + 1), Ring!Read(n)
  PROVE  RingInv' /\ Ring!Queue!Next
<1>0. /\ m_total \in Nat /\ m_total > 0 /\ m_read \in 0..m_total
      /\ m_size \in Nat /\ m_size <= m_total /\ m_buffer \in [0..(m_total - 1) -> Nat]
  BY DEF RingArray, RingInv
<1>1. PICK k \in Nat : k = Ring!First(m_read, Ring!Least(n, m_size)) /\ k <= m_size
  BY <1>0 DEF Ring!Least, Ring!First, Ring!End
<1>2. /\ m_read + k = m_total /\ m_read' = 0 /\ m_size' = m_size - k /\ taken' = taken \o Ring!Bytes(k)
      /\ UNCHANGED <<m_buffer, m_write, offered>>
  BY <1>1, Zenon DEF Ring!Read
<1>3. m_read' \in 0..m_total /\ m_read' \in {m_read + k, m_read + k - m_total}
  BY <1>0, <1>1, <1>2
<1>4. LeftAlone(m_buffer, m_buffer, m_total, m_read, k, m_size - k)
  BY DEF LeftAlone
<1>5. TakesFirst(k)
  BY <1>0, <1>2, <1>3, <1>4, Zenon DEF TakesFirst
<1>6. RingInv' /\ Ring!Queue!Get(k)
  BY <1>1, <1>5, StepTake
<1>7. k \in 0..m_total
  BY <1>0, <1>1
<1> QED
  BY <1>6, <1>7 DEF Ring!Queue!Next

LEMMA StepUnget ==
  ASSUME RingArray, RingInv, NEW n \in 1..(m_total + 1), Ring!Unget(n)
  PROVE  RingInv' /\ Ring!Queue!Next
<1>0. /\ m_total \in Nat /\ m_total > 0 /\ m_read \in 0..m_total /\ m_write \in 0..m_total
      /\ m_size \in Nat /\ m_size <= m_total /\ Apart(m_total, m_read, m_size, m_write)
  BY DEF RingArray, RingInv
<1>1. PICK k \in Nat : k = IF n + m_size > m_total THEN m_total - m_size ELSE n
  BY <1>0
<1>2. m_size + k <= m_total /\ k <= n /\ k <= m_total
  BY <1>0, <1>1
<1>3. /\ n <= Len(taken) /\ m_size' = m_size + k
      /\ m_read' = IF m_read >= k THEN m_read - k ELSE m_total - (k - m_read)
      /\ taken' = SubSeq(taken, 1, Len(taken) - k)
      /\ UNCHANGED <<m_buffer, m_write, offered>>
  BY <1>1, Zenon DEF Ring!Unget
<1>4. taken \in Seq(Nat) /\ Len(taken) \in Nat
  BY DEF RingInv
<1>5. PICK a \in Nat : a = Len(taken) - k /\ Len(taken) = a + k
  <2>1. n <= Len(taken)
    BY <1>3, Zenon
  <2> QED
    BY <1>2, <1>4, <2>1
<1>6. PICK q \in 0..m_total : q = m_read' /\ q \in {m_read - k, m_read - k + m_total}
  <2>1. m_read' = IF m_read >= k THEN m_read - k ELSE m_total - (k - m_read)
    BY <1>3, Zenon
  <2> QED
    BY <1>0, <1>2, <2>1
<1>7. q \in {m_read - k, m_read - k + m_total}
  BY <1>6, Zenon
<1>8. Apart(m_total, q, m_size + k, m_write)
  BY <1>0, <1>2, <1>7 DEF Apart
<1>9. m_buffer \in [0..(m_total - 1) -> Nat] /\ Restorable(m_buffer, m_total, m_read, m_size, taken)
  BY DEF RingInv
<1>10. taken' \in Seq(Nat) /\ Restorable(m_buffer, m_total, q, m_size + k, taken')
  <2>1. /\ SubSeq(taken, 1, a) \in Seq(Nat) /\ Len(SubSeq(taken, 1, a)) = a
        /\ \A i \in 1..a : SubSeq(taken, 1, a)[i] = taken[i]
    <3>1. a <= Len(taken)
      BY <1>5
    <3> QED
      BY <1>4, <3>1
  <2>2. taken' = SubSeq(taken, 1, a)
    BY <1>3, <1>5, Zenon
  <2>3. ASSUME NEW j \in 0..(a - 1), j < m_total - (m_size + k)
        PROVE  SubSeq(taken, 1, a)[a - j] = m_buffer[Behind(m_total, q, j)]
    <3>1. j + k \in 0..(a + k - 1) /\ j + k < m_total - m_size /\ a + k - (j + k) = a - j /\ a - j \in 1..a
      BY <1>0, <2>3
    <3>2. Behind(m_total, q, j) = Behind(m_total, m_read, j + k)
      BY <1>0, <1>2, <1>7, <2>3 DEF Behind
    <3>3. taken[a + k - (j + k)] = m_buffer[Behind(m_total, m_read, j + k)]
      BY <1>5, <1>9, <3>1 DEF Restorable
    <3>4. SubSeq(taken, 1, a)[a - j] = taken[a - j]
      BY <2>1, <3>1, Zenon
    <3> QED
      BY <3>1, <3>2, <3>3, <3>4, Zenon
  <2>4. Restorable(m_buffer, m_total, q, m_size + k, SubSeq(taken, 1, a))
    BY <2>1, <2>3 DEF Restorable
  <2> QED
    BY <2>1, <2>2, <2>4, Zenon
<1>11. RingInv'
  <2>1. m_size' = m_size + k /\ m_size + k \in 0..m_total /\ UNCHANGED <<m_buffer, m_write, offered>>
    BY <1>0, <1>2, <1>3
  <2>2. offered \in Nat /\ offered <= MaxOffered
    BY DEF RingInv
  <2> QED
    BY <1>0, <1>6, <1>8, <1>9, <1>10, <2>1, <2>2, Zenon DEF RingInv
<1>12. Ring!Queue!Unget(k)
  <2>1. Ring!Held' = Stretch(m_buffer, m_total, q, m_size + k)
    <3>1. PICK h \in Nat : h = m_size + k /\ h <= m_total
      BY <1>0, <1>2
    <3>2. m_size' = h /\ m_read' = q /\ m_buffer' = m_buffer
      BY <1>3, <1>6, <3>1, Zenon
    <3>3. m_buffer \in [0..(m_total - 1) -> Nat] /\ q \in 0..m_total
      BY <1>0, <1>2, <1>7, <1>9, Zenon
    <3>4. HeldFits(m_buffer, q, h)
      BY <3>1, <3>3, Zenon DEF HeldFits
    <3>5. HeldMatches(m_buffer, q, h)
      BY <3>4, HeldIs, Zenon
    <3> QED
      BY <3>1, <3>2, <3>5, Zenon DEF HeldMatches, HeldFrom, Ring!Held
  <2>2. RestoreFits(m_buffer, m_total, m_read, q, m_size, k, taken, a)
    BY <1>0, <1>2, <1>4, <1>5, <1>7, <1>9, Zenon DEF RestoreFits
  <2>3. RestoreAdds(m_buffer, m_total, m_read, q, m_size, k, taken, a)
    BY <2>2, StretchRestored, Zenon
  <2>4. Ring!Held' = SubSeq(taken, a + 1, a + k) \o Ring!Held
    BY <2>1, <2>3, HeldNow, Zenon DEF RestoreAdds
  <2>5. Ring!Queue!AtMost(k, Ring!Queue!Room) = k
    BY <1>0, <1>2, HeldNow DEF Ring!Queue!AtMost, Ring!Queue!Room
  <2>6. k <= Len(taken)
    BY <1>2, <1>3, <1>4
  <2>7. taken' = SubSeq(taken, 1, Len(taken) - k) /\ a = Len(taken) - k /\ a + k = Len(taken)
    BY <1>3, <1>5
  <2> QED
    BY <2>4, <2>5, <2>6, <2>7, Zenon DEF Ring!Queue!Unget
<1>13. k \in 0..m_total
  BY <1>0, <1>2
<1> QED
  BY <1>11, <1>12, <1>13 DEF Ring!Queue!Next

LEMMA StepClear ==
  ASSUME RingArray, RingInv, Ring!Clear
  PROVE  RingInv' /\ Ring!Queue!Next
<1>1. RingInv'
  BY DEF RingArray, RingInv, Ring!Clear, Apart, Restorable
<1>2. Ring!Held' = <<>>
  BY DEF Ring!Clear, Ring!Held
<1> QED
  BY <1>1, <1>2 DEF Ring!Clear, Ring!Queue!Clear, Ring!Queue!Next

LEMMA StepRing == RingArray /\ RingInv /\ [Ring!Next]_(Ring!vars) => RingInv' /\ [Ring!Queue!Next]_(Ring!Queue!vars)
<1> SUFFICES ASSUME RingArray, RingInv, [Ring!Next]_(Ring!vars)
             PROVE  RingInv' /\ [Ring!Queue!Next]_(Ring!Queue!vars)
  OBVIOUS
<1>1. CASE UNCHANGED Ring!vars
  <2>1. RingInv'
    BY <1>1 DEF Ring!vars, RingInv
  <2>2. UNCHANGED Ring!Queue!vars
    BY <1>1 DEF Ring!vars, Ring!Queue!vars, Ring!Held
  <2> QED
    BY <2>1, <2>2
<1>2. CASE Ring!Next
  <2>1. ASSUME NEW n \in 1..(m_total + 1),
               Ring!Put(n) \/ Ring!Unget(n) \/ Ring!Read(n) \/ \E clear \in BOOLEAN : Ring!Get(n, clear)
        PROVE  RingInv' /\ Ring!Queue!Next
    BY <2>1, StepPut, StepUnget, StepRead, StepGet, Zenon
  <2>2. RingInv' /\ Ring!Queue!Next
    BY <1>2, <2>1, StepClear, Zenon DEF Ring!Next
  <2> QED
    BY <2>2
<1> QED
  BY <1>1, <1>2

\* What the ring buffer gives out is what was put in, in order and without a
\* gap, and what unget puts back is what was given out last, for every size of
\* the array and wherever its two positions stand.
THEOREM ImplementsRingQueue ==
  ASSUME RingArray
  PROVE  Ring!Spec => Ring!RingIsQueue
<1>1. Ring!Init => RingInv /\ Ring!Queue!Init
  BY InitRing
<1>2. RingInv /\ [Ring!Next]_(Ring!vars) => RingInv'
  BY StepRing
<1>3. RingInv /\ [Ring!Next]_(Ring!vars) => [Ring!Queue!Next]_(Ring!Queue!vars)
  BY StepRing
<1> QED
  BY <1>1, <1>2, <1>3, PTL DEF Ring!Spec, Ring!RingIsQueue, Ring!Queue!Spec
-----------------------------------------------------------------------------
(* The stream session. *)

Roomy == Rooms \subseteq Nat \ {0}

Counts == arrived \in Nat /\ received \in Nat /\ received <= arrived

\* As long as no change was overwritten, the flag for bytes is set exactly while
\* dataReceived has something to read or is about to take it back, and what the
\* run loop has loaded to take it back has it set.
Reading ==
  /\ loop \in {"idle", "setSpace", "setBytes"} => Stream!HasBytes \notin m_status
  /\ loop \in {"read", "ask", "more", "flip"} => Stream!HasBytes \in m_status
  /\ loop \in {"idle", "setSpace", "ask", "more", "flip"} => ~told
  /\ loop = "test" /\ Stream!HasBytes \in m_status => Stream!available > 0
  /\ loop = "test" /\ Stream!HasBytes \notin m_status => ~told
  /\ loop \in {"read", "setBytes"} => Stream!available > 0
  /\ loop = "flip" => Stream!HasBytes \in reg
ReadingInv == Counts /\ (~lost => Reading)

LEMMA InitReading == Stream!Init => ReadingInv
  BY DEF Stream!Init, ReadingInv, Counts, Reading, Stream!available, Stream!HasBytes

LEMMA StepCounts == Roomy /\ Counts /\ [Stream!Next]_(Stream!vars) => Counts'
<1> SUFFICES ASSUME Roomy, Counts, [Stream!Next]_(Stream!vars) PROVE Counts'
  OBVIOUS
<1> USE DEF Counts
<1>1. CASE Stream!Arrive
  BY <1>1 DEF Stream!Arrive
<1>2. ASSUME NEW room \in Rooms, Stream!Read(room) PROVE Counts'
  BY <1>2 DEF Stream!Read, Stream!available, Roomy
<1>3. CASE UNCHANGED <<arrived, received>>
  BY <1>3
<1>4. CASE Stream!Close \/ Stream!OpenCompleted \/ Stream!EndOrError \/ Stream!HasBytesAvailable \/ Stream!ReadNothing
  BY <1>3, <1>4 DEF Stream!Close, Stream!OpenCompleted, Stream!EndOrError, Stream!HasBytesAvailable,
                    Stream!ReadNothing
<1>5. CASE Stream!HasSpaceAvailable \/ Stream!SetBytes \/ Stream!SetSpace \/ Stream!TestBytes
          \/ Stream!AskShort \/ Stream!AskMore \/ Stream!ReadReload \/ Stream!ReadFlip
  BY <1>3, <1>5 DEF Stream!HasSpaceAvailable, Stream!SetBytes, Stream!SetSpace, Stream!TestBytes,
     Stream!AskShort, Stream!AskMore, Stream!ReadReload, Stream!ReadFlip, Stream!streamVars
<1>6. CASE Stream!Write \/ Stream!WriteReload \/ Stream!WriteFlip
  BY <1>3, <1>6 DEF Stream!Write, Stream!WriteReload, Stream!WriteFlip, Stream!streamVars
<1>7. CASE UNCHANGED Stream!vars
  BY <1>3, <1>7 DEF Stream!vars, Stream!streamVars
<1> QED
  BY <1>1, <1>2, <1>4, <1>5, <1>6, <1>7 DEF Stream!Next

\* What a store that overwrites nothing leaves of the flags.
LEMMA StoreKeeps ==
  ASSUME NEW value, NEW loaded, Stream!Store(value, loaded), ~lost'
  PROVE  ~lost /\ loaded = m_status /\ m_status' = value
BY DEF Stream!Store

LEMMA StepReading == Roomy /\ ReadingInv /\ [Stream!Next]_(Stream!vars) => ReadingInv'
<1> SUFFICES ASSUME Roomy, ReadingInv, [Stream!Next]_(Stream!vars) PROVE ReadingInv'
  OBVIOUS
<1>1. Counts /\ Counts'
  BY StepCounts DEF ReadingInv
<1> SUFFICES ASSUME ~lost' PROVE Reading'
  BY <1>1 DEF ReadingInv
\* Steps that do not store the word, and those that do.
<1>2. ASSUME UNCHANGED lost PROVE Reading
  BY <1>2 DEF ReadingInv
<1>3. ASSUME NEW value, NEW loaded, Stream!Store(value, loaded) PROVE Reading /\ loaded = m_status /\ m_status' = value
  BY <1>3, StoreKeeps DEF ReadingInv
<1>4. CASE Stream!Arrive
  <2>1. Reading /\ UNCHANGED <<m_status, told, loop, reg>> /\ Stream!available' = Stream!available + 1
    BY <1>1, <1>2, <1>4 DEF Stream!Arrive, Stream!loopVars, Counts, Stream!available
  <2> QED
    BY <1>1, <1>4, <2>1 DEF Stream!Arrive, Counts, Reading, Stream!available
<1>5. CASE Stream!Close
  <2>1. Reading /\ UNCHANGED <<m_status, told, loop, reg, arrived, received>>
    BY <1>2, <1>5, Zenon DEF Stream!Close, Stream!loopVars
  <2> QED
    BY <2>1 DEF Reading, Stream!available
<1>6. CASE Stream!OpenCompleted \/ Stream!EndOrError
  <2>1. Reading /\ UNCHANGED <<told, loop, reg, arrived, received>> /\ loop = "idle"
    BY <1>2, <1>6, Zenon DEF Stream!OpenCompleted, Stream!EndOrError, Stream!loopVars
  <2>2. m_status' \in {m_status, {Stream!Connected}, {"error"}, {"end"}}
    BY <1>6 DEF Stream!OpenCompleted, Stream!EndOrError
  <2> QED
    BY <2>1, <2>2 DEF Reading, Stream!available, Stream!HasBytes, Stream!Connected
<1>7. CASE Stream!HasBytesAvailable
  <2>1. Reading /\ UNCHANGED <<m_status, arrived, received>> /\ loop = "idle"
        /\ loop' = "setBytes" /\ Stream!available > 0
    BY <1>2, <1>7, Zenon DEF Stream!HasBytesAvailable
  <2> QED
    BY <2>1 DEF Reading, Stream!available
<1>8. CASE Stream!HasSpaceAvailable
  <2>1. Reading /\ UNCHANGED <<m_status, told, arrived, received>> /\ loop = "idle" /\ loop' = "setSpace"
    BY <1>2, <1>8, Zenon DEF Stream!HasSpaceAvailable, Stream!streamVars
  <2> QED
    BY <2>1 DEF Reading, Stream!available
<1>9. CASE Stream!SetBytes
  <2>1. Reading /\ m_status' = m_status \cup {Stream!HasBytes} /\ UNCHANGED <<told, arrived, received>>
        /\ loop = "setBytes" /\ loop' = "test"
    BY <1>3, <1>9, Zenon DEF Stream!SetBytes, Stream!streamVars
  <2> QED
    BY <2>1 DEF Reading, Stream!available
<1>10. CASE Stream!SetSpace
  <2>1. Reading /\ m_status' = m_status \cup {Stream!HasSpace} /\ UNCHANGED <<told, arrived, received>>
        /\ loop = "setSpace" /\ loop' = "idle"
    BY <1>3, <1>10, Zenon DEF Stream!SetSpace, Stream!streamVars
  <2> QED
    BY <2>1 DEF Reading, Stream!available, Stream!HasBytes, Stream!HasSpace
<1>11. CASE Stream!TestBytes
  <2>1. Reading /\ UNCHANGED <<m_status, told, arrived, received>> /\ loop = "test"
        /\ loop' = IF Stream!HasBytes \in m_status THEN "read" ELSE "idle"
    BY <1>2, <1>11, Zenon DEF Stream!TestBytes, Stream!streamVars
  <2> QED
    BY <1>1, <2>1 DEF Reading, Stream!available, Counts
<1>12. ASSUME loop = "read", loop' = "ask", told' = FALSE, UNCHANGED <<m_status, lost>> PROVE Reading'
  <2>1. Reading /\ ~told'
    BY <1>2, <1>12, Zenon
  <2> QED
    BY <1>12, <2>1 DEF Reading
<1>13. ASSUME NEW room \in Rooms, Stream!Read(room) PROVE Reading'
  BY <1>12, <1>13, Zenon DEF Stream!Read
<1>14. CASE Stream!ReadNothing
  BY <1>12, <1>14, Zenon DEF Stream!ReadNothing
<1>15. CASE Stream!AskShort
  <2>1. Reading /\ UNCHANGED <<m_status, told, arrived, received>> /\ loop = "ask"
        /\ \/ loop' = "flip" /\ reg' = m_status
           \/ loop' = "more"
    BY <1>2, <1>15, Zenon DEF Stream!AskShort, Stream!streamVars
  <2> QED
    BY <2>1 DEF Reading, Stream!available
<1>16. CASE Stream!AskMore
  <2>1. Reading /\ UNCHANGED <<m_status, told, arrived, received>> /\ loop = "more"
        /\ \/ loop' = "flip" /\ reg' = m_status
           \/ loop' = "test" /\ Stream!available # 0
    BY <1>2, <1>16, Zenon DEF Stream!AskMore, Stream!streamVars
  <2> QED
    BY <1>1, <2>1 DEF Reading, Stream!available, Counts
<1>17. CASE Stream!ReadReload
  <2>1. Reading /\ UNCHANGED <<m_status, told, arrived, received, loop>> /\ reg' = m_status
    BY <1>2, <1>17, Zenon DEF Stream!ReadReload, Stream!streamVars
  <2> QED
    BY <2>1 DEF Reading, Stream!available
<1>18. CASE Stream!ReadFlip
  <2>1. Reading /\ m_status' = Stream!Flipped(Stream!HasBytes, m_status) /\ UNCHANGED <<told, arrived, received>>
        /\ loop = "flip" /\ loop' \in {"idle", "test"}
    BY <1>3, <1>18 DEF Stream!ReadFlip, Stream!streamVars
  <2> QED
    BY <2>1 DEF Reading, Stream!Flipped, Stream!available
<1>19. CASE Stream!Write \/ Stream!WriteReload
  <2>1. Reading /\ UNCHANGED <<m_status, told, arrived, received, loop, reg>>
    BY <1>2, <1>19, Zenon DEF Stream!Write, Stream!WriteReload, Stream!streamVars, Stream!loopVars
  <2> QED
    BY <2>1 DEF Reading, Stream!available
<1>20. CASE Stream!WriteFlip
  <2>1. Reading /\ m_status' = Stream!Flipped(Stream!HasSpace, m_status)
        /\ UNCHANGED <<told, arrived, received, loop, reg>>
    BY <1>3, <1>20, Zenon DEF Stream!WriteFlip, Stream!streamVars, Stream!loopVars
  <2>2. Stream!HasBytes \in m_status' <=> Stream!HasBytes \in m_status
    BY <2>1 DEF Stream!Flipped, Stream!HasBytes, Stream!HasSpace
  <2> QED
    BY <2>1, <2>2, Zenon DEF Reading, Stream!available
<1>21. CASE UNCHANGED Stream!vars
  <2>1. Reading /\ UNCHANGED <<m_status, told, arrived, received, loop, reg>>
    BY <1>2, <1>21, Zenon DEF Stream!vars, Stream!streamVars, Stream!loopVars
  <2> QED
    BY <2>1 DEF Reading, Stream!available
<1> QED
  BY <1>4, <1>5, <1>6, <1>7, <1>8, <1>9, <1>10, <1>11, <1>13, <1>14, <1>15, <1>16, <1>17, <1>18, <1>19, <1>20,
     <1>21 DEF Stream!Next

\* dataReceived leaves bytes in the stream, or read waits for some, only after
\* write and the run loop have overwritten a change of m_status.
THEOREM ReadingGoesOn ==
  ASSUME Roomy
  PROVE  Stream!Spec => []Stream!OnlyLostUpdatesStopReading
<1>1. Stream!Init => ReadingInv
  BY InitReading
<1>2. ReadingInv /\ [Stream!Next]_(Stream!vars) => ReadingInv'
  BY StepReading
<1>3. ReadingInv => Stream!OnlyLostUpdatesStopReading
  BY DEF ReadingInv, Reading, Counts, Stream!OnlyLostUpdatesStopReading, Stream!Stalled,
     Stream!Blocked, Stream!available
<1> QED
  BY <1>1, <1>2, <1>3, PTL DEF Stream!Spec

-----------------------------------------------------------------------------
(* The geometry transforms. *)

TwoSizes == FrameSizes \subseteq Nat \X Nat /\ BoxSizes \subseteq Nat \X Nat

Modes == {"fit", "fill"}
VideoTypes ==
  /\ bounding \in Nat \X Nat /\ m_prev \in Nat \X Nat /\ m_aspectMode \in Modes
  /\ m_boundingBoxDirty \in BOOLEAN /\ m_positionIsDirty \in BOOLEAN /\ overlap \in BOOLEAN
  /\ setter.field = "height" => setter.to \in BoxSizes

\* A matrix is right when it is what the settings make of the frame.
ScaleRight == m_scale = Video!Scale(bounding, m_aspectMode, m_prev)
PlaceRight == m_matrix = Video!Placed(size)
\* It is kept when a flag, or a setter that is still to set it, says it is not.
ScaleKept == m_boundingBoxDirty \/ ScaleRight \/ setter.field \in {"height", "boxDirty"}
PlaceKept == m_positionIsDirty \/ PlaceRight \/ setter.field \in {"sizeHeight", "sizeDirty"}

\* Where nothing overlaps: no setter is under way during a push, a push has the
\* matrices right which it has passed and the others kept, and a setter of the
\* mode finds the flag it has set.
Orderly ==
  /\ push # "idle" => setter.field = "none"
  /\ push \in {"idle", "aspect"} => ScaleKept
  /\ push \in {"aspectClear", "position", "positionClear", "output"} => ScaleRight
  /\ push \in {"idle", "aspect", "aspectClear", "position"} => PlaceKept
  /\ push \in {"positionClear", "output"} => PlaceRight
  /\ push = "idle" /\ setter.field \in Modes => m_boundingBoxDirty
VideoInv == VideoTypes /\ (~overlap => Orderly)

LEMMA InitVideo == TwoSizes /\ Video!Init => VideoInv
<1> SUFFICES ASSUME TwoSizes, Video!Init PROVE VideoInv
  OBVIOUS
<1>1. setter.field = "none" /\ push = "idle" /\ m_boundingBoxDirty = TRUE /\ m_positionIsDirty = TRUE
      /\ overlap = FALSE /\ m_prev = <<0, 0>> /\ bounding \in BoxSizes /\ m_aspectMode \in Modes
  BY DEF Video!Init, Modes
<1>2. VideoTypes
  BY <1>1 DEF TwoSizes, VideoTypes
<1>3. Orderly
  BY <1>1 DEF Modes, Orderly, ScaleKept, PlaceKept
<1> QED
  BY <1>2, <1>3 DEF VideoInv

LEMMA StepVideoTypes == TwoSizes /\ VideoTypes /\ [Video!Next]_(Video!vars) => VideoTypes'
<1> SUFFICES ASSUME TwoSizes, VideoTypes, [Video!Next]_(Video!vars) PROVE VideoTypes'
  OBVIOUS
<1> USE DEF VideoTypes, Modes
<1>1. ASSUME NEW box \in BoxSizes, Video!setBoundingSize(box) PROVE VideoTypes'
  BY <1>1 DEF TwoSizes, Video!setBoundingSize, Video!Writes, Video!Overlaps, Video!position
<1>2. ASSUME NEW mode \in Modes, Video!setAspectMode(mode) PROVE VideoTypes'
  BY <1>2 DEF Video!setAspectMode, Video!Writes, Video!Overlaps, Video!position
<1>3. ASSUME NEW s \in ImageSizes, Video!setSize(s) PROVE VideoTypes'
  BY <1>3 DEF Video!setSize, Video!Writes, Video!Overlaps, Video!aspect
<1>4. CASE Video!SetHeight
  BY <1>4 DEF TwoSizes, Video!SetHeight, Video!Writes, Video!Overlaps, Video!position
<1>5. CASE Video!setBoundingBoxDirty
  BY <1>5 DEF Video!setBoundingBoxDirty, Video!Writes, Video!Overlaps, Video!position
<1>6. CASE Video!SetMode
  BY <1>6 DEF Video!SetMode, Video!Writes, Video!Overlaps, Video!position
<1>7. CASE Video!SetSizeHeight
  BY <1>7 DEF Video!SetSizeHeight, Video!Writes, Video!Overlaps, Video!aspect
<1>8. CASE Video!SetSizeDirty
  BY <1>8 DEF Video!SetSizeDirty, Video!Writes, Video!Overlaps, Video!aspect
<1>9. ASSUME NEW f \in FrameSizes, Video!Frame(f) PROVE VideoTypes'
  BY <1>9 DEF TwoSizes, Video!Frame, Video!Setting, Video!position
<1>10. CASE Video!AspectCompute
  BY <1>10 DEF Video!AspectCompute, Video!position
<1>11. CASE Video!AspectClear
  BY <1>11 DEF Video!AspectClear, Video!position
<1>12. CASE Video!PositionCompute
  BY <1>12 DEF Video!PositionCompute, Video!aspect
<1>13. CASE Video!PositionClear
  BY <1>13 DEF Video!PositionClear, Video!aspect
<1>14. CASE Video!Output
  BY <1>14 DEF Video!Output, Video!aspect, Video!position
<1>15. CASE UNCHANGED Video!vars
  BY <1>15 DEF Video!vars, Video!aspect, Video!position
<1> QED
  BY <1>1, <1>2, <1>3, <1>4, <1>5, <1>6, <1>7, <1>8, <1>9, <1>10, <1>11, <1>12, <1>13, <1>14, <1>15 DEF Video!Next

LEMMA StepOrderly ==
  ASSUME VideoTypes, ~overlap => Orderly, [Video!Next]_(Video!vars), ~overlap'
  PROVE  Orderly'
<1> USE DEF VideoTypes, Modes, Orderly, ScaleKept, PlaceKept, ScaleRight, PlaceRight
<1>1. ASSUME NEW box \in BoxSizes, Video!setBoundingSize(box) PROVE Orderly'
  BY <1>1 DEF Video!setBoundingSize, Video!Writes, Video!Overlaps, Video!Setting, Video!position
<1>2. ASSUME NEW mode \in Modes, Video!setAspectMode(mode) PROVE Orderly'
  BY <1>2 DEF Video!setAspectMode, Video!Writes, Video!Overlaps, Video!Setting, Video!position
<1>3. ASSUME NEW s \in ImageSizes, Video!setSize(s) PROVE Orderly'
  BY <1>3 DEF Video!setSize, Video!Writes, Video!Overlaps, Video!Setting, Video!aspect
<1>4. CASE Video!SetHeight
  BY <1>4 DEF Video!SetHeight, Video!Writes, Video!Overlaps, Video!position
<1>5. CASE Video!setBoundingBoxDirty
  BY <1>5 DEF Video!setBoundingBoxDirty, Video!Writes, Video!Overlaps, Video!position
<1>6. CASE Video!SetMode
  BY <1>6 DEF Video!SetMode, Video!Writes, Video!Overlaps, Video!position
<1>7. CASE Video!SetSizeHeight
  BY <1>7 DEF Video!SetSizeHeight, Video!Writes, Video!Overlaps, Video!aspect
<1>8. CASE Video!SetSizeDirty
  BY <1>8 DEF Video!SetSizeDirty, Video!Writes, Video!Overlaps, Video!aspect
<1>9. ASSUME NEW f \in FrameSizes, Video!Frame(f) PROVE Orderly'
  BY <1>9 DEF Video!Frame, Video!Setting, Video!position
<1>10. CASE Video!AspectCompute
  BY <1>10 DEF Video!AspectCompute, Video!position
<1>11. CASE Video!AspectClear
  BY <1>11 DEF Video!AspectClear, Video!position
<1>12. CASE Video!PositionCompute
  BY <1>12 DEF Video!PositionCompute, Video!aspect
<1>13. CASE Video!PositionClear
  BY <1>13 DEF Video!PositionClear, Video!aspect
<1>14. CASE Video!Output
  BY <1>14 DEF Video!Output, Video!Settled, Video!Setting, Video!aspect, Video!position
<1>15. CASE UNCHANGED Video!vars
  BY <1>15 DEF Video!vars, Video!aspect, Video!position
<1> QED
  BY <1>1, <1>2, <1>3, <1>4, <1>5, <1>6, <1>7, <1>8, <1>9, <1>10, <1>11, <1>12, <1>13, <1>14, <1>15 DEF Video!Next

\* What the factors of the aspect transform do to a frame.
LEMMA ScaleFits ==
  ASSUME NEW box \in Nat \X Nat, NEW mode \in Modes, NEW f \in Nat \X Nat,
         NEW s, s = Video!Scale(box, mode, f)
  PROVE  /\ \E a \in Video!Axes : s[a][1] = s[a][2]
         /\ \A a \in Video!Axes : IF mode = "fit" THEN s[a][1] <= s[a][2] ELSE s[a][1] >= s[a][2]
         /\ s[1][1] * box[1] * s[2][2] * f[2] = s[2][1] * box[2] * s[1][2] * f[1]
<1>1. PICK b1 \in Nat, b2 \in Nat, f1 \in Nat, f2 \in Nat : box = <<b1, b2>> /\ f = <<f1, f2>>
  OBVIOUS
<1>2. PICK m \in {1, 2} : /\ m = 1 => IF mode = "fit" THEN b1 * f2 < b2 * f1 ELSE b1 * f2 > b2 * f1
                          /\ m = 2 => ~(IF mode = "fit" THEN b1 * f2 < b2 * f1 ELSE b1 * f2 > b2 * f1)
                          /\ s = [a \in {1, 2} |-> <<f[a] * box[m], f[m] * box[a]>>]
  <2>1. Video!Axes = {1, 2}
    BY DEF Video!Axes
  <2> QED
    BY <1>1, <2>1 DEF Video!Scale
<1>3. CASE m = 1
  <2>1. s[1][1] = f1 * b1 /\ s[1][2] = f1 * b1 /\ s[2][1] = f2 * b1 /\ s[2][2] = f1 * b2
    BY <1>1, <1>2, <1>3
  <2> QED
    BY <1>1, <1>2, <1>3, <2>1 DEF Video!Axes, Modes
<1>4. CASE m = 2
  <2>1. s[1][1] = f1 * b2 /\ s[1][2] = f2 * b1 /\ s[2][1] = f2 * b2 /\ s[2][2] = f2 * b2
    BY <1>1, <1>2, <1>4
  <2> QED
    BY <1>1, <1>2, <1>4, <2>1 DEF Video!Axes, Modes
<1> QED
  BY <1>3, <1>4

\* A setting made between two frames shows in the next one: the matrix fits or
\* fills the bounding box without distorting the frame, and the image has the
\* size that was set, whatever the sizes are and whichever fields were set.
THEOREM SettingsShow ==
  ASSUME TwoSizes
  PROVE  Video!Spec => []Video!FrameShowsSetting
<1>1. Video!Init => VideoInv
  BY InitVideo
<1>2. VideoInv /\ [Video!Next]_(Video!vars) => VideoInv'
  <2> SUFFICES ASSUME VideoInv, [Video!Next]_(Video!vars) PROVE VideoInv'
    OBVIOUS
  <2>1. VideoTypes'
    BY StepVideoTypes DEF VideoInv
  <2>2. ~overlap' => Orderly'
    BY StepOrderly DEF VideoInv
  <2> QED
    BY <2>1, <2>2 DEF VideoInv
<1>3. VideoInv => Video!FrameShowsSetting
  <2> SUFFICES ASSUME VideoInv, Video!Undisturbed PROVE Video!FrameShowsSetting
    BY DEF Video!FrameShowsSetting
  <2>1. m_scale = Video!Scale(bounding, m_aspectMode, m_prev) /\ m_matrix = Video!Placed(size)
    BY DEF VideoInv, Orderly, ScaleRight, PlaceRight, Video!Undisturbed
  <2>2. bounding \in Nat \X Nat /\ m_prev \in Nat \X Nat /\ m_aspectMode \in Modes
    BY DEF VideoInv, VideoTypes
  <2> QED
    BY <2>1, <2>2, ScaleFits DEF Video!FrameShowsSetting
<1> QED
  BY <1>1, <1>2, <1>3, PTL DEF Video!Spec

-----------------------------------------------------------------------------
(* The resampling with AudioConverter. *)

\* The fields of a format fit into those of the key.
Keyed ==
  /\ Field \in Nat \ {0} /\ BufferFrames \subseteq Nat
  /\ Formats \subseteq [rate : Nat \ {0}, channels : 0..(Field - 1), bits : 0..(Field - 1),
                        flags : 0..(Field - 1), bytes : 0..(Field - 1)]
  /\ Outputs \subseteq [rate : Nat \ {0}, channels : Nat]

LEMMA KeyTells ==
  ASSUME Keyed, NEW f \in Formats, NEW g \in Formats, Converter!hash(f) = Converter!hash(g)
  PROVE  f = g
<1>1. ASSUME NEW n \in 0..(Field - 1) PROVE n % Field = n
  BY DEF Keyed
<1>2. /\ f.bytes % Field = g.bytes % Field /\ f.flags % Field = g.flags % Field
      /\ f.channels % Field = g.channels % Field /\ f.bits % Field = g.bits % Field /\ f.rate = g.rate
  BY DEF Converter!hash
<1>3. /\ f.bytes \in 0..(Field - 1) /\ g.bytes \in 0..(Field - 1)
      /\ f.flags \in 0..(Field - 1) /\ g.flags \in 0..(Field - 1)
      /\ f.channels \in 0..(Field - 1) /\ g.channels \in 0..(Field - 1)
      /\ f.bits \in 0..(Field - 1) /\ g.bits \in 0..(Field - 1)
  BY DEF Keyed
<1>4. f.bytes = g.bytes /\ f.flags = g.flags /\ f.channels = g.channels /\ f.bits = g.bits
  BY <1>1, <1>2, <1>3, Zenon
<1> QED
  BY <1>2, <1>4 DEF Keyed

\* Division by multiples.
LEMMA AtLeastOnce ==
  ASSUME NEW b \in Nat, NEW d \in Int, d >= 1
  PROVE  b * d >= b
<1>1. d - 1 \in Nat /\ b * (d - 1) >= 0
  OBVIOUS
<1>2. b * d = b * (d - 1) + b
  OBVIOUS
<1> QED
  BY <1>1, <1>2

LEMMA QuotientIs ==
  ASSUME NEW a \in Nat, NEW b \in Nat, b > 0, NEW q \in Int, NEW r \in Nat, r < b, a = b * q + r
  PROVE  a \div b = q
<1>1. PICK p \in Int, s \in Int : p = a \div b /\ a = b * p + s /\ 0 <= s /\ s < b
  <2>1. a \div b \in Int /\ a % b \in 0..(b - 1) /\ a = b * (a \div b) + (a % b)
    OBVIOUS
  <2> QED
    BY <2>1
<1>2. ~(p > q)
  <2>1. b * (p - q) = b * p - b * q
    OBVIOUS
  <2>2. p > q => b * (p - q) >= b
    BY AtLeastOnce
  <2> QED
    BY <1>1, <2>1, <2>2
<1>3. ~(q > p)
  <2>1. b * (q - p) = b * q - b * p
    OBVIOUS
  <2>2. q > p => b * (q - p) >= b
    BY AtLeastOnce
  <2> QED
    BY <1>1, <2>1, <2>2
<1> QED
  BY <1>1, <1>2, <1>3

\* A quotient is at most any bound the dividend keeps.
LEMMA QuotientAtMost ==
  ASSUME NEW a \in Nat, NEW b \in Nat, b > 0, NEW m \in Nat, a <= b * m + (b - 1)
  PROVE  a \div b <= m
<1>1. PICK p \in Int, s \in Int : p = a \div b /\ a = b * p + s /\ 0 <= s /\ s < b
  <2>1. a \div b \in Int /\ a % b \in 0..(b - 1) /\ a = b * (a \div b) + (a % b)
    OBVIOUS
  <2> QED
    BY <2>1
<1>2. b * (p - m) = b * p - b * m
  OBVIOUS
<1>3. p > m => b * (p - m) >= b
  BY AtLeastOnce
<1> QED
  BY <1>1, <1>2, <1>3

\* The samples out of f frames of rate i at rate o, when rounding them is
\* rounding down, need no more than the frames.
LEMMA NeedsItsFrames ==
  ASSUME NEW f \in Nat, NEW i \in Nat, i > 0, NEW o \in Nat, o > 0, 2 * ((f * o) % i) < i,
         NEW w, w = (2 * f * o + i) \div (2 * i)
  PROVE  w \in Nat /\ (w * i + o - 1) \div o <= f
<1>1. PICK p \in Nat, q \in Nat, r \in Nat : p = f * o /\ p = i * q + r /\ r = (f * o) % i /\ r < i
  <2>1. f * o \in Nat
    OBVIOUS
  <2>2. PICK p \in Nat : p = f * o
    BY <2>1
  <2>3. p \div i \in Nat /\ p % i \in Nat /\ p % i < i /\ p = i * (p \div i) + (p % i)
    OBVIOUS
  <2> QED
    BY <2>2, <2>3, Zenon
<1>2. w = q
  <2>1. 2 * f * o = 2 * p
    BY <1>1
  <2>2. 2 * p + i = (2 * i) * q + (2 * r + i)
    BY <1>1
  <2>3. 2 * r + i \in Nat /\ 2 * r + i < 2 * i /\ 2 * p + i \in Nat /\ 2 * i \in Nat /\ 2 * i > 0
    BY <1>1
  <2>4. (2 * p + i) \div (2 * i) = q
    BY <2>2, <2>3, QuotientIs
  <2> QED
    BY <2>1, <2>4
<1>3. q * i <= o * f
  BY <1>1
<1>4. PICK a \in Nat : a = q * i + o - 1 /\ a <= o * f + (o - 1)
  <2>1. q * i \in Nat
    OBVIOUS
  <2> QED
    BY <1>3, <2>1
<1>5. a \div o <= f
  BY <1>4, QuotientAtMost
<1> QED
  BY <1>2, <1>4, <1>5

Converters == [in : Formats, out : Outputs]
Calls == [in : Formats, out : Outputs, frames : BufferFrames, converter : Converters, wanted : Nat, handed : Nat]
Wanted(c) == (2 * c.frames * c.out.rate + c.in.rate) \div (2 * c.in.rate)

\* A converter is found under the key of its own input format, and a call has
\* asked for what its frames make and been handed no more than that needs.
ConverterInv ==
  /\ out \in Outputs
  /\ \A k \in DOMAIN m_converters : m_converters[k] \in Converters /\ Converter!hash(m_converters[k].in) = k
  /\ call \subseteq Calls
  /\ \A c \in call : c.converter.in = c.in /\ c.wanted = Wanted(c) /\ c.handed <= Converter!Needed(c)

LEMMA InitConverter == Converter!Init => ConverterInv
  BY DEF Converter!Init, ConverterInv

LEMMA NeededIs ==
  ASSUME Keyed, NEW c \in Calls
  PROVE  Converter!Needed(c) \in Nat
<1>1. PICK w \in Nat, i \in Nat, o \in Nat :
         w = c.wanted /\ i = c.converter.in.rate /\ o = c.converter.out.rate /\ o > 0
  BY DEF Keyed, Calls, Converters
<1>2. w * i \in Nat
  BY <1>1
<1>3. PICK a \in Nat : a = w * i + o - 1
  BY <1>1, <1>2
<1>4. a \div o \in Nat
  BY <1>1
<1> QED
  BY <1>1, <1>3, <1>4, Zenon DEF Converter!Needed

LEMMA StepResample ==
  ASSUME Keyed, ConverterInv, NEW in \in Formats, NEW frames \in BufferFrames, Converter!Resample(in, frames)
  PROVE  ConverterInv'
<1> DEFINE known == Converter!hash(in) \in DOMAIN m_converters
           made == IF known THEN m_converters[Converter!hash(in)] ELSE [in |-> in, out |-> out]
           c == [in |-> in, out |-> out, frames |-> frames, converter |-> made,
                 wanted |-> Converter!outBufferSampleCount(in, frames), handed |-> 0]
<1>1. /\ out' = out /\ call' = {c}
      /\ m_converters' = [k \in DOMAIN m_converters \cup {Converter!hash(in)} |->
                             IF k = Converter!hash(in) THEN made ELSE m_converters[k]]
  BY DEF Converter!Resample
<1>2. made \in Converters /\ Converter!hash(made.in) = Converter!hash(in)
  <2>1. CASE known
    BY <2>1 DEF ConverterInv
  <2>2. CASE ~known
    BY <2>2 DEF ConverterInv, Converters
  <2> QED
    BY <2>1, <2>2
<1>3. made.in = in
  BY <1>2, KeyTells DEF Converters
<1>4. c \in Calls /\ c.wanted = Wanted(c)
  <2>1. PICK i \in Nat, o \in Nat : i = in.rate /\ o = out.rate /\ i > 0 /\ frames \in Nat
    BY DEF Keyed, ConverterInv
  <2>2. 2 * frames * o \in Nat
    BY <2>1
  <2>3. PICK a \in Nat, b \in Nat : a = 2 * frames * o + i /\ b = 2 * i /\ b > 0
    BY <2>1, <2>2
  <2>4. a \div b \in Nat
    BY <2>3
  <2>5. Converter!outBufferSampleCount(in, frames) \in Nat
    BY <2>1, <2>3, <2>4, Zenon DEF Converter!outBufferSampleCount
  <2>6. out \in Outputs
    BY DEF ConverterInv
  <2>7. c \in Calls
    BY <1>2, <2>5, <2>6 DEF Calls
  <2>8. c.wanted = Wanted(c)
    BY DEF Wanted, Converter!outBufferSampleCount
  <2> QED
    BY <2>7, <2>8
<1>5. c.handed <= Converter!Needed(c)
  BY <1>4, NeededIs
<1>6. \A k \in DOMAIN m_converters' : m_converters'[k] \in Converters /\ Converter!hash(m_converters'[k].in) = k
  <2> HIDE DEF made
  <2> QED
    BY <1>1, <1>2 DEF ConverterInv
<1>7. c.converter.in = c.in
  BY <1>3
<1> HIDE DEF c
<1> QED
  BY <1>1, <1>4, <1>5, <1>6, <1>7 DEF ConverterInv

LEMMA StepCallback ==
  ASSUME Keyed, ConverterInv, Converter!ioProc
  PROVE  ConverterInv'
<1>1. PICK c \in call : /\ c.handed < Converter!Needed(c)
                        /\ \E asked \in 1..(Converter!Needed(c) - c.handed) :
                               call' = {[c EXCEPT !.handed = @ + Converter!Handed(asked, c.frames)]}
                        /\ UNCHANGED <<out, m_converters>>
  BY DEF Converter!ioProc
<1>2. c \in Calls /\ Converter!Needed(c) \in Nat /\ c.frames \in Nat /\ c.handed \in Nat
  BY NeededIs DEF ConverterInv, Calls, Keyed
<1>3. PICK asked \in 1..(Converter!Needed(c) - c.handed) :
         call' = {[c EXCEPT !.handed = @ + Converter!Handed(asked, c.frames)]}
  BY <1>1
<1>4. PICK h \in Nat : h = c.handed + Converter!Handed(asked, c.frames) /\ h <= Converter!Needed(c)
  BY <1>2 DEF Converter!Handed
<1>5. PICK d : d = [c EXCEPT !.handed = h] /\ call' = {d}
  BY <1>3, <1>4
<1>6. /\ d \in Calls /\ d.in = c.in /\ d.out = c.out /\ d.frames = c.frames /\ d.converter = c.converter
      /\ d.wanted = c.wanted /\ d.handed = h
  BY <1>2, <1>5 DEF Calls
<1>7. Converter!Needed(d) = Converter!Needed(c) /\ Wanted(d) = Wanted(c)
  BY <1>6 DEF Converter!Needed, Wanted
<1>8. d.converter.in = d.in /\ d.wanted = Wanted(d) /\ d.handed <= Converter!Needed(d)
  BY <1>4, <1>6, <1>7 DEF ConverterInv
<1> QED
  BY <1>1, <1>5, <1>6, <1>8 DEF ConverterInv

LEMMA StepConverter ==
  ASSUME Keyed, ConverterInv, [Converter!Next]_(Converter!vars)
  PROVE  ConverterInv'
<1>1. ASSUME NEW o \in Outputs, Converter!SetOutput(o) PROVE ConverterInv'
  BY <1>1 DEF Converter!SetOutput, ConverterInv
<1>2. CASE Converter!Return
  BY <1>2 DEF Converter!Return, ConverterInv
<1>3. CASE UNCHANGED Converter!vars
  BY <1>3 DEF Converter!vars, ConverterInv
<1> QED
  BY <1>1, <1>2, <1>3, StepResample, StepCallback DEF Converter!Next

\* A buffer is converted by the converter of its own format, and the packets
\* handed to the converter are the buffer's when the number of output samples
\* was rounded down and the converter was made for the present output format,
\* for every rate and size: the key tells the formats apart as long as each
\* field fits into its byte.
THEOREM BufferIsRead ==
  ASSUME Keyed
  PROVE  Converter!Spec => []Converter!ReadsItsBuffer
<1>1. Converter!Init => ConverterInv
  BY InitConverter
<1>2. ConverterInv /\ [Converter!Next]_(Converter!vars) => ConverterInv'
  BY StepConverter
<1>3. ConverterInv => Converter!ReadsItsBuffer
  <2> SUFFICES ASSUME ConverterInv, NEW c \in call
               PROVE  /\ c.converter.in = c.in
                      /\ c.converter.out = c.out /\ Converter!RoundsDown(c) => c.handed <= c.frames
    BY DEF Converter!ReadsItsBuffer
  <2>1. c \in Calls /\ c.converter.in = c.in /\ c.wanted = Wanted(c) /\ c.handed <= Converter!Needed(c)
    BY DEF ConverterInv
  <2>2. ASSUME c.converter.out = c.out, Converter!RoundsDown(c) PROVE c.handed <= c.frames
    <3>1. PICK f \in Nat, i \in Nat, o \in Nat :
             /\ f = c.frames /\ i = c.in.rate /\ o = c.out.rate /\ i > 0 /\ o > 0
             /\ i = c.converter.in.rate /\ o = c.converter.out.rate
      <4>1. c.in \in Formats /\ c.out \in Outputs /\ c.frames \in BufferFrames
        BY <2>1 DEF Calls
      <4>2. /\ c.frames \in Nat /\ c.in.rate \in Nat /\ c.out.rate \in Nat
            /\ c.in.rate > 0 /\ c.out.rate > 0
        <5>1. c.in.rate \in Nat \ {0}
          BY <4>1 DEF Keyed
        <5>2. c.out.rate \in Nat \ {0}
          BY <4>1 DEF Keyed
        <5>3. c.frames \in Nat
          BY <4>1, Zenon DEF Keyed
        <5> QED
          BY <5>1, <5>2, <5>3
      <4>3. c.in.rate = c.converter.in.rate /\ c.out.rate = c.converter.out.rate
        BY <2>1, <2>2, Zenon
      <4> QED
        BY <4>2, <4>3, Zenon
    <3>2. 2 * ((f * o) % i) < i
      BY <2>2, <3>1 DEF Converter!RoundsDown
    <3>3. PICK w : w = c.wanted /\ w = (2 * f * o + i) \div (2 * i)
      BY <2>1, <3>1 DEF Wanted
    <3>4. (w * i + o - 1) \div o <= f
      BY <3>1, <3>2, <3>3, NeedsItsFrames
    <3>5. Converter!Needed(c) = (w * i + o - 1) \div o
      BY <3>1, <3>3 DEF Converter!Needed
    <3>6. Converter!Needed(c) \in Nat /\ c.handed \in Nat
      BY <2>1, NeededIs DEF Calls
    <3> QED
      BY <2>1, <3>1, <3>4, <3>5, <3>6
  <2> QED
    BY <2>1, <2>2
<1> QED
  BY <1>1, <1>2, <1>3, PTL DEF Converter!Spec

-----------------------------------------------------------------------------
(* The throughput adaptation. *)

Measurable == BufferSizes \subseteq Nat

\* The sizes remembered, newest first, grow over three measurements.
Grew(g) == Len(g) = 3 /\ g[1] > g[2] /\ g[2] > g[3]
Measured(g) == g \in Seq(Nat) /\ Len(g) <= 3

LEMMA RememberedIs ==
  ASSUME NEW g, Measured(g), NEW x \in Nat
  PROVE  Measured(Adaptation!PushFront(g, x, 3))
<1>1. PICK n \in Nat : n = Len(g) /\ n <= 3
  BY DEF Measured
<1>2. PICK s \in Seq(Nat) : s = <<x>> \o g /\ Len(s) = n + 1
  <2>1. <<x>> \in Seq(Nat) /\ Len(<<x>>) = 1 /\ g \in Seq(Nat)
    BY DEF Measured
  <2>2. <<x>> \o g \in Seq(Nat) /\ Len(<<x>> \o g) = Len(<<x>>) + Len(g)
    BY <2>1
  <2>3. Len(<<x>> \o g) = n + 1
    BY <1>1, <2>1, <2>2
  <2> QED
    BY <2>2, <2>3, Zenon
<1>3. PICK k \in Nat : k = (IF n < 3 THEN n + 1 ELSE 3) /\ k <= 3 /\ k <= Len(s)
  BY <1>1, <1>2
<1>4. SubSeq(s, 1, k) \in Seq(Nat) /\ Len(SubSeq(s, 1, k)) = k
  BY <1>2, <1>3, SMTT(30)
<1> QED
  BY <1>1, <1>2, <1>3, <1>4 DEF Measured, Adaptation!PushFront

LEMMA TrendTells ==
  ASSUME NEW g, Measured(g)
  PROVE  Adaptation!Trend(g) \in Int /\ (Adaptation!Trend(g) > 0 <=> Grew(g))
<1>1. PICK n \in 0..3 : n = Len(g) /\ \A i \in 1..n : g[i] \in Nat
  <2>1. Len(g) \in 0..3 /\ \A i \in 1..Len(g) : g[i] \in Nat
    <3>1. g \in Seq(Nat) /\ Len(g) \in Nat /\ Len(g) <= 3
      BY DEF Measured
    <3>2. \A i \in 1..Len(g) : g[i] \in Nat
      BY <3>1
    <3>3. \A l \in Nat : l <= 3 => l \in 0..3
      OBVIOUS
    <3> QED
      BY <3>1, <3>2, <3>3, Zenon
  <2> QED
    BY <2>1, Zenon
<1>2. CASE n = 3
  <2>1. g[1] \in Nat /\ g[2] \in Nat /\ g[3] \in Nat
    BY <1>1, <1>2
  <2> QED
    BY <1>1, <1>2, <2>1 DEF Grew, Adaptation!Trend, Adaptation!Risen
<1>3. CASE n = 2
  <2>1. g[1] \in Nat /\ g[2] \in Nat
    BY <1>1, <1>3
  <2> QED
    BY <1>1, <1>3, <2>1 DEF Grew, Adaptation!Trend, Adaptation!Risen
<1>4. CASE n < 2
  <2>1. n = 1 => g[1] \in Nat
    BY <1>1
  <2> QED
    BY <1>1, <1>4, <2>1 DEF Grew, Adaptation!Trend, Adaptation!Risen
<1> QED
  BY <1>1, <1>2, <1>3, <1>4

\* The sizes measured are remembered, and what is reported is what they say.
AdaptationInv ==
  /\ Measured(m_buffGrowth) /\ bufferSample \subseteq Nat
  /\ thread = "callback" => report.vec \in {-1, 0, 1} /\ (report.vec # 0 => (report.vec = -1 <=> Grew(m_buffGrowth)))

LEMMA InitAdaptation == Adaptation!Init => AdaptationInv
  BY DEF Adaptation!Init, AdaptationInv, Measured

LEMMA StepMeasure ==
  ASSUME Measurable, AdaptationInv, Adaptation!Measure
  PROVE  AdaptationInv'
<1>1. bufferSample' = {} /\ thread' = "callback"
  BY DEF Adaptation!Measure
<1>2. PICK d \in Delays :
         (\E length \in bufferSample : Adaptation!MeasureBuffer(length, d)) \/ Adaptation!MeasureNothing(d)
  BY DEF Adaptation!Measure
<1>3. ASSUME NEW length \in bufferSample, Adaptation!MeasureBuffer(length, d) PROVE AdaptationInv'
  <2> DEFINE g == Adaptation!PushFront(m_buffGrowth, length, 3)
  <2>1. m_buffGrowth' = g /\ report'.vec = Adaptation!Vector(g, d)
    BY <1>3 DEF Adaptation!MeasureBuffer
  <2>2. Measured(g)
    BY RememberedIs DEF AdaptationInv
  <2> HIDE DEF g
  <2>3. Adaptation!Trend(g) \in Int /\ (Adaptation!Trend(g) > 0 <=> Grew(g))
    BY <2>2, TrendTells
  <2>4. /\ Adaptation!Vector(g, d) \in {-1, 0, 1}
        /\ Adaptation!Vector(g, d) = 1 => Adaptation!Trend(g) <= 0
        /\ Adaptation!Vector(g, d) = -1 => Adaptation!Trend(g) > 0
    BY <2>3 DEF Adaptation!Vector
  <2> QED
    BY <1>1, <2>1, <2>2, <2>3, <2>4 DEF AdaptationInv
<1>4. CASE Adaptation!MeasureNothing(d)
  BY <1>1, <1>4 DEF Adaptation!MeasureNothing, Adaptation!Nothing, AdaptationInv
<1> QED
  BY <1>2, <1>3, <1>4

LEMMA StepAdaptation ==
  ASSUME Measurable, AdaptationInv, [Adaptation!Next]_(Adaptation!vars)
  PROVE  AdaptationInv'
<1> USE DEF Measurable, AdaptationInv
<1>1. CASE Adaptation!start
  BY <1>1 DEF Adaptation!start, Adaptation!learnt, Adaptation!samples
<1>2. CASE Adaptation!addSentBytesSample
  BY <1>2 DEF Adaptation!addSentBytesSample, Adaptation!learnt
<1>3. CASE Adaptation!addBufferSizeSample
  BY <1>3 DEF Adaptation!addBufferSizeSample, Adaptation!learnt
<1>4. CASE Adaptation!reset
  BY <1>4 DEF Adaptation!reset, Adaptation!learnt
<1>5. CASE Adaptation!Test
  BY <1>5 DEF Adaptation!Test, Adaptation!learnt, Adaptation!samples
<1>6. CASE Adaptation!Wait
  BY <1>6 DEF Adaptation!Wait, Adaptation!learnt, Adaptation!samples
<1>7. CASE Adaptation!Leave
  BY <1>7 DEF Adaptation!Leave, Adaptation!learnt, Adaptation!samples
<1>8. CASE Adaptation!Callback
  BY <1>8 DEF Adaptation!Callback, Adaptation!samples
<1>9. CASE Adaptation!Destroy
  BY <1>9 DEF Adaptation!Destroy, Adaptation!learnt, Adaptation!samples
<1>10. CASE Adaptation!DestroyNotify
  BY <1>10 DEF Adaptation!DestroyNotify, Adaptation!learnt, Adaptation!samples
<1>11. CASE Adaptation!DestroyJoin
  BY <1>11 DEF Adaptation!DestroyJoin, Adaptation!learnt, Adaptation!samples
<1>12. CASE UNCHANGED Adaptation!vars
  BY <1>12 DEF Adaptation!vars
<1> QED
  BY <1>1, <1>2, <1>3, <1>4, <1>5, <1>6, <1>7, <1>8, <1>9, <1>10, <1>11, <1>12, StepMeasure
     DEF Adaptation!Next, Adaptation!SampleThread, Adaptation!Destructor

\* A vector that is not zero is a decrease exactly when the send buffer grew
\* over the last three measurements that saw it, for all sizes and delays.
THEOREM DecreaseIsForGrowth ==
  ASSUME Measurable
  PROVE  Adaptation!Spec => []Adaptation!DownWhenGrowing
<1>1. Adaptation!Init => AdaptationInv
  BY InitAdaptation
<1>2. AdaptationInv /\ [Adaptation!Next]_(Adaptation!vars) => AdaptationInv'
  BY StepAdaptation
<1>3. AdaptationInv => Adaptation!DownWhenGrowing
  BY DEF AdaptationInv, Grew, Adaptation!DownWhenGrowing, Adaptation!Growing
<1> QED
  BY <1>1, <1>2, <1>3, PTL DEF Adaptation!Spec

-----------------------------------------------------------------------------
(* Numbers, and induction over them. *)

\* The quotient of a division that rounds down, and its remainder.
LEMMA Floor ==
    ASSUME NEW a \in Int, NEW b \in Nat, b > 0
    PROVE  /\ a \div b \in Int /\ a % b \in 0..(b - 1)
           /\ a = b * (a \div b) + (a % b)
  OBVIOUS

\* A product of naturals is a natural: what nonlinear estimates are made from.
LEMMA ProductNat == ASSUME NEW x \in Nat, NEW y \in Nat PROVE x * y \in Nat
  OBVIOUS

\* A factor that both sides have is cancelled.
LEMMA Cancel ==
    ASSUME NEW m \in Nat, m > 0, NEW x \in Int, NEW y \in Int, m * x < m * y + m
    PROVE  x <= y
<1> SUFFICES ASSUME x >= y + 1 PROVE FALSE
  OBVIOUS
<1>1. m * (x - (y + 1)) \in Nat
  BY ProductNat
<1>2. m * (x - (y + 1)) = m * x - m * y - m
  OBVIOUS
<1> QED
  BY <1>1, <1>2

\* Multiplication keeps the order.
LEMMA ProductGrows ==
    ASSUME NEW m \in Nat, NEW x \in Int, NEW y \in Int, x <= y
    PROVE  m * x \in Int /\ m * y \in Int /\ m * x <= m * y
<1>1. m * (y - x) \in Nat
  BY ProductNat
<1>2. m * (y - x) = m * y - m * x /\ m * x \in Int /\ m * y \in Int
  OBVIOUS
<1> QED
  BY <1>1, <1>2

\* A set of naturals has a least element.
LEMMA LeastNatural ==
  ASSUME NEW T, T \subseteq Nat, T # {}
  PROVE  \E x \in T : \A y \in T : x <= y
<1> DEFINE R == OpToRel(<, Nat)
<1>1. IsWellFoundedOn(R, Nat)
  BY NatLessThanWellFounded, Zenon
<1> HIDE DEF R
<1>2. PICK x \in T : \A y \in T : ~(<<y, x>> \in R)
  BY <1>1, WFMin
<1>3. \A y \in T : ~(y < x)
  BY <1>2 DEF R, OpToRel
<1>4. QED
  BY <1>3

\* Induction over the naturals, as a fact about a set.
LEMMA SetInduction ==
  ASSUME NEW S, 0 \in S, \A k \in Nat : k \in S => k + 1 \in S
  PROVE  Nat \subseteq S
<1> SUFFICES ASSUME Nat \ S # {} PROVE FALSE
  OBVIOUS
<1>1. PICK x \in Nat \ S : \A y \in Nat \ S : x <= y
  BY LeastNatural, Nat \ S \subseteq Nat
<1>2. x # 0 /\ x - 1 \in Nat
  BY <1>1
<1>3. x - 1 \in S
  BY <1>1, <1>2
<1>4. QED
  BY <1>1, <1>2, <1>3

\* Induction from n down to 1.
LEMMA Downward ==
    ASSUME NEW n \in Nat, NEW S, n \in S, \A i \in 1..(n - 1) : i + 1 \in S => i \in S
    PROVE  1..n \subseteq S
<1> DEFINE T == {k \in Nat : k < n => n - k \in S}
<1>1. 0 \in T
  OBVIOUS
<1>2. ASSUME NEW k \in Nat, k \in T PROVE k + 1 \in T
  <2>1. SUFFICES ASSUME k + 1 < n PROVE n - (k + 1) \in S
    OBVIOUS
  <2>2. PICK i \in 1..(n - 1) : i = n - (k + 1) /\ i + 1 = n - k
    BY <2>1
  <2>3. i + 1 \in S
    BY <1>2, <2>1, <2>2
  <2> QED
    BY <2>2, <2>3
<1>3. Nat \subseteq T
  <2> HIDE DEF T
  <2> QED
    BY <1>1, <1>2, SetInduction
<1>4. ASSUME NEW i \in 1..n PROVE i \in S
  <2>1. PICK k \in Nat : k = n - i /\ n - k = i /\ k < n
    OBVIOUS
  <2>2. k \in T
    BY <1>3
  <2> QED
    BY <2>1, <2>2
<1> QED
  BY <1>4

-----------------------------------------------------------------------------
(* The bytes of AMF, and what stands where in them. *)

Digits == 0..(Base - 1)

\* The bytes s stand in b at p.
At(b, p, s) == p + Len(s) - 1 <= Len(b) /\ \A i \in 1..Len(s) : b[p + i - 1] = s[i]

\* How large the values of one, two and four bytes are at least.
LEMMA BaseIs == Base \in Nat /\ Base > 12 /\ Base16 \in Nat /\ Base32 \in Nat /\ Base16 > 144 /\ Base32 >= Base16
<1>1. Base \in Nat /\ Base > 12
  BY BaseAssumption
<1>2. Base16 \in Nat /\ Base16 > 144
  <2>1. (Base - 12) * (Base + 12) \in Nat
    BY <1>1, ProductNat
  <2>2. (Base - 13) * (Base + 13) \in Nat
    BY <1>1, ProductNat
  <2>3. (Base - 13) * (Base + 13) = Base * Base - 169
    BY <1>1
  <2> QED
    BY <1>1, <2>2, <2>3 DEF Base16
<1>3. Base32 \in Nat /\ Base32 >= Base16
  <2>1. Base16 * Base16 \in Nat /\ Base16 * (Base16 - 1) \in Nat
    BY <1>2, ProductNat
  <2>2. Base16 * (Base16 - 1) = Base16 * Base16 - Base16
    BY <1>2
  <2> QED
    BY <1>2, <2>1, <2>2 DEF Base32
<1> QED
  BY <1>1, <1>2, <1>3

\* Concatenation and single bytes, under names the provers do not look into.
Join(s, t) == s \o t
One(d) == <<d>>

\* Bytes behind bytes.
LEMMA JoinedBytes ==
    ASSUME NEW s \in Seq(Digits), NEW t \in Seq(Digits)
    PROVE  Join(s, t) \in Seq(Digits) /\ Len(Join(s, t)) = Len(s) + Len(t) /\ Len(s) \in Nat /\ Len(t) \in Nat
  BY ConcatProperties, LenProperties DEF Join

\* One byte.
LEMMA OneIs == ASSUME NEW d \in Digits PROVE One(d) \in Seq(Digits) /\ Len(One(d)) = 1
  BY DEF One

\* Where two pieces stand in b.
LEMMA AtFirst ==
    ASSUME NEW b, NEW p \in Int, NEW s \in Seq(Digits), NEW t \in Seq(Digits), At(b, p, Join(s, t)), Len(b) \in Nat
    PROVE  At(b, p, s) /\ At(b, p + Len(s), t)
<1>1. /\ Len(Join(s, t)) = Len(s) + Len(t) /\ Len(s) \in Nat /\ Len(t) \in Nat
      /\ \A i \in 1..(Len(s) + Len(t)) : Join(s, t)[i] = IF i <= Len(s) THEN s[i] ELSE t[i - Len(s)]
  BY ConcatProperties, LenProperties DEF Join
<1>2. At(b, p, s)
  <2>1. ASSUME NEW i \in 1..Len(s) PROVE b[p + i - 1] = s[i]
    <3>1. i \in 1..(Len(s) + Len(t)) /\ i <= Len(s)
      BY <1>1
    <3>2. Join(s, t)[i] = s[i] /\ b[p + i - 1] = Join(s, t)[i]
      BY <1>1, <3>1 DEF At
    <3> QED
      BY <3>2
  <2> QED
    BY <1>1, <2>1 DEF At
<1>3. At(b, p + Len(s), t)
  <2>1. ASSUME NEW i \in 1..Len(t) PROVE b[p + Len(s) + i - 1] = t[i]
    <3>1. Len(s) + i \in 1..(Len(s) + Len(t)) /\ (Len(s) + i) - Len(s) = i /\ ~(Len(s) + i <= Len(s))
      BY <1>1
    <3>2. Join(s, t)[Len(s) + i] = t[i]
      BY <1>1, <3>1
    <3>3. b[p + (Len(s) + i) - 1] = Join(s, t)[Len(s) + i]
      BY <1>1, <3>1 DEF At
    <3>4. p + (Len(s) + i) - 1 = p + Len(s) + i - 1
      BY <1>1
    <3> QED
      BY <3>2, <3>3, <3>4
  <2> QED
    BY <1>1, <2>1 DEF At
<1> QED
  BY <1>2, <1>3

\* Bytes stand in themselves at 1.
LEMMA AtSelf ==
    ASSUME NEW s \in Seq(Digits)
    PROVE  At(s, 1, s) /\ Len(s) \in Nat
  BY LenProperties DEF At

\* Where a single byte stands.
LEMMA AtOne ==
    ASSUME NEW b, NEW p \in Int, NEW d, At(b, p, One(d))
    PROVE  b[p] = d /\ p <= Len(b)
<1>1. Len(<<d>>) = 1 /\ 1 \in 1..1 /\ <<d>>[1] = d /\ p + 1 - 1 = p
  OBVIOUS
<1> QED
  BY <1>1 DEF At, One

\* What is copied from where s stands is s.
LEMMA AtIs ==
    ASSUME NEW s \in Seq(Digits), NEW b, NEW p \in Int, At(b, p, s)
    PROVE  SubSeq(b, p, p + Len(s) - 1) = s
<1>1. Len(s) \in Nat
  BY LenProperties
<1>2. ASSUME NEW j \in p..(p + Len(s) - 1) PROVE b[j] \in Digits /\ b[j] = s[j - p + 1]
  <2>1. j - p + 1 \in 1..Len(s) /\ p + (j - p + 1) - 1 = j
    BY <1>1
  <2> QED
    BY <2>1, ElementOfSeq DEF At
<1> DEFINE t == SubSeq(b, p, p + Len(s) - 1)
<1>3. /\ t \in Seq(Digits)
      /\ Len(t) = (IF p <= p + Len(s) - 1 THEN (p + Len(s) - 1) - p + 1 ELSE 0)
      /\ \A i \in 1..((p + Len(s) - 1) - p + 1) : t[i] = b[p + i - 1]
  <2>1. p + Len(s) - 1 \in Int /\ \A i \in p..(p + Len(s) - 1) : b[i] \in Digits
    BY <1>1, <1>2
  <2> QED
    BY <2>1, SubSeqProperties
<1> HIDE DEF t
<1>4. Len(t) = Len(s) /\ \A i \in 1..Len(t) : t[i] = s[i]
  BY <1>1, <1>3 DEF At
<1> QED
  BY <1>3, <1>4, SeqEqual DEF t

\* Three and four pieces.
Three(s, t, u) == s \o t \o u
Four(s, t, u, v) == s \o t \o u \o v

\* Three pieces, and where each stands.
LEMMA ThreeJoined ==
    ASSUME NEW s \in Seq(Digits), NEW t \in Seq(Digits), NEW u \in Seq(Digits)
    PROVE  /\ Three(s, t, u) \in Seq(Digits) /\ Len(Three(s, t, u)) = Len(s) + Len(t) + Len(u)
           /\ Len(s) \in Nat /\ Len(t) \in Nat /\ Len(u) \in Nat
           /\ \A b, p : p \in Int /\ Len(b) \in Nat /\ At(b, p, Three(s, t, u))
                 => At(b, p, s) /\ At(b, p + Len(s), t) /\ At(b, p + Len(s) + Len(t), u)
<1>1. Three(s, t, u) = Join(Join(s, t), u)
  BY DEF Three, Join
<1>2. Join(s, t) \in Seq(Digits) /\ Len(Join(s, t)) = Len(s) + Len(t) /\ Len(s) \in Nat /\ Len(t) \in Nat
  BY JoinedBytes
<1>3. Join(Join(s, t), u) \in Seq(Digits) /\ Len(Join(Join(s, t), u)) = Len(Join(s, t)) + Len(u) /\ Len(u) \in Nat
  BY <1>2, JoinedBytes
<1>4. ASSUME NEW b, NEW p \in Int, Len(b) \in Nat, At(b, p, Three(s, t, u))
      PROVE  At(b, p, s) /\ At(b, p + Len(s), t) /\ At(b, p + Len(s) + Len(t), u)
  <2>1. At(b, p, Join(s, t)) /\ At(b, p + Len(Join(s, t)), u)
    BY <1>1, <1>2, <1>4, AtFirst
  <2>2. At(b, p, s) /\ At(b, p + Len(s), t)
    BY <1>4, <2>1, AtFirst
  <2>3. p + Len(Join(s, t)) = p + Len(s) + Len(t)
    BY <1>2
  <2> QED
    BY <2>1, <2>2, <2>3
<1>5. Len(Three(s, t, u)) = Len(s) + Len(t) + Len(u)
  BY <1>1, <1>2, <1>3
<1>6. Three(s, t, u) \in Seq(Digits)
  BY <1>1, <1>3
<1> QED
  BY <1>2, <1>3, <1>4, <1>5, <1>6

\* What four pieces make.
FourMake(s, t, u, v) ==
    /\ Four(s, t, u, v) \in Seq(Digits) /\ Len(Four(s, t, u, v)) = Len(s) + Len(t) + Len(u) + Len(v)
    /\ \A b, p : p \in Int /\ Len(b) \in Nat /\ At(b, p, Four(s, t, u, v))
          => /\ At(b, p, s) /\ At(b, p + Len(s), t) /\ At(b, p + Len(s) + Len(t), u)
             /\ At(b, p + Len(s) + Len(t) + Len(u), v)

\* Four pieces, and where each stands.
LEMMA FourJoined ==
    ASSUME NEW s \in Seq(Digits), NEW t \in Seq(Digits), NEW u \in Seq(Digits), NEW v \in Seq(Digits)
    PROVE  FourMake(s, t, u, v)
<1>1. Four(s, t, u, v) = Join(Three(s, t, u), v)
  BY DEF Four, Three, Join
<1>2. /\ Three(s, t, u) \in Seq(Digits) /\ Len(Three(s, t, u)) = Len(s) + Len(t) + Len(u)
      /\ Len(s) \in Nat /\ Len(t) \in Nat /\ Len(u) \in Nat
      /\ \A b, p : p \in Int /\ Len(b) \in Nat /\ At(b, p, Three(s, t, u))
                 => At(b, p, s) /\ At(b, p + Len(s), t) /\ At(b, p + Len(s) + Len(t), u)
  BY ThreeJoined
<1>3. /\ Join(Three(s, t, u), v) \in Seq(Digits)
      /\ Len(Join(Three(s, t, u), v)) = Len(Three(s, t, u)) + Len(v) /\ Len(v) \in Nat
  BY <1>2, JoinedBytes
<1>4. ASSUME NEW b, NEW p \in Int, Len(b) \in Nat, At(b, p, Four(s, t, u, v))
      PROVE  /\ At(b, p, s) /\ At(b, p + Len(s), t) /\ At(b, p + Len(s) + Len(t), u)
             /\ At(b, p + Len(s) + Len(t) + Len(u), v)
  <2>1. At(b, p, Three(s, t, u)) /\ At(b, p + Len(Three(s, t, u)), v)
    BY <1>1, <1>2, <1>4, AtFirst
  <2>2. At(b, p, s) /\ At(b, p + Len(s), t) /\ At(b, p + Len(s) + Len(t), u)
    BY <1>2, <1>4, <2>1
  <2>3. p + Len(Three(s, t, u)) = p + Len(s) + Len(t) + Len(u)
    BY <1>2
  <2> QED
    BY <2>1, <2>2, <2>3
<1>5. Len(Four(s, t, u, v)) = Len(s) + Len(t) + Len(u) + Len(v)
  BY <1>1, <1>2, <1>3
<1>6. Four(s, t, u, v) \in Seq(Digits)
  BY <1>1, <1>3
<1> QED
  BY <1>4, <1>5, <1>6 DEF FourMake

\* Numbers.
LEMMA Places ==
    ASSUME NEW n \in Nat, NEW m \in Nat, n < m * Base
    PROVE  n \div Base \in Nat /\ n \div Base < m /\ n % Base \in Digits /\ (n \div Base) * Base + (n % Base) = n
<1>1. Base \in Nat /\ Base > 0
  BY BaseIs
<1>2. n \div Base \in Int /\ n % Base \in 0..(Base - 1) /\ n = Base * (n \div Base) + (n % Base)
  BY <1>1, Floor
<1>3. n \div Base \in Nat
  BY <1>1
<1>4. n \div Base < m
  <2>1. Base * (n \div Base) < Base * (m - 1) + Base
    BY <1>1, <1>2
  <2>2. n \div Base <= m - 1
    BY <1>1, <1>2, <2>1, Cancel
  <2> QED
    BY <1>2, <2>2
<1> QED
  BY <1>1, <1>2, <1>3, <1>4 DEF Digits

\* The last digit of a number and the number in front of it.
LEMMA Place ==
    ASSUME NEW n \in Nat
    PROVE  n \div Base \in Nat /\ n % Base \in Digits
  BY BaseIs DEF Digits

\* The digits of n are those of q, which are read first, and d.
Follows(n, q, d) == q = n \div Base /\ d = n % Base

\* What the put_be functions write: two, three and four bytes.
LEMMA NumberBytes ==
    ASSUME NEW n \in Nat
    PROVE  /\ put_be16(n) \in Seq(Digits) /\ Len(put_be16(n)) = 2
           /\ put_be24(n) \in Seq(Digits) /\ Len(put_be24(n)) = 3
           /\ put_be32(n) \in Seq(Digits) /\ Len(put_be32(n)) = 4
           /\ \A q, d : Follows(n, q, d) => /\ q \in Nat /\ d \in Digits
                                          /\ put_be24(n) = Join(put_be16(q), One(d))
                                          /\ put_be32(n) = Join(put_be24(q), One(d))
<1>1. ASSUME NEW k \in Nat PROVE put_be16(k) \in Seq(Digits) /\ Len(put_be16(k)) = 2
  <2>1. k \div Base \in Nat /\ k % Base \in Digits
    BY Place
  <2>2. (k \div Base) % Base \in Digits
    BY <2>1, Place
  <2> QED
    BY <2>1, <2>2 DEF put_be16
<1>2. ASSUME NEW k \in Nat, NEW q, NEW d, Follows(k, q, d)
      PROVE  /\ q \in Nat /\ d \in Digits
             /\ put_be24(k) = Join(put_be16(q), One(d)) /\ put_be32(k) = Join(put_be24(q), One(d))
  <2>1. q = k \div Base /\ d = k % Base
    BY <1>2 DEF Follows
  <2>2. put_be24(k) = Join(put_be16(q), One(d)) /\ put_be32(k) = Join(put_be24(q), One(d))
    BY <2>1 DEF put_be24, put_be32, Join, One
  <2> QED
    BY <2>1, <2>2, Place
<1>3. ASSUME NEW k \in Nat PROVE put_be24(k) \in Seq(Digits) /\ Len(put_be24(k)) = 3
  <2>1. PICK q, d : Follows(k, q, d)
    BY DEF Follows
  <2>2. q \in Nat /\ d \in Digits /\ put_be24(k) = Join(put_be16(q), One(d))
    BY <1>2, <2>1
  <2>3. put_be16(q) \in Seq(Digits) /\ Len(put_be16(q)) = 2 /\ One(d) \in Seq(Digits) /\ Len(One(d)) = 1
    BY <1>1, <2>2, OneIs
  <2>4. /\ Join(put_be16(q), One(d)) \in Seq(Digits)
        /\ Len(Join(put_be16(q), One(d))) = Len(put_be16(q)) + Len(One(d))
    BY <2>3, JoinedBytes, Zenon
  <2> QED
    BY <2>2, <2>3, <2>4
<1>4. put_be32(n) \in Seq(Digits) /\ Len(put_be32(n)) = 4
  <2>1. PICK q, d : Follows(n, q, d)
    BY DEF Follows
  <2>2. q \in Nat /\ d \in Digits /\ put_be32(n) = Join(put_be24(q), One(d))
    BY <1>2, <2>1
  <2>3. put_be24(q) \in Seq(Digits) /\ Len(put_be24(q)) = 3 /\ One(d) \in Seq(Digits) /\ Len(One(d)) = 1
    BY <1>3, <2>2, OneIs
  <2>4. /\ Join(put_be24(q), One(d)) \in Seq(Digits)
        /\ Len(Join(put_be24(q), One(d))) = Len(put_be24(q)) + Len(One(d))
    BY <2>3, JoinedBytes, Zenon
  <2> QED
    BY <2>2, <2>3, <2>4
<1> QED
  BY <1>1, <1>2, <1>3, <1>4

\* What put_be16 wrote get_be16 reads, wherever it stands.
LEMMA Read16 ==
    ASSUME NEW n \in Nat, n < Base16, NEW b, NEW p \in Int, At(b, p, put_be16(n))
    PROVE  get_be16(b, p) = n
<1>1. n \div Base \in Nat /\ n \div Base < Base /\ (n \div Base) * Base + (n % Base) = n
  BY BaseIs, Places DEF Base16
<1>2. (n \div Base) % Base = n \div Base
  BY <1>1, BaseIs
<1>3. put_be16(n) = <<n \div Base, n % Base>>
  BY <1>2 DEF put_be16
<1>4. b[p] = n \div Base /\ b[p + 1] = n % Base
  <2>1. 1 \in 1..2 /\ 2 \in 1..2 /\ p + 1 - 1 = p /\ p + 2 - 1 = p + 1
    OBVIOUS
  <2>2. \A i \in 1..2 : b[p + i - 1] = <<n \div Base, n % Base>>[i]
    BY <1>3 DEF At
  <2> QED
    BY <2>1, <2>2
<1> QED
  BY <1>1, <1>4 DEF get_be16

\* The same of three bytes.
LEMMA Read24 ==
    ASSUME NEW n \in Nat, n < Base16 * Base, NEW b, Len(b) \in Nat, NEW p \in Int, At(b, p, put_be24(n))
    PROVE  get_be24(b, p) = n
<1>1. PICK q, d : Follows(n, q, d)
  BY DEF Follows
<1>2. q \in Nat /\ q < Base16 /\ d \in Digits /\ q * Base + d = n
  BY <1>1, BaseIs, Places DEF Follows
<1>3. put_be24(n) = Join(put_be16(q), One(d))
  BY <1>1, NumberBytes
<1>4. put_be16(q) \in Seq(Digits) /\ Len(put_be16(q)) = 2 /\ One(d) \in Seq(Digits)
  BY <1>2, NumberBytes, OneIs
<1>5. At(b, p, put_be16(q)) /\ At(b, p + 2, One(d))
  BY <1>3, <1>4, AtFirst
<1>6. get_be16(b, p) = q /\ b[p + 2] = d
  BY <1>2, <1>5, Read16, AtOne
<1> QED
  BY <1>2, <1>6 DEF get_be24

\* The same of four.
LEMMA Read32 ==
    ASSUME NEW n \in Nat, n < Base32, NEW b, Len(b) \in Nat, NEW p \in Int, At(b, p, put_be32(n))
    PROVE  get_be32(b, p) = n
<1>0. Base32 = (Base16 * Base) * Base /\ Base16 * Base \in Nat
  BY BaseIs, ProductNat DEF Base32, Base16
<1>1. PICK q, d : Follows(n, q, d)
  BY DEF Follows
<1>2. q \in Nat /\ q < Base16 * Base /\ d \in Digits /\ q * Base + d = n
  BY <1>0, <1>1, Places DEF Follows
<1>3. put_be32(n) = Join(put_be24(q), One(d))
  BY <1>1, NumberBytes
<1>4. put_be24(q) \in Seq(Digits) /\ Len(put_be24(q)) = 3 /\ One(d) \in Seq(Digits)
  BY <1>2, NumberBytes, OneIs
<1>5. At(b, p, put_be24(q)) /\ At(b, p + 3, One(d))
  BY <1>3, <1>4, AtFirst
<1>6. get_be24(b, p) = q /\ b[p + 3] = d
  BY <1>2, <1>5, Read24, AtOne
<1> QED
  BY <1>2, <1>6 DEF get_be32

\* Strings.
LEMMA Markers == \A m \in {kAMFNumber, kAMFBoolean, kAMFString, kAMFObject, kAMFNull, kAMFObjectEnd, kAMFLongString} :
                    m \in Digits
  BY BaseIs DEF Digits, kAMFNumber, kAMFBoolean, kAMFString, kAMFObject, kAMFNull, kAMFObjectEnd, kAMFLongString

\* What put_string writes: a marker, a length of two or four bytes, the string.
LEMMA StringIs ==
    ASSUME NEW s \in Seq(Digits), Len(s) < Base32
    PROVE  \E m \in Digits, n \in Seq(Digits) :
             /\ put_string(s) = Three(One(m), n, s) /\ Len(s) \in Nat
             /\ \/ m = kAMFString /\ n = put_be16(Len(s)) /\ Len(n) = 2 /\ Len(s) < Base16
                \/ m = kAMFLongString /\ n = put_be32(Len(s)) /\ Len(n) = 4 /\ ~(Len(s) < Base16 - 1)
<1>1. Len(s) \in Nat /\ Base16 \in Nat
  BY LenProperties, BaseIs
<1>2. CASE Len(s) < Base16 - 1
  <2>1. put_be16(Len(s)) \in Seq(Digits) /\ Len(put_be16(Len(s))) = 2 /\ kAMFString \in Digits /\ Len(s) < Base16
    BY <1>1, <1>2, NumberBytes, Markers
  <2>2. put_string(s) = Three(One(kAMFString), put_be16(Len(s)), s)
    BY <1>2 DEF put_string, Three, One
  <2> QED
    BY <1>1, <2>1, <2>2
<1>3. CASE ~(Len(s) < Base16 - 1)
  <2>1. put_be32(Len(s)) \in Seq(Digits) /\ Len(put_be32(Len(s))) = 4 /\ kAMFLongString \in Digits
    BY <1>1, NumberBytes, Markers
  <2>2. put_string(s) = Three(One(kAMFLongString), put_be32(Len(s)), s)
    BY <1>3 DEF put_string, Three, One
  <2> QED
    BY <1>1, <1>3, <2>1, <2>2
<1> QED
  BY <1>2, <1>3

\* What put_string writes get_string reads.
LEMMA StringBack ==
    ASSUME NEW s \in Strings
    PROVE  StringReadBack(s)
<1>1. s \in Seq(Digits) /\ Len(s) < Base32
  BY BaseIs, LenProperties DEF Strings, Digits
<1>2. PICK m \in Digits, n \in Seq(Digits) :
        /\ put_string(s) = Three(One(m), n, s) /\ Len(s) \in Nat
        /\ \/ m = kAMFString /\ n = put_be16(Len(s)) /\ Len(n) = 2 /\ Len(s) < Base16
           \/ m = kAMFLongString /\ n = put_be32(Len(s)) /\ Len(n) = 4 /\ ~(Len(s) < Base16 - 1)
  BY <1>1, StringIs
<1>3. PICK w \in Seq(Digits) : w = put_string(s) /\ Len(w) = 1 + Len(n) + Len(s) /\ Len(w) \in Nat
  <2>1. One(m) \in Seq(Digits) /\ Len(One(m)) = 1
    BY <1>2, OneIs
  <2>2. Three(One(m), n, s) \in Seq(Digits) /\ Len(Three(One(m), n, s)) = Len(One(m)) + Len(n) + Len(s)
    BY <1>1, <1>2, <2>1, ThreeJoined, Zenon
  <2> QED
    BY <1>1, <1>2, <2>1, <2>2, LenProperties
<1>4. w[1] = m /\ At(w, 2, n) /\ At(w, 2 + Len(n), s)
  <2>1. At(w, 1, Three(One(m), n, s)) /\ 1 \in Int
    BY <1>2, <1>3, AtSelf
  <2>2. At(w, 1, One(m)) /\ At(w, 1 + Len(One(m)), n) /\ At(w, 1 + Len(One(m)) + Len(n), s)
    BY <1>1, <1>2, <1>3, <2>1, OneIs, ThreeJoined
  <2>3. Len(One(m)) = 1 /\ 1 + 1 = 2
    BY <1>2, OneIs
  <2> QED
    BY <2>1, <2>2, <2>3, AtOne
<1> DEFINE width == IF w[1] = kAMFString THEN 2 ELSE 4
           len == IF width = 2 THEN get_be16(w, 2) ELSE get_be32(w, 2)
<1>5. get_string(w, 1) = [val |-> SubSeq(w, 1 + 1 + width, 1 + width + len), bufsize |-> width + len]
  BY DEF get_string
<1>6. width = Len(n) /\ len = Len(s)
  <2>1. CASE m = kAMFString
    <3>1. n = put_be16(Len(s)) /\ Len(s) < Base16 /\ Len(n) = 2
      BY <1>2, <2>1 DEF kAMFString, kAMFLongString
    <3>2. get_be16(w, 2) = Len(s)
      BY <1>2, <1>4, <3>1, Read16
    <3> QED
      BY <1>4, <2>1, <3>1, <3>2
  <2>2. CASE m = kAMFLongString
    <3>1. n = put_be32(Len(s)) /\ w[1] # kAMFString /\ Len(n) = 4
      BY <1>2, <1>4, <2>2 DEF kAMFString, kAMFLongString
    <3>2. get_be32(w, 2) = Len(s)
      BY <1>1, <1>2, <1>3, <1>4, <3>1, Read32
    <3> QED
      BY <3>1, <3>2
  <2> QED
    BY <1>2, <2>1, <2>2
<1> HIDE DEF width, len
<1>7. SubSeq(w, 2 + Len(n), 2 + Len(n) + Len(s) - 1) = s
  <2>1. 2 + Len(n) \in Int
    BY <1>2
  <2> QED
    BY <1>1, <1>4, <2>1, AtIs
<1>8. 1 + 1 + width = 2 + Len(n) /\ 1 + width + len = 2 + Len(n) + Len(s) - 1 /\ width + len = Len(w) - 1
  BY <1>2, <1>3, <1>6
<1>9. get_string(w, 1) = [val |-> s, bufsize |-> Len(w) - 1]
  BY <1>5, <1>7, <1>8, Zenon
<1>10. get_string(w, 1).val = s /\ get_string(w, 1).bufsize = Len(w) - 1
  BY <1>9
<1> QED
  BY <1>3, <1>10 DEF StringReadBack

\* Control messages.
LEMMA HeaderIs ==
    ASSUME NEW length \in Nat, NEW type \in Digits
    PROVE  /\ ControlHeader(length, type) \in Seq(Digits) /\ Len(ControlHeader(length, type)) = 12
           /\ \A b : Len(b) \in Nat /\ At(b, 1, ControlHeader(length, type)) => At(b, 5, put_be24(length))
<1>0. PICK nil \in Nat, d \in Digits : nil = 0 /\ d = 2
  BY BaseIs DEF Digits
<1>1. PICK z \in Seq(Digits) : z = put_be24(nil) /\ Len(z) = 3
  BY <1>0, NumberBytes
<1>2. PICK l \in Seq(Digits) : l = put_be24(length) /\ Len(l) = 3
  BY NumberBytes
<1>3. PICK e \in Seq(Digits) : e = <<0, 0, 0, 0>> /\ Len(e) = 4
  <2>1. 0 \in Digits
    BY BaseIs DEF Digits
  <2>2. <<0, 0, 0, 0>> \in Seq(Digits) /\ Len(<<0, 0, 0, 0>>) = 4
    BY <2>1
  <2> QED
    BY <2>2
<1>4. ControlHeader(length, type) = Join(Four(One(d), z, l, One(type)), e)
  BY <1>0, <1>1, <1>2, <1>3 DEF ControlHeader, Four, Join, One
<1>5. One(d) \in Seq(Digits) /\ Len(One(d)) = 1 /\ One(type) \in Seq(Digits) /\ Len(One(type)) = 1
  BY <1>0, OneIs
<1>6. FourMake(One(d), z, l, One(type))
  BY <1>1, <1>2, <1>5, FourJoined
<1>7. PICK s \in Seq(Digits) : s = Four(One(d), z, l, One(type)) /\ Len(s) = 8
  BY <1>1, <1>2, <1>5, <1>6 DEF FourMake
<1>8. Join(s, e) \in Seq(Digits) /\ Len(Join(s, e)) = 12
  <2>1. Join(s, e) \in Seq(Digits) /\ Len(Join(s, e)) = Len(s) + Len(e)
    BY <1>3, <1>7, JoinedBytes, Zenon
  <2> QED
    BY <1>3, <1>7, <2>1
<1>9. ASSUME NEW b, Len(b) \in Nat, At(b, 1, Join(s, e)) PROVE At(b, 5, l)
  <2>0. 1 \in Int
    OBVIOUS
  <2>1. At(b, 1, s)
    BY <1>3, <1>7, <1>9, <2>0, AtFirst, Zenon
  <2>2. At(b, 1 + Len(One(d)) + Len(z), l)
    BY <1>7, <1>9, <1>6, <2>0, <2>1 DEF FourMake
  <2>3. 1 + Len(One(d)) + Len(z) = 5
    BY <1>1, <1>5
  <2> QED
    BY <2>2, <2>3
<1> QED
  BY <1>2, <1>4, <1>7, <1>8, <1>9

\* A message with its header.
LEMMA MessageIs ==
    ASSUME NEW length \in {4, 6, 10}, NEW type \in {1, 4}, NEW b \in Seq(Digits),
           Len(b) = 12 + length, At(b, 1, ControlHeader(length, type))
    PROVE  get_be24(b, 5) = Len(b) - 12
<1>1. length \in Nat /\ length < Base16 /\ type \in Digits
  BY BaseIs DEF Digits
<1>2. At(b, 5, put_be24(length)) /\ Len(b) \in Nat
  BY <1>1, HeaderIs
<1>3. length < Base16 * Base
  <2>1. PICK q \in Nat, r \in Nat : q = Base16 /\ r = Base - 1
    BY BaseIs
  <2>2. q * r \in Nat /\ q * (r + 1) = q * r + q
    BY ProductNat
  <2>3. Base = r + 1
    BY <2>1, BaseIs
  <2> QED
    BY <1>1, <2>1, <2>2, <2>3
<1>4. get_be24(b, 5) = length
  BY <1>1, <1>2, <1>3, Read24
<1> QED
  BY <1>1, <1>4

\* The control messages announce their lengths and are read back.
LEMMA ControlBack ==
    ASSUME NEW streamId \in 0..(Base32 - 1), NEW value \in 0..(Base32 - 1)
    PROVE  ControlReadBack(streamId, value)
<1>0. streamId \in Nat /\ streamId < Base32 /\ value \in Nat /\ value < Base32
  BY BaseIs
<1>1. PICK y \in Seq(Digits) : y = put_be32(streamId) /\ Len(y) = 4
  BY <1>0, NumberBytes
<1>2. PICK z \in Seq(Digits) : z = put_be32(value) /\ Len(z) = 4
  BY <1>0, NumberBytes
<1>3. ASSUME NEW length \in {4, 6, 10}, NEW type \in {1, 4}
      PROVE  ControlHeader(length, type) \in Seq(Digits) /\ Len(ControlHeader(length, type)) = 12
  <2>1. length \in Nat /\ type \in Digits
    BY BaseIs DEF Digits
  <2> QED
    BY <2>1, HeaderIs
<1>4. /\ get_be24(sendSetChunkSize(value), 5) = Len(sendSetChunkSize(value)) - 12
      /\ get_be32(sendSetChunkSize(value), 13) = value
  <2>0. PICK length \in {4, 6, 10}, type \in {1, 4} : length = 4 /\ type = 1
    OBVIOUS
  <2>1. PICK h \in Seq(Digits) : h = ControlHeader(length, type) /\ Len(h) = 12
    BY <1>3, <2>0
  <2>2. sendSetChunkSize(value) = Join(h, z)
    BY <1>2, <2>0, <2>1 DEF sendSetChunkSize, Join
  <2>3. PICK b \in Seq(Digits) : b = Join(h, z) /\ Len(b) = 12 + 4
    <3>1. Join(h, z) \in Seq(Digits) /\ Len(Join(h, z)) = Len(h) + Len(z)
      BY <1>2, <2>1, JoinedBytes, Zenon
    <3> QED
      BY <1>2, <2>1, <3>1
  <2>4. At(b, 1, Join(h, z)) /\ 1 \in Int /\ Len(b) \in Nat
    BY <2>3, AtSelf
  <2>5. At(b, 1, h) /\ At(b, 13, z)
    <3>1. At(b, 1, h) /\ At(b, 1 + Len(h), z)
      BY <1>2, <2>1, <2>4, AtFirst, Zenon
    <3> QED
      BY <2>1, <3>1
  <2>6. get_be24(b, 5) = Len(b) - 12
    BY <2>0, <2>1, <2>3, <2>5, MessageIs
  <2>7. get_be32(b, 13) = value
    BY <1>0, <1>2, <2>4, <2>5, Read32
  <2> QED
    BY <2>2, <2>3, <2>6, <2>7
<1>5. get_be24(sendPong, 5) = Len(sendPong) - 12
  <2>0. PICK length \in {4, 6, 10}, type \in {1, 4}, event \in Nat, nil \in Nat :
          length = 6 /\ type = 4 /\ event = 7 /\ nil = 0
    OBVIOUS
  <2>1. PICK h \in Seq(Digits) : h = ControlHeader(length, type) /\ Len(h) = 12
    BY <1>3, <2>0
  <2>2. PICK s \in Seq(Digits), t \in Seq(Digits) : s = put_be16(event) /\ Len(s) = 2 /\ t = put_be16(nil) /\ Len(t) = 2
    BY <2>0, NumberBytes
  <2>3. sendPong = Four(h, s, t, t)
    BY <2>0, <2>1, <2>2 DEF sendPong, Four
  <2>4. FourMake(h, s, t, t)
    BY <2>1, <2>2, FourJoined
  <2>5. PICK b \in Seq(Digits) : b = Four(h, s, t, t) /\ Len(b) = 12 + 6
    BY <2>1, <2>2, <2>4 DEF FourMake
  <2>6. At(b, 1, Four(h, s, t, t)) /\ 1 \in Int /\ Len(b) \in Nat
    BY <2>5, AtSelf
  <2>7. At(b, 1, h)
    BY <2>6, <2>4 DEF FourMake
  <2>8. get_be24(b, 5) = Len(b) - 12
    BY <2>0, <2>1, <2>5, <2>7, MessageIs
  <2> QED
    BY <2>3, <2>5, <2>8
<1>6. /\ get_be24(sendSetBufferTime(streamId, value), 5) = Len(sendSetBufferTime(streamId, value)) - 12
      /\ get_be32(sendSetBufferTime(streamId, value), 15) = streamId
      /\ get_be32(sendSetBufferTime(streamId, value), 19) = value
  <2>0. PICK length \in {4, 6, 10}, type \in {1, 4}, event \in Nat : length = 10 /\ type = 4 /\ event = 3
    OBVIOUS
  <2>1. PICK h \in Seq(Digits) : h = ControlHeader(length, type) /\ Len(h) = 12
    BY <1>3, <2>0
  <2>2. PICK s \in Seq(Digits) : s = put_be16(event) /\ Len(s) = 2
    BY <2>0, NumberBytes
  <2>3. sendSetBufferTime(streamId, value) = Four(h, s, y, z)
    BY <1>1, <1>2, <2>0, <2>1, <2>2 DEF sendSetBufferTime, Four
  <2>4. FourMake(h, s, y, z)
    BY <1>1, <1>2, <2>1, <2>2, FourJoined
  <2>5. PICK b \in Seq(Digits) : b = Four(h, s, y, z) /\ Len(b) = 12 + 10
    BY <1>1, <1>2, <2>1, <2>2, <2>4 DEF FourMake
  <2>6. At(b, 1, Four(h, s, y, z)) /\ 1 \in Int /\ Len(b) \in Nat
    BY <2>5, AtSelf
  <2>7. At(b, 1, h) /\ At(b, 1 + Len(h) + Len(s), y) /\ At(b, 1 + Len(h) + Len(s) + Len(y), z)
    BY <2>6, <2>4 DEF FourMake
  <2>8. 1 + Len(h) + Len(s) = 15 /\ 1 + Len(h) + Len(s) + Len(y) = 19
    BY <1>1, <2>1, <2>2
  <2>9. get_be24(b, 5) = Len(b) - 12
    BY <2>0, <2>1, <2>5, <2>7, MessageIs
  <2>10. get_be32(b, 15) = streamId /\ get_be32(b, 19) = value
    BY <1>0, <1>1, <1>2, <2>6, <2>7, <2>8, Read32
  <2> QED
    BY <2>3, <2>5, <2>9, <2>10
<1> QED
  BY <1>4, <1>5, <1>6 DEF ControlReadBack

-----------------------------------------------------------------------------
(* Walks over an answer. *)

\* What f is at p, where a walk from p stops with what found says or goes on to
\* the next position.
Walked(f, p, zero, stop, found, next) ==
    IF p = 0 THEN zero ELSE IF p \in stop THEN found[p] ELSE f[next[p]]

Walk(f, N, zero, stop, found, next) == f = [p \in 0..N |-> Walked(f, p, zero, stop, found, next)]

\* A walk that goes forward only, or to 0, comes to an end: the function exists.
LEMMA WalkExists ==
    ASSUME NEW N \in Nat, NEW zero, NEW stop, NEW found, NEW next,
           \A p \in 1..N : next[p] = 0 \/ next[p] \in (p + 1)..N
    PROVE  \E f : Walk(f, N, zero, stop, found, next)
<1> DEFINE Good(f, k) ==
             /\ DOMAIN f = 0..N /\ f = [p \in 0..N |-> f[p]]
             /\ \A p \in 0..N : p = 0 \/ p > N - k => f[p] = Walked(f, p, zero, stop, found, next)
           S == {k \in Nat : k <= N => \E f : Good(f, k)}
<1>1. 0 \in S
  <2>1. PICK f : f = [p \in 0..N |-> zero]
    OBVIOUS
  <2>2. f[0] = zero /\ DOMAIN f = 0..N /\ f = [p \in 0..N |-> f[p]] /\ \A p \in 0..N : ~(p > N - 0)
    BY <2>1
  <2>3. Good(f, 0)
    BY <2>2 DEF Walked
  <2> QED
    BY <2>3
<1>2. ASSUME NEW k \in Nat, k \in S, k + 1 <= N PROVE \E g : Good(g, k + 1)
  <2>1. PICK f : Good(f, k)
    BY <1>2
  <2>2. PICK q \in 1..N : q = N - k
    BY <1>2
  <2>3. PICK g : g = [p \in 0..N |-> IF p = q THEN Walked(f, q, zero, stop, found, next) ELSE f[p]]
    OBVIOUS
  <2>4. DOMAIN g = 0..N /\ g = [p \in 0..N |-> g[p]] /\ \A p \in 0..N : p # q => g[p] = f[p]
    BY <2>3
  <2>5. ASSUME NEW p \in 0..N, p = 0 \/ p >= q PROVE g[p] = Walked(g, p, zero, stop, found, next)
    <3>1. p = 0 \/ (next[p] \in 0..N /\ next[p] # q)
      <4>1. CASE p # 0
        <5>1. p \in 1..N
          BY <4>1
        <5> QED
          BY <2>2, <2>5, <4>1, <5>1
      <4> QED
        BY <4>1
    <3>2. Walked(g, p, zero, stop, found, next) = Walked(f, p, zero, stop, found, next)
      BY <2>4, <3>1 DEF Walked
    <3>3. g[p] = Walked(f, p, zero, stop, found, next)
      <4>1. CASE p = q
        BY <2>3, <4>1
      <4>2. CASE p # q
        <5>1. p = 0 \/ p > N - k
          BY <2>2, <2>5, <4>2
        <5> QED
          BY <2>1, <2>4, <4>2, <5>1
      <4> QED
        BY <4>1, <4>2
    <3> QED
      BY <3>2, <3>3
  <2>6. \A p \in 0..N : p > N - (k + 1) => p >= q
    BY <2>2
  <2> QED
    BY <2>4, <2>5, <2>6
<1>3. \A k \in Nat : k \in S => k + 1 \in S
  BY <1>2
<1>4. N \in S
  <2> HIDE DEF S
  <2>1. Nat \subseteq S
    BY <1>1, <1>3, SetInduction
  <2> QED
    BY <2>1
<1>5. PICK f : Good(f, N)
  BY <1>4
<1>6. \A p \in 0..N : f[p] = Walked(f, p, zero, stop, found, next)
  <2>1. \A p \in 0..N : p = 0 \/ p > N - N
    OBVIOUS
  <2> QED
    BY <1>5, <2>1
<1>7. f = [p \in 0..N |-> Walked(f, p, zero, stop, found, next)]
  BY <1>5, <1>6
<1> QED
  BY <1>7 DEF Walk

\* One step of the search for the object.
LEMMA FoundIs ==
    ASSUME NEW b, Len(b) \in Nat, NEW p \in 0..Len(b)
    PROVE  FoundObject(b)[p] = IF p = 0 THEN 0 ELSE IF b[p] = kAMFObject THEN Within(b, p, p + 1)
                               ELSE FoundObject(b)[Within(b, p, amfPrimitiveEnd(b, p))]
<1> DEFINE N == Len(b)
           stop == {x \in 1..N : b[x] = kAMFObject}
           found == [x \in 1..N |-> Within(b, x, x + 1)]
           next == [x \in 1..N |-> Within(b, x, amfPrimitiveEnd(b, x))]
           Body(f, x) == IF x = 0 THEN 0 ELSE IF b[x] = kAMFObject THEN Within(b, x, x + 1)
                         ELSE f[Within(b, x, amfPrimitiveEnd(b, x))]
<1>1. \A x \in 1..N : next[x] = 0 \/ next[x] \in (x + 1)..N
  BY DEF Within
<1>2. \E f : Walk(f, N, 0, stop, found, next)
  <2>1. N \in Nat
    OBVIOUS
  <2> HIDE DEF N, stop, found, next
  <2> QED
    BY <1>1, <2>1, WalkExists, Zenon
<1>3. ASSUME NEW f, Walk(f, N, 0, stop, found, next) PROVE f = [x \in 0..N |-> Body(f, x)]
  <2>1. ASSUME NEW x \in 0..N PROVE Walked(f, x, 0, stop, found, next) = Body(f, x)
    <3>1. CASE x = 0
      BY <3>1 DEF Walked
    <3>2. CASE x # 0
      <4>1. x \in 1..N
        BY <3>2
      <4> QED
        BY <3>2, <4>1 DEF Walked
    <3> QED
      BY <3>1, <3>2
  <2> QED
    BY <1>3, <2>1 DEF Walk
<1>4. \E f : f = [x \in 0..N |-> Body(f, x)]
  BY <1>2, <1>3
<1>5. FoundObject(b) = CHOOSE f : f = [x \in 0..N |-> Body(f, x)]
  BY DEF FoundObject
<1>6. FoundObject(b) = [x \in 0..N |-> Body(FoundObject(b), x)]
  BY <1>4, <1>5
<1> QED
  BY <1>6

\* One step of the search for the property.
LEMMA CodeIs ==
    ASSUME NEW b, Len(b) \in Nat, NEW code, NEW p \in 0..Len(b)
    PROVE  CodeIn(b, code)[p] = IF p = 0 THEN <<>> ELSE IF NameAt(b, p) = code THEN TextAt(b, ValueAt(b, p))
                                ELSE CodeIn(b, code)[NextProperty(b, p)]
<1> DEFINE N == Len(b)
           stop == {x \in 1..N : NameAt(b, x) = code}
           found == [x \in 1..N |-> TextAt(b, ValueAt(b, x))]
           next == [x \in 1..N |-> NextProperty(b, x)]
           Body(f, x) == IF x = 0 THEN <<>> ELSE IF NameAt(b, x) = code THEN TextAt(b, ValueAt(b, x))
                         ELSE f[NextProperty(b, x)]
<1>1. \A x \in 1..N : next[x] = 0 \/ next[x] \in (x + 1)..N
  BY DEF Within, NextProperty
<1>2. \E f : Walk(f, N, <<>>, stop, found, next)
  <2>1. N \in Nat
    OBVIOUS
  <2> HIDE DEF N, stop, found, next
  <2> QED
    BY <1>1, <2>1, WalkExists, Zenon
<1>3. ASSUME NEW f, Walk(f, N, <<>>, stop, found, next) PROVE f = [x \in 0..N |-> Body(f, x)]
  <2>1. ASSUME NEW x \in 0..N PROVE Walked(f, x, <<>>, stop, found, next) = Body(f, x)
    <3>1. CASE x = 0
      BY <3>1 DEF Walked
    <3>2. CASE x # 0
      <4>1. x \in 1..N
        BY <3>2
      <4> QED
        BY <3>2, <4>1 DEF Walked
    <3> QED
      BY <3>1, <3>2
  <2> QED
    BY <1>3, <2>1 DEF Walk
<1>4. \E f : f = [x \in 0..N |-> Body(f, x)]
  BY <1>2, <1>3
<1>5. CodeIn(b, code) = CHOOSE f : f = [x \in 0..N |-> Body(f, x)]
  BY DEF CodeIn
<1>6. CodeIn(b, code) = [x \in 0..N |-> Body(CodeIn(b, code), x)]
  BY <1>4, <1>5
<1> QED
  BY <1>6

\* f[i] is what the first i parts make.
Flattened(f, parts) == f = [i \in 1..Len(parts) |-> IF i = 1 THEN parts[i] ELSE Join(f[i - 1], parts[i])]

\* The function that FlattenSeq chooses exists.
LEMMA FlattenedExists ==
    ASSUME NEW parts, Len(parts) \in Nat
    PROVE  \E f : Flattened(f, parts)
<1> DEFINE Part(f, n) == f = [i \in 1..n |-> IF i = 1 THEN parts[i] ELSE Join(f[i - 1], parts[i])]
           S == {n \in Nat : \E f : Part(f, n)}
<1>1. 0 \in S
  <2>1. PICK f : f = [i \in 1..0 |-> 0]
    OBVIOUS
  <2>2. Part(f, 0)
    BY <2>1
  <2> QED
    BY <2>2
<1>2. ASSUME NEW k \in Nat, k \in S PROVE k + 1 \in S
  <2>1. PICK f : Part(f, k)
    BY <1>2
  <2>2. PICK g : g = [i \in 1..(k + 1) |-> IF i = 1 THEN parts[i] ELSE Join(f[i - 1], parts[i])]
    OBVIOUS
  <2>3. \A i \in 1..k : g[i] = f[i]
    BY <2>1, <2>2
  <2>4. \A i \in 1..(k + 1) : g[i] = IF i = 1 THEN parts[i] ELSE Join(g[i - 1], parts[i])
    <3> TAKE i \in 1..(k + 1)
    <3>1. i # 1 => i - 1 \in 1..k
      OBVIOUS
    <3>2. i # 1 => g[i - 1] = f[i - 1]
      BY <2>3, <3>1
    <3> QED
      BY <2>2, <3>2
  <2>5. Part(g, k + 1)
    BY <2>2, <2>4
  <2> QED
    BY <2>5
<1>3. Len(parts) \in S
  <2> HIDE DEF S
  <2>1. Nat \subseteq S
    BY <1>1, <1>2, SetInduction
  <2> QED
    BY <2>1
<1> QED
  BY <1>3 DEF Flattened

\* pos[i] is where part i starts in b, and pos[n + 1] where the parts end.
Placed(pos, b, p, parts) ==
    /\ pos \in [1..(Len(parts) + 1) -> Int] /\ pos[1] = p
    /\ \A i \in 1..Len(parts) : At(b, pos[i], parts[i]) /\ pos[i + 1] = pos[i] + Len(parts[i])

\* What FlattenSeq joins, and where each part of it stands.
LEMMA FlattenIs ==
    ASSUME NEW parts \in Seq(Seq(Digits))
    PROVE  /\ FlattenSeq(parts) \in Seq(Digits)
           /\ \A b, p : Len(b) \in Nat /\ p \in Int /\ At(b, p, FlattenSeq(parts))
                 => \E pos : Placed(pos, b, p, parts) /\ pos[Len(parts) + 1] = p + Len(FlattenSeq(parts))
<1>0. Len(parts) \in Nat /\ \A i \in 1..Len(parts) : parts[i] \in Seq(Digits)
  BY LenProperties, ElementOfSeq
<1>1. CASE Len(parts) = 0
  <2>1. FlattenSeq(parts) = parts /\ parts = <<>>
    BY <1>1, EmptySeq DEF FlattenSeq
  <2>2. parts \in Seq(Digits)
    BY <2>1
  <2>3. ASSUME NEW b, NEW p \in Int PROVE Placed([i \in 1..1 |-> p], b, p, parts)
    BY <1>1 DEF Placed
  <2>4. \A p \in Int : [i \in 1..1 |-> p][Len(parts) + 1] = p + Len(parts)
    BY <1>1
  <2> QED
    BY <2>1, <2>2, <2>3, <2>4
<1>2. CASE Len(parts) # 0
  <2> DEFINE n == Len(parts)
             Flat == CHOOSE f : f = [i \in 1..Len(parts) |-> IF i = 1 THEN parts[i] ELSE f[i - 1] \o parts[i]]
  <2>1. FlattenSeq(parts) = Flat[Len(parts)]
    BY <1>2 DEF FlattenSeq
  <2>2. Flattened(Flat, parts)
    BY <1>0, FlattenedExists DEF Flattened, Join
  <2>3. PICK f : Flattened(f, parts) /\ FlattenSeq(parts) = f[n]
    BY <2>1, <2>2
  <2> HIDE DEF Flat
  <2>4. n \in Nat /\ n > 0 /\ f[1] = parts[1] /\ \A i \in 1..n : i # 1 => f[i] = Join(f[i - 1], parts[i])
    <3>1. n \in Nat /\ n > 0
      BY <1>0, <1>2
    <3>2. f = [i \in 1..n |-> IF i = 1 THEN parts[i] ELSE Join(f[i - 1], parts[i])]
      BY <2>3 DEF Flattened
    <3> HIDE DEF n
    <3>3. \A i \in 1..n : f[i] = IF i = 1 THEN parts[i] ELSE Join(f[i - 1], parts[i])
      BY <3>2
    <3> QED
      BY <3>1, <3>3
  <2> HIDE DEF n
  <2>5. \A i \in 1..n : f[i] \in Seq(Digits)
    <3> DEFINE S == {k \in Nat : k + 1 <= n => f[k + 1] \in Seq(Digits)}
    <3>1. 0 \in S
      BY <1>0, <2>4 DEF n
    <3>2. ASSUME NEW k \in Nat, k \in S PROVE k + 1 \in S
      <4>1. SUFFICES ASSUME k + 2 <= n PROVE f[k + 2] \in Seq(Digits)
        BY DEF S
      <4>2. k + 2 \in 1..n /\ k + 1 \in 1..n /\ (k + 2) - 1 = k + 1 /\ k + 2 # 1
        BY <2>4, <4>1
      <4>3. f[k + 1] \in Seq(Digits) /\ parts[k + 2] \in Seq(Digits)
        BY <1>0, <3>2, <4>2 DEF n
      <4>4. f[k + 2] = Join(f[k + 1], parts[k + 2])
        BY <2>4, <4>2
      <4> QED
        BY <4>3, <4>4, JoinedBytes, Zenon
    <3>3. Nat \subseteq S
      <4> HIDE DEF S
      <4> QED
        BY <3>1, <3>2, SetInduction
    <3>4. ASSUME NEW i \in 1..n PROVE f[i] \in Seq(Digits)
      <4>1. PICK k \in Nat : k = i - 1 /\ i = k + 1 /\ k + 1 <= n
        BY <2>4
      <4>2. k \in S
        BY <3>3
      <4> QED
        BY <4>1, <4>2
    <3> QED
      BY <3>4
  <2>6. ASSUME NEW b, NEW p \in Int, Len(b) \in Nat, At(b, p, f[n])
        PROVE  \E pos : Placed(pos, b, p, parts) /\ pos[n + 1] = p + Len(f[n])
    <3>1. \A i \in 1..n : At(b, p, f[i])
      <4> DEFINE S == {k \in Nat : k < n => At(b, p, f[n - k])}
      <4>1. 0 \in S
        BY <2>4, <2>6
      <4>2. ASSUME NEW k \in Nat, k \in S PROVE k + 1 \in S
        <5>1. SUFFICES ASSUME k + 1 < n PROVE At(b, p, f[n - (k + 1)])
          BY DEF S
        <5>2. PICK j \in 2..n : j = n - k
          BY <2>4, <5>1
        <5>3. j \in 1..n /\ j - 1 \in 1..n /\ j # 1 /\ n - (k + 1) = j - 1
          BY <2>4, <5>2
        <5>4. At(b, p, Join(f[j - 1], parts[j]))
          <6>1. k < n
            BY <2>4, <5>1
          <6>2. At(b, p, f[j])
            BY <4>2, <5>2, <6>1
          <6> HIDE DEF S
          <6> QED
            BY <2>4, <5>3, <6>2
        <5>5. f[j - 1] \in Seq(Digits) /\ parts[j] \in Seq(Digits)
          BY <1>0, <2>5, <5>3 DEF n
        <5>6. At(b, p, f[j - 1])
          BY <2>6, <5>4, <5>5, AtFirst, Zenon
        <5> QED
          BY <5>3, <5>6
      <4>3. Nat \subseteq S
        <5> HIDE DEF S
        <5> QED
          BY <4>1, <4>2, SetInduction
      <4>4. ASSUME NEW i \in 1..n PROVE At(b, p, f[i])
        <5>1. PICK k \in Nat : k = n - i /\ n - k = i /\ k < n
          <6>1. n \in Nat /\ i \in 1..n
            BY <2>4, <4>4
          <6>2. n - i \in Nat /\ n - (n - i) = i /\ n - i < n
            BY <6>1
          <6> QED
            BY <6>2
        <5>2. k \in S
          BY <4>3
        <5> QED
          BY <5>1, <5>2
      <4> QED
        BY <4>4
    <3>2. \A i \in 1..n : Len(f[i]) \in Nat
      BY <2>5, LenProperties
    <3>3. PICK pos : pos = [i \in 1..(n + 1) |-> IF i = 1 THEN p ELSE p + Len(f[i - 1])]
      OBVIOUS
    <3>4. \A i \in 1..n : pos[i + 1] = p + Len(f[i]) /\ pos[i] \in Int
      <4> TAKE i \in 1..n
      <4>1. i + 1 \in 1..(n + 1) /\ i + 1 # 1 /\ (i + 1) - 1 = i /\ i \in 1..(n + 1) /\ (i # 1 => i - 1 \in 1..n)
        BY <2>4
      <4> QED
        BY <3>2, <3>3, <4>1
    <3>5. pos \in [1..(n + 1) -> Int] /\ pos[1] = p
      <4>1. \A i \in 1..(n + 1) : i # 1 => i - 1 \in 1..n
        BY <2>4
      <4>2. 1 \in 1..(n + 1)
        BY <2>4
      <4> QED
        BY <3>2, <3>3, <4>1, <4>2
    <3>6. ASSUME NEW i \in 1..n PROVE At(b, pos[i], parts[i]) /\ pos[i + 1] = pos[i] + Len(parts[i])
      <4>0. parts[i] \in Seq(Digits) /\ Len(parts[i]) \in Nat
        BY <1>0, LenProperties DEF n
      <4>1. CASE i = 1
        BY <2>4, <3>1, <3>4, <3>5, <4>1
      <4>2. CASE i # 1
        <5>1. i - 1 \in 1..n /\ (i - 1) + 1 = i
          BY <2>4, <4>2
        <5>2. f[i - 1] \in Seq(Digits) /\ Len(f[i - 1]) \in Nat /\ pos[i] = p + Len(f[i - 1])
          BY <2>5, <3>2, <3>4, <5>1
        <5>3. f[i] = Join(f[i - 1], parts[i]) /\ At(b, p, f[i])
          BY <2>4, <3>1, <4>2
        <5>4. Len(f[i]) = Len(f[i - 1]) + Len(parts[i])
          BY <4>0, <5>2, <5>3, JoinedBytes, Zenon
        <5>5. At(b, p + Len(f[i - 1]), parts[i])
          BY <2>6, <4>0, <5>2, <5>3, AtFirst, ZenonT(60)
        <5>6. pos[i + 1] = p + (Len(f[i - 1]) + Len(parts[i]))
          BY <3>4, <5>4
        <5>7. At(b, pos[i], parts[i])
          BY <5>2, <5>5, Zenon
        <5>8. pos[i + 1] = pos[i] + Len(parts[i])
          <6>1. PICK x \in Nat, y \in Nat : x = Len(f[i - 1]) /\ y = Len(parts[i])
            BY <4>0, <5>2
          <6>2. p \in Int /\ x \in Nat /\ y \in Nat
            BY <2>6, <6>1
          <6>3. p + (x + y) = (p + x) + y
            BY <6>2
          <6>4. pos[i + 1] = p + (x + y) /\ pos[i] = p + x
            BY <5>2, <5>6, <6>1, Zenon
          <6>5. pos[i + 1] = pos[i] + y
            BY <6>3, <6>4, Zenon
          <6> QED
            BY <6>1, <6>5
        <5> QED
          BY <5>7, <5>8
      <4> QED
        BY <4>1, <4>2
    <3>7. Placed(pos, b, p, parts)
      BY <3>5, <3>6 DEF Placed, n
    <3>8. pos[n + 1] = p + Len(f[n])
      <4>1. n \in 1..n
        BY <2>4
      <4> QED
        BY <3>4, <4>1
    <3> QED
      BY <3>7, <3>8
  <2>7. f[n] \in Seq(Digits)
    BY <2>4, <2>5
  <2> QED
    BY <2>3, <2>6, <2>7 DEF n
<1> QED
  BY <1>1, <1>2

-----------------------------------------------------------------------------
(* The values and properties of an answer. *)

\* The values of properties, and what parseStatusCode returns of one.
Value == Skipped \cup [t : {"string"}, v : Texts]
Said(v) == IF v.t = "string" THEN v.v ELSE <<>>

\* A text is a short string.
LEMMA TextIs == ASSUME NEW s \in Texts PROVE s \in Seq(Digits) /\ Len(s) \in Nat /\ Len(s) < Base /\ Len(s) < Base16 - 1
<1>1. s \in Seq(Digits)
  <2>1. 1..(Base - 1) \subseteq Digits
    BY BaseIs DEF Digits
  <2>2. s \in Seq(1..(Base - 1))
    BY DEF Texts
  <2>3. Len(s) \in Nat /\ s = [i \in 1..Len(s) |-> s[i]] /\ \A i \in 1..Len(s) : s[i] \in 1..(Base - 1)
    BY <2>2, LenProperties, ElementOfSeq
  <2>4. \A i \in 1..Len(s) : s[i] \in Digits
    BY <2>1, <2>3
  <2> QED
    BY <2>3, <2>4
<1>2. Len(s) \in Nat
  BY <1>1, LenProperties
<1>3. Len(s) < Base
  BY <1>2, BaseIs DEF Texts
<1>4. Base < Base16 - 1
  <2>1. Base \in Nat /\ Base > 12 /\ Base16 = Base * Base
    BY BaseIs DEF Base16
  <2>2. (Base - 2) * (Base - 2) \in Nat /\ (Base - 2) * (Base - 2) = Base * Base - 4 * Base + 4
    BY <2>1, ProductNat
  <2> QED
    BY <2>1, <2>2
<1> QED
  BY <1>1, <1>2, <1>3, <1>4, BaseIs

\* What b says of the value v at p.
ValueRead(v, b, p) ==
    /\ b[p] \in {kAMFNumber, kAMFBoolean, kAMFString, kAMFNull} /\ p <= Len(b)
    /\ v.t # "string" => b[p] # kAMFString /\ amfPrimitiveEnd(b, p) = p + Len(Bytes(v))
    /\ v.t = "string" => /\ b[p] = kAMFString /\ SubSeq(b, p + 3, p + 2 + get_be16(b, p + 1)) = v.v
                         /\ p + 3 + get_be16(b, p + 1) = p + Len(Bytes(v))

\* v is some bytes, and those say v wherever they stand.
Written(v) ==
    /\ Bytes(v) \in Seq(Digits) /\ Len(Bytes(v)) \in Nat /\ Len(Bytes(v)) > 0
    /\ \A b, p : Len(b) \in Nat /\ p \in Int /\ At(b, p, Bytes(v)) => ValueRead(v, b, p)

\* A number is nine bytes, the marker the first.
LEMMA NumberWritten ==
    ASSUME NEW n \in Nat
    PROVE  /\ put_double(n) \in Seq(Digits) /\ Len(put_double(n)) = 9
           /\ \A b, p : Len(b) \in Nat /\ p \in Int /\ At(b, p, put_double(n)) => b[p] = kAMFNumber /\ p <= Len(b)
<1>1. PICK h \in Nat : h = n \div Base32
  BY BaseIs
<1>2. PICK m \in Digits : m = kAMFNumber
  BY Markers
<1>3. PICK s \in Seq(Digits), t \in Seq(Digits) : s = put_be32(h) /\ t = put_be32(n) /\ Len(s) = 4 /\ Len(t) = 4
  BY <1>1, NumberBytes
<1>4. put_double(n) = Three(One(m), s, t)
  BY <1>1, <1>2, <1>3 DEF put_double, Three, One
<1>5. PICK o \in Seq(Digits) : o = One(m) /\ Len(o) = 1
  BY <1>2, OneIs
<1>6. /\ Three(o, s, t) \in Seq(Digits) /\ Len(Three(o, s, t)) = Len(o) + Len(s) + Len(t)
      /\ \A b, p : p \in Int /\ Len(b) \in Nat /\ At(b, p, Three(o, s, t)) => At(b, p, o)
  BY <1>3, <1>5, ThreeJoined
<1>7. Len(Three(o, s, t)) = 9
  BY <1>3, <1>5, <1>6
<1>8. ASSUME NEW b, NEW p \in Int, Len(b) \in Nat, At(b, p, Three(o, s, t)) PROVE b[p] = m /\ p <= Len(b)
  BY <1>5, <1>6, <1>8, AtOne
<1> QED
  BY <1>2, <1>4, <1>5, <1>6, <1>7, <1>8

\* The parser steps over a number, a boolean or a null as a whole.
LEMMA SkippedWritten ==
    ASSUME NEW v \in Skipped
    PROVE  Written(v)
<1>0. v.t \in {"number", "bool", "null"} /\ v.t # "string"
  BY DEF Skipped
<1>1. CASE v.t = "number"
  <2>1. v.v \in Nat /\ Bytes(v) = put_double(v.v)
    BY <1>1, BaseIs, ProductNat DEF Skipped, Bytes
  <2>2. /\ Bytes(v) \in Seq(Digits) /\ Len(Bytes(v)) = 9
        /\ \A b, p : Len(b) \in Nat /\ p \in Int /\ At(b, p, Bytes(v)) => b[p] = kAMFNumber /\ p <= Len(b)
    BY <2>1, NumberWritten
  <2>3. ASSUME NEW b, NEW p \in Int, b[p] = kAMFNumber, p <= Len(b) PROVE ValueRead(v, b, p)
    <3>1. amfPrimitiveEnd(b, p) = p + 9 /\ b[p] # kAMFString
      BY <2>3 DEF amfPrimitiveEnd, kAMFNumber, kAMFString, kAMFBoolean, kAMFNull, kAMFLongString
    <3> QED
      BY <1>0, <2>2, <2>3, <3>1 DEF ValueRead
  <2> QED
    BY <2>2, <2>3 DEF Written
<1>2. CASE v.t = "bool"
  <2>1. PICK x \in Digits, m \in Digits : x = v.v /\ m = kAMFBoolean
    BY <1>2, BaseIs, Markers DEF Skipped, Digits
  <2>2. PICK o \in Seq(Digits), q \in Seq(Digits) : o = One(m) /\ q = One(x) /\ Len(o) = 1 /\ Len(q) = 1
    BY OneIs, <2>1
  <2>3. Bytes(v) = Join(o, q)
    BY <1>2, <2>1, <2>2 DEF Bytes, put_bool, Join, One
  <2>4. Join(o, q) \in Seq(Digits) /\ Len(Join(o, q)) = Len(o) + Len(q)
    BY <2>2, JoinedBytes, Zenon
  <2>5. Bytes(v) \in Seq(Digits) /\ Len(Bytes(v)) = 2
    BY <2>2, <2>3, <2>4
  <2>6. ASSUME NEW b, NEW p \in Int, Len(b) \in Nat, At(b, p, Bytes(v)) PROVE ValueRead(v, b, p)
    <3>1. At(b, p, o)
      BY <2>2, <2>3, <2>6, AtFirst
    <3>2. b[p] = kAMFBoolean /\ p <= Len(b)
      BY <2>1, <2>2, <3>1, AtOne
    <3>3. amfPrimitiveEnd(b, p) = p + 2 /\ b[p] # kAMFString
      BY <3>2 DEF amfPrimitiveEnd, kAMFNumber, kAMFString, kAMFBoolean, kAMFNull, kAMFLongString
    <3> QED
      BY <1>0, <2>5, <3>2, <3>3 DEF ValueRead
  <2> QED
    BY <2>5, <2>6 DEF Written
<1>3. CASE v.t = "null"
  <2>1. PICK m \in Digits : m = kAMFNull
    BY Markers
  <2>2. Bytes(v) = One(m) /\ Bytes(v) \in Seq(Digits) /\ Len(Bytes(v)) = 1
    BY <1>3, <2>1, OneIs DEF Bytes, One
  <2>3. ASSUME NEW b, NEW p \in Int, Len(b) \in Nat, At(b, p, Bytes(v)) PROVE ValueRead(v, b, p)
    <3>1. b[p] = kAMFNull /\ p <= Len(b)
      BY <2>1, <2>2, <2>3, AtOne
    <3>2. amfPrimitiveEnd(b, p) = p + 1 /\ b[p] # kAMFString
      BY <3>1 DEF amfPrimitiveEnd, kAMFNumber, kAMFString, kAMFBoolean, kAMFNull, kAMFLongString
    <3> QED
      BY <1>0, <2>2, <3>1, <3>2 DEF ValueRead
  <2> QED
    BY <2>2, <2>3 DEF Written
<1> QED
  BY <1>0, <1>1, <1>2, <1>3

\* The text of a short string is read, and its end found.
LEMMA TextWritten ==
    ASSUME NEW v \in [t : {"string"}, v : Texts]
    PROVE  Written(v)
<1>0. PICK s \in Texts : s = v.v /\ v.t = "string" /\ Bytes(v) = put_string(s)
  BY DEF Bytes
<1>1. s \in Seq(Digits) /\ Len(s) \in Nat /\ Len(s) < Base16 - 1 /\ Len(s) < Base16 /\ Base16 \in Nat
  BY <1>0, TextIs, BaseIs
<1>2. PICK n \in Seq(Digits), m \in Digits : n = put_be16(Len(s)) /\ Len(n) = 2 /\ m = kAMFString
  BY <1>1, NumberBytes, Markers
<1>3. Bytes(v) = Three(One(m), n, s)
  BY <1>0, <1>1, <1>2 DEF put_string, Three, One
<1>4. PICK o \in Seq(Digits) : o = One(m) /\ Len(o) = 1
  BY <1>2, OneIs
<1>5. /\ Three(o, n, s) \in Seq(Digits) /\ Len(Three(o, n, s)) = Len(o) + Len(n) + Len(s)
      /\ \A b, p : p \in Int /\ Len(b) \in Nat /\ At(b, p, Three(o, n, s))
            => At(b, p, o) /\ At(b, p + Len(o), n) /\ At(b, p + Len(o) + Len(n), s)
  BY <1>1, <1>2, <1>4, ThreeJoined, ZenonT(60)
<1>6. Bytes(v) \in Seq(Digits) /\ Len(Bytes(v)) = 3 + Len(s)
  BY <1>1, <1>2, <1>3, <1>4, <1>5
<1>7. ASSUME NEW b, NEW p \in Int, Len(b) \in Nat, At(b, p, Bytes(v)) PROVE ValueRead(v, b, p)
  <2>1. At(b, p, o) /\ At(b, p + 1, n) /\ At(b, p + 3, s)
    <3>1. At(b, p, o) /\ At(b, p + Len(o), n) /\ At(b, p + Len(o) + Len(n), s)
      BY <1>3, <1>4, <1>5, <1>7
    <3>2. p + Len(o) = p + 1 /\ p + Len(o) + Len(n) = p + 3
      BY <1>2, <1>4
    <3> QED
      BY <3>1, <3>2
  <2>2. b[p] = kAMFString /\ p <= Len(b)
    BY <1>2, <1>4, <2>1, AtOne
  <2>3. get_be16(b, p + 1) = Len(s)
    BY <1>1, <1>2, <2>1, Read16
  <2>4. SubSeq(b, p + 3, p + 3 + Len(s) - 1) = s
    BY <1>1, <2>1, AtIs
  <2>5. p + 3 + Len(s) - 1 = p + 2 + Len(s)
    BY <1>1
  <2>6. SubSeq(b, p + 3, p + 2 + get_be16(b, p + 1)) = s
    BY <2>3, <2>4, <2>5
  <2>7. p + 3 + get_be16(b, p + 1) = p + Len(Bytes(v))
    BY SMTT(30), <1>1, <1>6, <2>3
  <2> QED
    BY <1>0, <2>2, <2>6, <2>7 DEF ValueRead
<1> QED
  BY <1>1, <1>6, <1>7 DEF Written

\* Both of these.
LEMMA ValueWritten ==
    ASSUME NEW v \in Value
    PROVE  Written(v)
  BY SkippedWritten, TextWritten DEF Value

\* The text of a value and its end, as the parser finds them.
LEMMA ValueSaid ==
    ASSUME NEW v \in Value, NEW b, NEW p \in Int, Len(b) \in Nat, At(b, p, Bytes(v))
    PROVE  /\ b[p] \in {kAMFNumber, kAMFBoolean, kAMFString, kAMFNull} /\ p <= Len(b)
           /\ TextAt(b, p) = Said(v) /\ ValueEnd(b, p) = p + Len(Bytes(v))
<1>1. ValueRead(v, b, p)
  BY ValueWritten DEF Written
<1>2. CASE v.t = "string"
  BY <1>1, <1>2 DEF ValueRead, TextAt, ValueEnd, Said
<1>3. CASE v.t # "string"
  BY <1>1, <1>3 DEF ValueRead, TextAt, ValueEnd, Said
<1> QED
  BY <1>1, <1>2, <1>3 DEF ValueRead

\* The bytes of the property x, and what b says of it at p.
PropertyBytes(x) == put_name(x.name) \o Bytes(x.value)

PropertyRead(x, b, p) ==
    /\ p <= Len(b) /\ NameAt(b, p) = x.name /\ TextAt(b, ValueAt(b, p)) = Said(x.value)
    /\ ValueEnd(b, ValueAt(b, p)) = p + Len(PropertyBytes(x))
    /\ get_be24(b, p) # kAMFObjectEnd

\* The parser reads the name and the value of a property, finds its end, and
\* does not take it for the end of the object.
LEMMA PropertyWritten ==
    ASSUME NEW x \in Property
    PROVE  /\ PropertyBytes(x) \in Seq(Digits) /\ Len(PropertyBytes(x)) \in Nat /\ Len(PropertyBytes(x)) > 0
           /\ \A b, p : Len(b) \in Nat /\ p \in Int /\ At(b, p, PropertyBytes(x)) => PropertyRead(x, b, p)
<1>1. PICK s \in Texts, v \in Value : s = x.name /\ v = x.value
  BY DEF Property, Value
<1>2. s \in Seq(Digits) /\ Len(s) \in Nat /\ Len(s) < Base /\ Len(s) < Base16
  BY <1>1, TextIs, BaseIs
<1>3. PICK n \in Seq(Digits) : n = put_be16(Len(s)) /\ Len(n) = 2
  BY <1>2, NumberBytes
<1>4. PICK y \in Seq(Digits) : y = Bytes(v) /\ Len(y) \in Nat /\ Len(y) > 0
  BY <1>1, ValueWritten DEF Written
<1>5. PropertyBytes(x) = Three(n, s, y)
  BY <1>1, <1>3, <1>4 DEF PropertyBytes, put_name, Three
<1>6. /\ Three(n, s, y) \in Seq(Digits) /\ Len(Three(n, s, y)) = Len(n) + Len(s) + Len(y)
      /\ \A b, p : p \in Int /\ Len(b) \in Nat /\ At(b, p, Three(n, s, y))
            => At(b, p, n) /\ At(b, p + Len(n), s) /\ At(b, p + Len(n) + Len(s), y)
  BY <1>2, <1>3, <1>4, ThreeJoined, ZenonT(60)
<1>7. PropertyBytes(x) \in Seq(Digits) /\ Len(PropertyBytes(x)) = 2 + Len(s) + Len(y)
  BY <1>3, <1>5, <1>6
<1>8. ASSUME NEW b, NEW p \in Int, Len(b) \in Nat, At(b, p, PropertyBytes(x)) PROVE PropertyRead(x, b, p)
  <2>1. At(b, p, n) /\ At(b, p + 2, s) /\ At(b, p + 2 + Len(s), y)
    <3>1. At(b, p, n) /\ At(b, p + Len(n), s) /\ At(b, p + Len(n) + Len(s), y)
      BY <1>5, <1>6, <1>8
    <3> QED
      BY <1>3, <3>1
  <2>2. get_be16(b, p) = Len(s)
    BY <1>2, <1>3, <2>1, Read16
  <2>3. PICK q \in Int : q = p + 2 + Len(s)
    BY <1>2, <1>8
  <2>4. ValueAt(b, p) = q
    BY <2>2, <2>3 DEF ValueAt
  <2>5. /\ b[q] \in {kAMFNumber, kAMFBoolean, kAMFString, kAMFNull} /\ q <= Len(b)
        /\ TextAt(b, q) = Said(v) /\ ValueEnd(b, q) = q + Len(y)
    BY <1>1, <1>4, <1>8, <2>1, <2>3, ValueSaid
  <2>6. NameAt(b, p) = s
    <3>1. SubSeq(b, p + 2, p + 2 + Len(s) - 1) = s
      BY <1>2, <1>8, <2>1, AtIs
    <3>2. p + 2 + Len(s) - 1 = p + 1 + Len(s)
      BY <1>2, <1>8
    <3> QED
      BY <2>2, <3>1, <3>2 DEF NameAt
  <2>7. get_be24(b, p) # kAMFObjectEnd
    <3>1. get_be24(b, p) = Len(s) * Base + b[p + 2]
      BY <2>2 DEF get_be24
    <3>2. CASE Len(s) = 0
      <4>1. q = p + 2
        BY <1>8, <2>3, <3>2
      <4>2. b[p + 2] \in {0, 1, 2, 5}
        BY <2>5, <4>1 DEF kAMFNumber, kAMFBoolean, kAMFString, kAMFNull
      <4>3. Len(s) * Base = 0
        BY <3>2, BaseIs
      <4> QED
        BY <3>1, <4>2, <4>3 DEF kAMFObjectEnd
    <3>3. CASE Len(s) # 0
      <4>1. 1 \in 1..Len(s) /\ p + 2 + 1 - 1 = p + 2
        BY <1>2, <1>8, <3>3
      <4>2. b[p + 2] = s[1]
        BY <2>1, <4>1 DEF At
      <4>3. s[1] \in Digits
        BY <1>2, <4>1, ElementOfSeq
      <4>4. b[p + 2] \in Nat
        BY <4>2, <4>3, BaseIs DEF Digits
      <4>5. Len(s) * Base >= Base
        <5>1. PICK k \in Nat : Len(s) = k + 1
          BY <1>2, <3>3
        <5>2. k * Base \in Nat
          BY BaseIs, ProductNat
        <5>3. (k + 1) * Base = k * Base + Base
          BY BaseIs
        <5> QED
          BY <5>1, <5>2, <5>3, BaseIs
      <4>6. PICK z \in Int : z = Len(s) * Base /\ z > 12
        BY <1>2, <4>5, BaseIs
      <4> QED
        BY <3>1, <4>4, <4>6 DEF kAMFObjectEnd
    <3> QED
      BY <3>2, <3>3
  <2>8. q + Len(y) = p + Len(PropertyBytes(x)) /\ p <= Len(b)
    BY <1>2, <1>4, <1>7, <1>8, <2>3, <2>5
  <2> QED
    BY <1>1, <2>4, <2>5, <2>6, <2>7, <2>8 DEF PropertyRead
<1> QED
  BY <1>2, <1>4, <1>7, <1>8

-----------------------------------------------------------------------------
(* The status code of an answer. *)

\* The parts stand behind the first one.
LEMMA PlacedBehind ==
    ASSUME NEW parts \in Seq(Seq(Digits)), NEW b, NEW p \in Int, NEW pos, Placed(pos, b, p, parts)
    PROVE  \A i \in 1..(Len(parts) + 1) : pos[i] \in Int /\ pos[i] >= p
<1>1. Len(parts) \in Nat /\ \A i \in 1..Len(parts) : Len(parts[i]) \in Nat
  BY LenProperties, ElementOfSeq
<1>2. /\ \A i \in 1..(Len(parts) + 1) : pos[i] \in Int
      /\ pos[1] = p /\ \A i \in 1..Len(parts) : pos[i + 1] = pos[i] + Len(parts[i])
  BY DEF Placed
<1> DEFINE S == {k \in Nat : k + 1 <= Len(parts) + 1 => pos[k + 1] >= p}
<1>3. 0 \in S
  BY <1>2
<1>4. ASSUME NEW k \in Nat, k \in S PROVE k + 1 \in S
  <2>1. SUFFICES ASSUME k + 1 < Len(parts) + 1 PROVE pos[(k + 1) + 1] >= p
    BY <1>1
  <2>2. PICK i \in 1..Len(parts) : i = k + 1
    BY <1>1, <2>1
  <2>3. pos[i] >= p /\ pos[i] \in Int
    BY <1>1, <1>2, <1>4, <2>2
  <2>4. PICK z \in Nat : z = Len(parts[i]) /\ pos[i + 1] = pos[i] + z
    BY <1>1, <1>2
  <2> QED
    BY <2>2, <2>3, <2>4
<1>5. Nat \subseteq S
  <2> HIDE DEF S
  <2> QED
    BY <1>3, <1>4, SetInduction
<1>6. ASSUME NEW i \in 1..(Len(parts) + 1) PROVE pos[i] >= p
  <2>1. PICK k \in Nat : k = i - 1 /\ i = k + 1 /\ k + 1 <= Len(parts) + 1
    BY <1>1
  <2>2. k \in S
    BY <1>5
  <2> QED
    BY <2>1, <2>2
<1> QED
  BY <1>2, <1>6

\* The parts of what stands in front of the object's marker at o start at p.
ObjectBehind(n, before, parts, b, p, pos, o) ==
    /\ n \in Nat /\ parts \in Seq(Seq(Digits)) /\ Len(parts) = n
    /\ \A i \in 1..n : before[i] \in Skipped /\ parts[i] = Bytes(before[i])
    /\ Len(b) \in Nat /\ p \in Int /\ p >= 1 /\ Placed(pos, b, p, parts)
    /\ o \in Int /\ o = pos[n + 1] /\ b[o] = kAMFObject /\ o + 1 <= Len(b)

\* The search for the object steps over what stands in front of it.
LEMMA ObjectFound ==
    ASSUME NEW n, NEW before, NEW parts, NEW b, NEW p, NEW pos, NEW o, ObjectBehind(n, before, parts, b, p, pos, o)
    PROVE  FoundObject(b)[p] = o + 1
<1>0. /\ n \in Nat /\ parts \in Seq(Seq(Digits)) /\ Len(parts) = n
      /\ \A i \in 1..n : before[i] \in Skipped /\ parts[i] = Bytes(before[i])
      /\ Len(b) \in Nat /\ p \in Int /\ p >= 1 /\ Placed(pos, b, p, parts)
      /\ o \in Int /\ o = pos[n + 1] /\ b[o] = kAMFObject /\ o + 1 <= Len(b)
  BY DEF ObjectBehind
<1>1. \A i \in 1..(n + 1) : pos[i] \in Int /\ pos[i] >= 1
  BY <1>0, PlacedBehind
<1>2. pos[1] = p /\ \A i \in 1..n : At(b, pos[i], parts[i]) /\ pos[i + 1] = pos[i] + Len(parts[i])
  BY <1>0 DEF Placed
<1> DEFINE S == {i \in 1..(n + 1) : FoundObject(b)[pos[i]] = o + 1}
<1>3. n + 1 \in S
  <2>1. o \in 0..Len(b) /\ o # 0 /\ n + 1 \in 1..(n + 1)
    BY <1>0, <1>1
  <2>2. FoundObject(b)[o] = Within(b, o, o + 1)
    BY <1>0, <2>1, FoundIs
  <2>3. Within(b, o, o + 1) = o + 1
    BY <1>0 DEF Within
  <2> QED
    BY <1>0, <2>1, <2>2, <2>3
<1>4. ASSUME NEW i \in 1..n, i + 1 \in S PROVE i \in S
  <2>1. i \in 1..(n + 1) /\ i + 1 \in 1..(n + 1) /\ before[i] \in Skipped
    BY <1>0
  <2>2. PICK q \in Int, r \in Int : q = pos[i] /\ r = pos[i + 1] /\ q >= 1 /\ r >= 1
    BY <1>1, <2>1
  <2>3. PICK z \in Nat : z = Len(Bytes(before[i])) /\ z > 0 /\ Written(before[i]) /\ before[i].t # "string"
    BY <2>1, SkippedWritten DEF Written, Skipped
  <2>4. At(b, q, Bytes(before[i])) /\ r = q + z
    BY <1>0, <1>2, <1>4, <2>2, <2>3
  <2>5. ValueRead(before[i], b, q)
    BY <2>3, <2>4 DEF Written
  <2>6. /\ b[q] \in {kAMFNumber, kAMFBoolean, kAMFString, kAMFNull} /\ q <= Len(b)
        /\ amfPrimitiveEnd(b, q) = r
    BY <2>3, <2>4, <2>5 DEF ValueRead
  <2>7. r <= Len(b)
    <3>1. CASE i = n
      BY <1>0, <2>2, <3>1
    <3>2. CASE i # n
      <4>1. i + 1 \in 1..n /\ before[i + 1] \in Skipped
        BY <1>0, <3>2
      <4>2. At(b, r, Bytes(before[i + 1]))
        BY <1>0, <1>2, <2>2, <4>1
      <4>3. Written(before[i + 1])
        BY <4>1, SkippedWritten
      <4>4. ValueRead(before[i + 1], b, r)
        BY <4>2, <4>3 DEF Written
      <4> QED
        BY <4>4 DEF ValueRead
    <3> QED
      BY <3>1, <3>2
  <2>8. Within(b, q, r) = r
    BY <2>3, <2>4, <2>7 DEF Within
  <2>9. q \in 0..Len(b) /\ q # 0 /\ b[q] # kAMFObject
    <3>1. q >= 1 /\ q <= Len(b)
      BY <2>2, <2>6
    <3>2. b[q] \in {0, 1, 2, 5}
      BY <2>6 DEF kAMFNumber, kAMFBoolean, kAMFString, kAMFNull
    <3> QED
      BY <3>1, <3>2 DEF kAMFObject
  <2>10. FoundObject(b)[q] = FoundObject(b)[Within(b, q, amfPrimitiveEnd(b, q))]
    BY <2>9, FoundIs
  <2> QED
    BY <1>4, <2>1, <2>2, <2>6, <2>8, <2>10
<1>5. 1 \in S
  <2> HIDE DEF S
  <2>1. PICK m \in Nat : m = n + 1 /\ m - 1 = n /\ 1 \in 1..m
    BY <1>0
  <2>2. m \in S /\ \A i \in 1..(m - 1) : i + 1 \in S => i \in S
    BY <1>3, <1>4, <2>1
  <2>3. 1..m \subseteq S
    BY <2>2, Downward
  <2> QED
    BY <2>1, <2>3
<1> QED
  BY <1>2, <1>5

\* What parseStatusCode may find of the properties i and on.
Outcome(text, i, properties, code) ==
    \/ \E j \in i..Len(properties) :
          /\ properties[j].name = code /\ \A k \in i..(j - 1) : properties[k].name # code
          /\ text = Said(properties[j].value)
    \/ text = <<>> /\ \A k \in i..Len(properties) : properties[k].name # code

\* The search for the property steps over the ones in front of it.
LEMMA CodeFound ==
    ASSUME NEW properties \in Seq(Property), NEW m \in Nat, Len(properties) = m, m > 0, NEW code,
           NEW parts \in Seq(Seq(Digits)), Len(parts) = m, \A i \in 1..m : parts[i] = PropertyBytes(properties[i]),
           NEW b, Len(b) \in Nat, NEW p \in Int, p >= 1, NEW pos, Placed(pos, b, p, parts),
           pos[m + 1] <= Len(b), get_be24(b, pos[m + 1]) = kAMFObjectEnd
    PROVE  Outcome(CodeIn(b, code)[p], 1, properties, code)
<1>1. \A i \in 1..(m + 1) : pos[i] \in Int /\ pos[i] >= 1
  BY PlacedBehind
<1>2. pos[1] = p /\ \A i \in 1..m : At(b, pos[i], parts[i]) /\ pos[i + 1] = pos[i] + Len(parts[i])
  BY DEF Placed
<1>3. ASSUME NEW i \in 1..m
      PROVE  /\ properties[i] \in Property /\ PropertyRead(properties[i], b, pos[i])
             /\ Len(parts[i]) \in Nat /\ Len(parts[i]) > 0
  <2>1. properties[i] \in Property /\ pos[i] \in Int /\ At(b, pos[i], PropertyBytes(properties[i]))
    BY <1>1, <1>2, ElementOfSeq
  <2> QED
    BY <2>1, PropertyWritten
<1>4. ASSUME NEW i \in 1..m
      PROVE  /\ pos[i] \in 0..Len(b) /\ pos[i] # 0 /\ NameAt(b, pos[i]) = properties[i].name
             /\ TextAt(b, ValueAt(b, pos[i])) = Said(properties[i].value)
             /\ NextProperty(b, pos[i]) = IF i = m THEN 0 ELSE pos[i + 1]
  <2>1. PICK q \in Int, r \in Int : q = pos[i] /\ r = pos[i + 1] /\ q >= 1 /\ r >= 1
    BY SMTT(30), <1>1
  <2>2. PICK z \in Nat : z = Len(parts[i]) /\ z > 0 /\ r = q + z /\ z = Len(PropertyBytes(properties[i]))
    BY <1>2, <1>3, <2>1
  <2>3. /\ q <= Len(b) /\ NameAt(b, q) = properties[i].name /\ TextAt(b, ValueAt(b, q)) = Said(properties[i].value)
        /\ ValueEnd(b, ValueAt(b, q)) = r
    BY <1>3, <2>1, <2>2 DEF PropertyRead
  <2>4. r <= Len(b) /\ (get_be24(b, r) = kAMFObjectEnd <=> i = m)
    <3>1. CASE i = m
      BY <2>1, <3>1
    <3>2. CASE i # m
      <4>1. i + 1 \in 1..m
        BY <3>2
      <4>2. PropertyRead(properties[i + 1], b, r)
        BY <1>3, <2>1, <4>1
      <4> QED
        BY <3>2, <4>2 DEF PropertyRead
    <3> QED
      BY <3>1, <3>2
  <2>5. Within(b, q, r) = r
    BY <2>2, <2>4 DEF Within
  <2>6. NextProperty(b, q) = IF i = m THEN 0 ELSE r
    BY <2>1, <2>3, <2>4, <2>5 DEF NextProperty
  <2> QED
    BY <2>1, <2>3, <2>6
<1> DEFINE S == {i \in 1..m : Outcome(CodeIn(b, code)[pos[i]], i, properties, code)}
<1>5. ASSUME NEW i \in 1..m, properties[i].name = code PROVE i \in S
  <2>1. CodeIn(b, code)[pos[i]] = Said(properties[i].value)
    <3>1. PICK q \in 0..Len(b) : q = pos[i] /\ q # 0 /\ NameAt(b, q) = code
      BY <1>4, <1>5
    <3>2. CodeIn(b, code)[q] = TextAt(b, ValueAt(b, q))
      BY <3>1, CodeIs, Zenon
    <3> QED
      BY <1>4, <3>1, <3>2
  <2>2. i \in i..m /\ \A k \in i..(i - 1) : properties[k].name # code
    OBVIOUS
  <2> QED
    BY <1>5, <2>1, <2>2 DEF Outcome
<1>6. ASSUME NEW i \in 1..m, properties[i].name # code, i = m \/ i + 1 \in S PROVE i \in S
  <2>1. CodeIn(b, code)[pos[i]] = CodeIn(b, code)[NextProperty(b, pos[i])]
    <3>1. PICK q \in 0..Len(b) : q = pos[i] /\ q # 0 /\ NameAt(b, q) # code
      BY <1>4, <1>6
    <3>2. CodeIn(b, code)[q] = IF q = 0 THEN <<>> ELSE IF NameAt(b, q) = code THEN TextAt(b, ValueAt(b, q))
                                ELSE CodeIn(b, code)[NextProperty(b, q)]
      BY <3>1, CodeIs
    <3>3. CodeIn(b, code)[q] = CodeIn(b, code)[NextProperty(b, q)]
      BY <3>1, <3>2, Zenon
    <3> QED
      BY <3>1, <3>2
  <2>2. CASE i = m
    <3>1. CodeIn(b, code)[0] = <<>>
      BY CodeIs
    <3>2. CodeIn(b, code)[pos[i]] = <<>>
      BY <1>4, <2>1, <2>2, <3>1
    <3>3. \A k \in i..m : properties[k].name # code
      BY <1>6, <2>2
    <3> QED
      BY <3>2, <3>3 DEF Outcome
  <2>3. CASE i # m
    <3>1. PICK text : text = CodeIn(b, code)[pos[i]] /\ text = CodeIn(b, code)[pos[i + 1]]
      BY <1>4, <2>1, <2>3
    <3>2. Outcome(text, i + 1, properties, code)
      BY <1>6, <2>3, <3>1
    <3>3. \A k \in i..m : k = i \/ k \in (i + 1)..m
      OBVIOUS
    <3>4. CASE text = <<>> /\ \A k \in (i + 1)..m : properties[k].name # code
      <4>1. \A k \in i..m : properties[k].name # code
        BY <1>6, <3>3, <3>4
      <4> QED
        BY <3>1, <3>4, <4>1 DEF Outcome
    <3>5. ASSUME NEW j \in (i + 1)..m, properties[j].name = code,
                 \A k \in (i + 1)..(j - 1) : properties[k].name # code, text = Said(properties[j].value)
          PROVE  Outcome(text, i, properties, code)
      <4>1. j \in i..m /\ \A k \in i..(j - 1) : k = i \/ k \in (i + 1)..(j - 1)
        OBVIOUS
      <4>2. \A k \in i..(j - 1) : properties[k].name # code
        BY <1>6, <3>5, <4>1
      <4> QED
        BY <3>5, <4>1, <4>2 DEF Outcome
    <3>6. Outcome(text, i, properties, code)
      BY <3>2, <3>4, <3>5, <3>1 DEF Outcome
    <3> QED
      BY <3>1, <3>6
  <2> QED
    BY <2>2, <2>3
<1>7. 1 \in S
  <2> HIDE DEF S
  <2>1. \A i \in 1..m : i = m \/ i + 1 \in S => i \in S
    BY <1>5, <1>6
  <2>3. m \in S
    BY <2>1
  <2>4. \A i \in 1..(m - 1) : i + 1 \in S => i \in S
    BY <2>1
  <2>2. 1..m \subseteq S
    BY <2>3, <2>4, Downward
  <2> QED
    BY <2>2
<1> QED
  BY <1>2, <1>7

\* The status code of an answer is found.
LEMMA StatusIsFound ==
    ASSUME NEW before \in Seq(Skipped), NEW properties \in Seq(Property) \ {<<>>}, NEW code \in Texts
    PROVE  StatusFound(before, properties, code)
<1>1. PICK n \in Nat, m \in Nat : /\ n = Len(before) /\ m = Len(properties) /\ m > 0 /\ properties \in Seq(Property)
                                  /\ \A i \in 1..n : before[i] \in Skipped
                                  /\ \A i \in 1..m : properties[i] \in Property
  <2>1. Len(before) \in Nat /\ Len(properties) \in Nat /\ Len(properties) # 0
    BY LenProperties, EmptySeq
  <2> QED
    BY <2>1, ElementOfSeq
<1>2. PICK skips : skips = [i \in 1..n |-> Bytes(before[i])]
  OBVIOUS
<1>3. PICK props : props = [i \in 1..m |-> put_name(properties[i].name) \o Bytes(properties[i].value)]
  OBVIOUS
<1>4. /\ skips \in Seq(Seq(Digits)) /\ Len(skips) = n
      /\ \A i \in 1..n : skips[i] = Bytes(before[i])
  <2>1. \A i \in 1..n : Bytes(before[i]) \in Seq(Digits)
    BY <1>1, SkippedWritten DEF Written
  <2> QED
    BY <1>2, <2>1
<1>5. /\ props \in Seq(Seq(Digits)) /\ Len(props) = m
      /\ \A i \in 1..m : props[i] = PropertyBytes(properties[i])
  <2>1. \A i \in 1..m : props[i] = PropertyBytes(properties[i])
    BY <1>3 DEF PropertyBytes
  <2>2. \A i \in 1..m : PropertyBytes(properties[i]) \in Seq(Digits)
    BY <1>1, PropertyWritten
  <2>3. \A i \in 1..m : put_name(properties[i].name) \o Bytes(properties[i].value) \in Seq(Digits)
    BY <2>2 DEF PropertyBytes
  <2>4. props \in Seq(Seq(Digits)) /\ Len(props) = m
    BY <1>1, <1>3, <2>3
  <2> QED
    BY <2>1, <2>4
<1>6. PICK one \in Nat : one = 1
  OBVIOUS
<1>7. PICK a \in Seq(Digits) : a = put_double(one) /\ Len(a) = 9
  BY NumberWritten
<1>8. PICK s \in Seq(Digits), t \in Seq(Digits) : s = FlattenSeq(skips) /\ t = FlattenSeq(props)
  BY <1>4, <1>5, FlattenIs
<1>9. PICK c \in Seq(Digits) : c = One(kAMFObject) /\ Len(c) = 1
  BY OneIs, Markers
<1>10. PICK e \in Seq(Digits) : e = <<0, 0, kAMFObjectEnd>> /\ Len(e) = 3
  <2>1. 0 \in Digits /\ kAMFObjectEnd \in Digits
    BY Markers DEF kAMFNumber
  <2>2. <<0, 0, kAMFObjectEnd>> \in Seq(Digits) /\ Len(<<0, 0, kAMFObjectEnd>>) = 3
    BY <2>1
  <2> QED
    BY <2>2
<1>11. onStatus(before, properties) = Join(Four(a, s, c, t), e)
  BY <1>1, <1>2, <1>3, <1>6, <1>7, <1>8, <1>9, <1>10 DEF onStatus, Join, Four, One
<1>12. FourMake(a, s, c, t)
  BY <1>7, <1>8, <1>9, FourJoined
<1>13. PICK f \in Seq(Digits) : f = Four(a, s, c, t) /\ Len(f) = Len(a) + Len(s) + Len(c) + Len(t)
  BY <1>12 DEF FourMake
<1>14. PICK b \in Seq(Digits) : b = Join(f, e) /\ Len(b) = Len(f) + 3 /\ Len(b) \in Nat
  <2>1. Join(f, e) \in Seq(Digits) /\ Len(Join(f, e)) = Len(f) + Len(e)
    BY <1>10, <1>13, JoinedBytes, Zenon
  <2> QED
    BY <1>10, <2>1, LenProperties
<1>15. PICK k \in Nat, l \in Nat : k = Len(s) /\ l = Len(t) /\ Len(b) = 9 + k + 1 + l + 3 /\ Len(f) = 9 + k + 1 + l
  BY <1>7, <1>8, <1>9, <1>13, <1>14, LenProperties
<1>16. At(b, 10, s) /\ At(b, 10 + k, c) /\ At(b, 11 + k, t) /\ At(b, 11 + k + l, e)
  <2>1. At(b, 1, Join(f, e)) /\ 1 \in Int
    BY <1>14, AtSelf
  <2>2. At(b, 1, f) /\ At(b, 1 + Len(f), e)
    BY <1>10, <1>13, <1>14, <2>1, AtFirst, Zenon
  <2>3. At(b, 1 + Len(a), s) /\ At(b, 1 + Len(a) + Len(s), c) /\ At(b, 1 + Len(a) + Len(s) + Len(c), t)
    BY <1>12, <1>13, <1>14, <2>1, <2>2 DEF FourMake
  <2>4. /\ 1 + Len(a) = 10 /\ 1 + Len(a) + Len(s) = 10 + k /\ 1 + Len(a) + Len(s) + Len(c) = 11 + k
        /\ 1 + Len(f) = 11 + k + l
    BY <1>7, <1>9, <1>15
  <2> QED
    BY <2>2, <2>3, <2>4
<1>17. FoundObject(b)[10] = 11 + k
  <2>0. PICK o \in Int : o = 10 + k
    BY <1>15
  <2>1. o = 10 + k /\ o + 1 <= Len(b)
    BY <1>15, <2>0
  <2>2. b[o] = kAMFObject
    BY <1>9, <1>16, <2>1, AtOne
  <2>3. PICK p \in Int : p = 10 /\ p >= 1
    OBVIOUS
  <2>4. PICK pos : Placed(pos, b, p, skips) /\ o = pos[n + 1]
    <3>1. At(b, p, FlattenSeq(skips))
      BY <1>8, <1>16, <2>3
    <3>2. PICK pos : Placed(pos, b, p, skips) /\ pos[Len(skips) + 1] = p + Len(FlattenSeq(skips))
      BY <1>4, <1>14, <2>3, <3>1, FlattenIs, Zenon
    <3>3. Len(skips) = n /\ p + Len(FlattenSeq(skips)) = o
      BY <1>4, <1>8, <1>15, <2>1, <2>3
    <3> QED
      BY <3>2, <3>3
  <2>6. FoundObject(b)[p] = o + 1
    <3>1. n \in Nat /\ Len(b) \in Nat /\ p \in Int /\ o \in Int
      BY <1>1, <1>14, <2>0, <2>3
    <3>2. /\ skips \in Seq(Seq(Digits)) /\ Len(skips) = n /\ \A i \in 1..n : skips[i] = Bytes(before[i])
          /\ p >= 1 /\ Placed(pos, b, p, skips) /\ o = pos[n + 1] /\ b[o] = kAMFObject /\ o + 1 <= Len(b)
      BY <1>4, <2>1, <2>2, <2>3, <2>4
    <3>3. ObjectBehind(n, before, skips, b, p, pos, o)
      BY <1>1, <3>1, <3>2 DEF ObjectBehind
    <3> QED
      BY <3>3, ObjectFound
  <2> QED
    BY <2>1, <2>3, <2>6
<1>18. PICK text : text = CodeIn(b, code)[11 + k] /\ Outcome(text, 1, properties, code)
  <2>0. PICK p \in Int, q \in Int : p = 11 + k /\ q = 11 + k + l
    BY <1>15
  <2>1. p = 11 + k /\ q = 11 + k + l /\ q + 2 <= Len(b) /\ p >= 1
    BY <1>15, <2>0
  <2>2. get_be24(b, q) = kAMFObjectEnd
    <3>1. b[q] = 0 /\ b[q + 1] = 0 /\ b[q + 2] = kAMFObjectEnd
      <4>1. \A i \in 1..3 : b[q + i - 1] = <<0, 0, kAMFObjectEnd>>[i]
        BY <1>10, <1>16, <2>1 DEF At
      <4>2. q + 1 - 1 = q /\ q + 2 - 1 = q + 1 /\ q + 3 - 1 = q + 2 /\ 1 \in 1..3 /\ 2 \in 1..3 /\ 3 \in 1..3
        BY <2>1
      <4> QED
        BY <4>1, <4>2
    <3>2. get_be16(b, q) = 0
      BY <3>1, BaseIs DEF get_be16
    <3> QED
      BY <3>1, <3>2, BaseIs DEF get_be24, kAMFObjectEnd
  <2>3. PICK pos : Placed(pos, b, p, props) /\ pos[m + 1] = q
    <3>1. At(b, p, FlattenSeq(props))
      BY <1>8, <1>16, <2>1
    <3>2. PICK pos : Placed(pos, b, p, props) /\ pos[Len(props) + 1] = p + Len(FlattenSeq(props))
      BY <1>5, <1>14, <2>0, <3>1, FlattenIs, Zenon
    <3>3. Len(props) = m /\ p + Len(FlattenSeq(props)) = q
      BY <1>5, <1>8, <1>15, <2>1
    <3> QED
      BY <3>2, <3>3
  <2>4. q <= Len(b)
    BY <1>14, <2>1
  <2>5. Outcome(CodeIn(b, code)[p], 1, properties, code)
    BY <1>1, <1>5, <1>14, <2>1, <2>2, <2>3, <2>4, CodeFound
  <2> QED
    BY <2>1, <2>5
<1>19. parseStatusCode(onStatus(before, properties), 1, code) = text
  <2>1. Within(b, 1, 10) = 10
    BY <1>15 DEF Within
  <2>2. 1 + 9 = 10 /\ onStatus(before, properties) = b
    BY <1>11, <1>13, <1>14
  <2> QED
    BY <1>17, <1>18, <2>1, <2>2 DEF parseStatusCode
<1> DEFINE first == {i \in 1..m : properties[i].name = code /\ \A j \in 1..(i - 1) : properties[j].name # code}
           said == {properties[i].value.v : i \in {j \in first : properties[j].value.t = "string"}}
<1>20. text \in IF said = {} THEN {<<>>} ELSE said
  <2>1. CASE text = <<>> /\ \A i \in 1..m : properties[i].name # code
    <3>1. said = {}
      BY <2>1
    <3> QED
      BY <2>1, <3>1
  <2>2. ASSUME NEW j \in 1..m, properties[j].name = code, \A i \in 1..(j - 1) : properties[i].name # code,
               text = Said(properties[j].value)
        PROVE  text \in IF said = {} THEN {<<>>} ELSE said
    <3>1. j \in first
      BY <2>2
    <3>2. \A i \in first : i = j
      <4>1. ASSUME NEW i \in first, i < j PROVE FALSE
        BY <2>2, <4>1
      <4>2. ASSUME NEW i \in first, j < i PROVE FALSE
        <5>1. j \in 1..(i - 1)
          BY <4>2
        <5> QED
          BY <2>2, <4>2, <5>1
      <4> QED
        BY <4>1, <4>2
    <3>3. CASE properties[j].value.t = "string"
      <4>1. text = properties[j].value.v /\ text \in said
        BY <2>2, <3>1, <3>3 DEF Said
      <4> QED
        BY <4>1
    <3>4. CASE properties[j].value.t # "string"
      <4>1. said = {}
        BY <3>2, <3>4
      <4>2. text = <<>>
        BY <2>2, <3>4 DEF Said
      <4> QED
        BY <4>1, <4>2
    <3> QED
      BY <3>3, <3>4
  <2> QED
    BY <1>1, <1>18, <2>1, <2>2 DEF Outcome
<1> QED
  BY <1>1, <1>19, <1>20 DEF StatusFound

-----------------------------------------------------------------------------
(* Samples: mixing and conversion. *)

\* Within 16 bits nothing wraps round.
LEMMA WrapInside == ASSUME NEW x \in Int16 PROVE Wrap(x) = x
<1>1. x \in Int /\ Half \in Int /\ Half > 1 /\ x >= -Half /\ x < Half
  BY HalfAssumption DEF Int16, INT16_MAX, INT16_MIN
<1>2. x + Half \in 0..(2 * Half - 1)
  BY <1>1
<1>3. \A m \in Nat \ {0} : \A y \in 0..(m - 1) : y % m = y
  OBVIOUS
<1>4. (x + Half) % (2 * Half) = x + Half
  BY <1>1, <1>2, <1>3
<1> QED
  BY <1>1, <1>4 DEF Wrap

\* The sum of two numbers up to m less their product over m stays up to m, and
\* above both.
LEMMA SoftSum ==
    ASSUME NEW m \in Nat, m > 0, NEW x \in 0..m, NEW y \in 0..m
    PROVE  LET q == (x * y) \div m
           IN  q \in Nat /\ x + y - q <= m /\ q <= x /\ q <= y
<1> DEFINE q == (x * y) \div m
           r == (x * y) % m
<1>t. x \in Nat /\ y \in Nat /\ m - x \in Nat /\ m - y \in Nat /\ m \in Int
  OBVIOUS
<1>p. x * y \in Nat
  BY <1>t, ProductNat
<1>1. q \in Int /\ r \in 0..(m - 1) /\ x * y = m * q + r
  BY <1>p, Floor
<1> HIDE DEF q, r
<1>2. x + y - q <= m
  <2>1. (m - x) * (m - y) \in Nat
    BY <1>t, ProductNat
  <2>2. (m - x) * (m - y) = m * m - m * x - m * y + x * y
    BY <1>t
  <2>3. m * (x + y - q) = m * x + m * y - m * q
    BY <1>t, <1>1
  <2>4. m * (x + y - q) < m * m + m
    <3>1. m * m \in Int /\ m * x \in Int /\ m * y \in Int /\ m * q \in Int
      BY <1>t, <1>1
    <3> QED
      BY <1>t, <1>p, <1>1, <2>1, <2>2, <2>3, <3>1
  <2> QED
    BY <1>t, <1>1, <2>4, Cancel
<1>3. q <= x /\ q <= y
  <2>1. x * (m - y) \in Nat /\ y * (m - x) \in Nat
    BY <1>t, ProductNat
  <2>2. x * (m - y) = m * x - x * y /\ y * (m - x) = m * y - x * y
    BY <1>t
  <2>3. m * x \in Int /\ m * y \in Int /\ m * q \in Int
    BY <1>t, <1>1
  <2>4. m * q < m * x + m /\ m * q < m * y + m
    BY <1>t, <1>p, <1>1, <2>1, <2>2, <2>3
  <2> QED
    BY <1>t, <1>1, <2>4, Cancel
<1>4. q \in Nat
  <2>1. m * 0 < m * q + m
    BY <1>t, <1>p, <1>1
  <2> QED
    BY <1>1, <2>1, Cancel
<1> QED
  BY <1>2, <1>3, <1>4 DEF q

\* TPMixSamples.
LEMMA MixedSamples ==
    ASSUME NEW a \in Int16, NEW b \in Int16
    PROVE  MixStaysBetween(a, b)
<1>h. Half \in Nat /\ Half > 1 /\ INT16_MAX = Half - 1 /\ INT16_MIN = -Half
  BY HalfAssumption DEF INT16_MAX, INT16_MIN
<1>t. a \in Int /\ b \in Int /\ a >= -Half /\ a < Half /\ b >= -Half /\ b < Half
  BY <1>h DEF Int16
<1>w. \A x \in Int : x >= -Half /\ x < Half => Wrap(x) = x
  BY <1>h, WrapInside DEF Int16
<1>c. a * b = b * a
  BY <1>t
<1>1. CASE a < 0 /\ b < 0
  <2>1. (-a) * (-b) = a * b /\ -a \in 0..Half /\ -b \in 0..Half
    BY <1>1, <1>h, <1>t
  <2> DEFINE q == (a * b) \div Half
  <2>2. q \in Nat /\ (-a) + (-b) - q <= Half /\ q <= -a /\ q <= -b
    <3>1. q = ((-a) * (-b)) \div Half
      BY <2>1
    <3> HIDE DEF q
    <3> QED
      BY <1>h, <2>1, <3>1, SoftSum
  <2>3. TPMixSamples(a, b) = Wrap(a + b + q) /\ TPMixSamples(b, a) = Wrap(b + a + q)
    BY <1>1, <1>c DEF TPMixSamples
  <2> HIDE DEF q
  <2>4. a + b + q \in Int /\ a + b + q >= -Half /\ a + b + q <= a /\ a + b + q <= b /\ b + a + q = a + b + q
    BY <1>h, <1>t, <2>2
  <2>5. Wrap(a + b + q) = a + b + q
    BY <1>1, <1>h, <1>t, <1>w, <2>4
  <2> QED
    BY <1>1, <1>h, <1>t, <2>3, <2>4, <2>5 DEF MixStaysBetween
<1>2. CASE a > 0 /\ b > 0
  <2>1. a \in 0..INT16_MAX /\ b \in 0..INT16_MAX /\ INT16_MAX \in Nat /\ INT16_MAX > 0
    BY <1>2, <1>h, <1>t
  <2> DEFINE q == (a * b) \div INT16_MAX
  <2>2. q \in Nat /\ a + b - q <= INT16_MAX /\ q <= a /\ q <= b
    BY <2>1, SoftSum
  <2>3. TPMixSamples(a, b) = Wrap(a + b - q) /\ TPMixSamples(b, a) = Wrap(b + a - q)
    BY <1>2, <1>c, <1>t DEF TPMixSamples
  <2> HIDE DEF q
  <2>4. a + b - q \in Int /\ a <= a + b - q /\ b <= a + b - q /\ b + a - q = a + b - q
    BY <1>h, <1>t, <2>2
  <2>5. Wrap(a + b - q) = a + b - q
    BY <1>2, <1>h, <1>t, <1>w, <2>2, <2>4
  <2> QED
    BY <1>2, <1>h, <1>t, <2>2, <2>3, <2>4, <2>5 DEF MixStaysBetween
<1>3. CASE ~(a < 0 /\ b < 0) /\ ~(a > 0 /\ b > 0)
  <2>1. TPMixSamples(a, b) = Wrap(a + b) /\ TPMixSamples(b, a) = Wrap(b + a)
    BY <1>3 DEF TPMixSamples
  <2>2. a + b \in Int /\ a + b >= -Half /\ a + b < Half /\ a + b = b + a
    BY <1>h, <1>t, <1>3
  <2> QED
    BY <1>h, <1>t, <1>3, <1>w, <2>1, <2>2 DEF MixStaysBetween
<1> QED
  BY <1>1, <1>2, <1>3, <1>t

\* A byte holds the square root of what 16 bits hold.
LEMMA ByteIs == /\ Byte \in Nat /\ Byte > 1 /\ Byte <= Half /\ Byte * Byte = 2 * Half
                /\ Half \in Nat /\ Half > 1
<1>1. Half \in Nat /\ Half > 1
  BY HalfAssumption
<1>2. PICK n \in 1..(2 * Half) : n * n = 2 * Half
  BY HalfAssumption DEF HasRoot
<1>3. n <= Half
  <2>1. SUFFICES ASSUME n >= Half + 1 PROVE FALSE
    BY <1>1
  <2>2. n \in Nat /\ n - (Half + 1) \in Nat /\ Half - 2 \in Nat
    BY <1>1, <2>1
  <2>3. (n - (Half + 1)) * n \in Nat /\ (Half - 2) * n \in Nat
    BY <2>2, ProductNat
  <2>4. (n - (Half + 1)) * n = n * n - Half * n - n /\ (Half - 2) * n = Half * n - 2 * n
    BY <1>1, <2>2
  <2>5. n * n \in Int /\ Half * n \in Int /\ n * n >= 3 * n
    BY <1>1, <2>2, <2>3, <2>4
  <2> QED
    BY <1>1, <1>2, <2>1, <2>5
<1>4. Byte \in 1..Half /\ Byte * Byte = 2 * Half
  <2>1. n \in 1..Half
    BY <1>1, <1>3
  <2> QED
    BY <1>2, <2>1 DEF Byte
<1>5. Byte # 1
  BY <1>1, <1>4
<1> QED
  BY <1>1, <1>4, <1>5

\* 8 bits.
LEMMA ByteSample ==
    ASSUME NEW v \in -(Byte \div 2)..(Byte \div 2 - 1)
    PROVE  Distance(b8_to_b16(v), v * Byte) <= Byte \div 2
<1> DEFINE h == Byte \div 2
<1>1. h \in Nat /\ 2 * h <= Byte /\ v \in Int /\ -h <= v /\ v <= h - 1
  BY ByteIs
<1> HIDE DEF h
<1>2. (Byte - 1) * (-h) <= (Byte - 1) * v /\ (Byte - 1) * v <= (Byte - 1) * h
  BY <1>1, ByteIs, ProductGrows
<1>3. (Byte - 1) * h \in Nat /\ 2 * ((Byte - 1) * h) <= 2 * Half - Byte
  <2>1. (Byte - 1) * h \in Nat /\ Byte - 1 \in Nat
    BY <1>1, ByteIs, ProductNat
  <2>2. (Byte - 1) * (2 * h) <= (Byte - 1) * Byte
    BY <1>1, <2>1, ByteIs, ProductGrows
  <2>3. (Byte - 1) * Byte = Byte * Byte - Byte /\ (Byte - 1) * (2 * h) = 2 * ((Byte - 1) * h)
    BY <1>1, ByteIs
  <2> QED
    BY <2>1, <2>2, <2>3, ByteIs
<1>4. (Byte - 1) * v \in Int /\ v * (Byte - 1) = (Byte - 1) * v /\ (Byte - 1) * (-h) = -((Byte - 1) * h)
  BY <1>1, ByteIs
<1>5. v * (Byte - 1) \in Int16
  BY <1>2, <1>3, <1>4, ByteIs DEF Int16, INT16_MAX, INT16_MIN
<1>6. b8_to_b16(v) = v * (Byte - 1)
  BY <1>5, WrapInside DEF b8_to_b16
<1>7. v * Byte = v * (Byte - 1) + v /\ v * (Byte - 1) \in Int
  BY <1>1, ByteIs
<1>8. Distance(v * (Byte - 1), v * Byte) <= h
  BY <1>1, <1>7 DEF Distance
<1> QED
  BY <1>6, <1>8 DEF h

\* 32 bits.
LEMMA WordSample ==
    ASSUME NEW v \in -(2 * Half * Half)..(Half * (2 * Half - 1) - 1)
    PROVE  Distance(b32_to_b16(v), v \div (2 * Half)) <= 1
<1> DEFINE m == 2 * Half - 1
           q == v \div (2 * Half)
           s == v % (2 * Half)
<1>h. Half \in Nat /\ Half > 1 /\ m \in Nat /\ m > Half /\ v \in Int /\ m + 1 = 2 * Half
  BY ByteIs
<1>q. q \in Int /\ s \in 0..m /\ v = (m + 1) * q + s
  BY <1>h, Floor
<1>m. (m + 1) * q = m * q + q /\ m * q \in Int
  <2> HIDE DEF m, q
  <2> QED
    BY <1>h, <1>q
<1>a. v >= -((m + 1) * Half) /\ v <= Half * m - 1 /\ Half * m = m * Half /\ m * Half \in Nat
      /\ (m + 1) * Half = m * Half + Half
  BY <1>h
<1> HIDE DEF m, q, s
<1>1. CASE v >= 0
  <2> DEFINE p == v \div m
             r == v % m
  <2>1. p \in Int /\ r \in 0..(m - 1) /\ v = m * p + r
    BY <1>h, Floor
  <2> HIDE DEF p, r
  <2>p. m * p \in Int
    BY <1>h, <2>1
  <2>2. p >= 0
    <3>1. m * 0 < m * p + m
      BY <1>h, <1>1, <2>1, <2>p
    <3> QED
      BY <1>h, <2>1, <3>1, Cancel
  <2>3. p <= Half - 1
    <3>1. m * (Half - 1) = m * Half - m
      BY <1>h
    <3>2. m * p < m * (Half - 1) + m
      BY <1>h, <1>a, <2>1, <2>p, <3>1
    <3> QED
      BY <1>h, <2>1, <3>2, Cancel
  <2>4. q >= 0
    <3>1. (m + 1) * 0 < (m + 1) * q + (m + 1)
      BY <1>h, <1>1, <1>q, <1>m
    <3> QED
      BY <1>h, <1>q, <3>1, Cancel
  <2>5. q <= p
    <3>1. m * q < m * p + m
      BY <1>h, <1>q, <1>m, <2>1, <2>p, <2>4
    <3> QED
      BY <1>h, <1>q, <2>1, <3>1, Cancel
  <2>6. p <= q + 1
    <3>1. m * (q + 1) = m * q + m
      BY <1>h, <1>q
    <3>2. m * p < m * (q + 1) + m
      BY <1>h, <1>q, <1>m, <2>1, <2>p, <2>3, <2>5, <3>1
    <3> QED
      BY <1>h, <1>q, <2>1, <3>2, Cancel
  <2>7. b32_to_b16(v) = p
    <3>1. Quotient(v, m) = p
      BY <1>h, <1>1 DEF Quotient, p
    <3>2. p \in Int16
      BY <1>h, <2>1, <2>2, <2>3 DEF Int16, INT16_MAX, INT16_MIN
    <3> QED
      BY <3>1, <3>2, WrapInside DEF b32_to_b16, m
  <2> QED
    BY <1>q, <2>1, <2>5, <2>6, <2>7 DEF Distance, q
<1>2. CASE v < 0
  <2> DEFINE p == (-v) \div m
             r == (-v) % m
  <2>1. p \in Int /\ r \in 0..(m - 1) /\ -v = m * p + r
    BY <1>h, Floor
  <2> HIDE DEF p, r
  <2>p. m * p \in Int
    BY <1>h, <2>1
  <2>2. p >= 0
    <3>1. m * 0 < m * p + m
      BY <1>h, <1>2, <2>1, <2>p
    <3> QED
      BY <1>h, <2>1, <3>1, Cancel
  <2>3. p <= Half
    <3>1. m * p < m * Half + m
      BY <1>h, <1>a, <2>1, <2>p
    <3> QED
      BY <1>h, <2>1, <3>1, Cancel
  <2>4. -q <= Half
    <3>1. (m + 1) * (-q) = -((m + 1) * q)
      BY <1>h, <1>q
    <3>2. (m + 1) * (-q) < (m + 1) * Half + (m + 1)
      BY <1>h, <1>q, <1>m, <1>a, <3>1
    <3> QED
      BY <1>h, <1>q, <3>2, Cancel
  <2>5. p <= -q
    <3>1. m * (-q) = -(m * q)
      BY <1>h, <1>q
    <3>2. m * p < m * (-q) + m
      BY <1>h, <1>q, <1>m, <2>1, <2>p, <2>4, <3>1
    <3> QED
      BY <1>h, <1>q, <2>1, <3>2, Cancel
  <2>n. q <= 0
    <3>1. (m + 1) * q < (m + 1) * 0 + (m + 1)
      BY <1>h, <1>2, <1>q, <1>m
    <3> QED
      BY <1>h, <1>q, <3>1, Cancel
  <2>6. -q <= p + 1
    <3>1. m * (-q) = -(m * q) /\ m * (p + 1) = m * p + m
      BY <1>h, <1>q, <2>1
    <3>2. m * (-q) < m * (p + 1) + m
      BY <1>h, <1>q, <1>m, <2>1, <2>p, <2>n, <3>1
    <3> QED
      BY <1>h, <1>q, <2>1, <3>2, Cancel
  <2>7. b32_to_b16(v) = -p
    <3>1. Quotient(v, m) = -p
      BY <1>h, <1>2 DEF Quotient, p
    <3>2. -p \in Int16
      BY <1>h, <2>1, <2>2, <2>3 DEF Int16, INT16_MAX, INT16_MIN
    <3> QED
      BY <3>1, <3>2, WrapInside DEF b32_to_b16, m
  <2> QED
    BY <1>q, <2>1, <2>5, <2>6, <2>7 DEF Distance, q
<1> QED
  BY <1>h, <1>1, <1>2

\* 24 bits, which keep the lowest levels only.
LEMMA NarrowQuotient ==
    ASSUME NEW u \in Nat, u <= Byte * Half
    PROVE  u \div (2 * Half - 1) \in 0..(Byte - 1)
<1> DEFINE m == 2 * Half - 1
           p == u \div m
           r == u % m
<1>h. Half \in Nat /\ m \in Nat /\ m > Half /\ Byte \in Nat /\ Byte > 1
  BY ByteIs
<1>1. p \in Int /\ r \in 0..(m - 1) /\ u = m * p + r
  BY <1>h, Floor
<1>b. Byte * Half + Byte <= m * Byte
  <2>1. Byte * (Half + 1) <= Byte * m
    BY <1>h, ProductGrows
  <2>2. Byte * (Half + 1) = Byte * Half + Byte /\ Byte * m = m * Byte
    BY <1>h
  <2> QED
    BY <2>1, <2>2
<1> HIDE DEF m, p, r
<1>p. m * p \in Int /\ m * Byte \in Int /\ Byte * Half \in Int
  BY <1>h, <1>1
<1>2. p >= 0
  <2>1. m * 0 < m * p + m
    BY <1>h, <1>1, <1>p
  <2> QED
    BY <1>h, <1>1, <2>1, Cancel
<1>3. p <= Byte - 1
  <2>1. m * (Byte - 1) = m * Byte - m
    BY <1>h
  <2>2. m * p < m * (Byte - 1) + m
    BY <1>h, <1>1, <1>p, <1>b, <2>1
  <2> QED
    BY <1>h, <1>1, <2>2, Cancel
<1> QED
  BY <1>h, <1>1, <1>2, <1>3 DEF p, m

\* 24 bits to 16.
LEMMA NarrowSample ==
    ASSUME NEW v \in -(Byte * Half)..(Byte * Half - 1)
    PROVE  Distance(b24_to_b16(v), 0) <= Byte
<1> DEFINE p == (IF v < 0 THEN -v ELSE v) \div (2 * Half - 1)
<1>h. Byte * Half \in Int /\ v \in Int
  BY ByteIs
<1>1. p \in 0..(Byte - 1)
  <2>1. (IF v < 0 THEN -v ELSE v) \in Nat /\ (IF v < 0 THEN -v ELSE v) <= Byte * Half
    BY <1>h
  <2> QED
    BY <2>1, NarrowQuotient
<1>2. Quotient(v, 2 * Half - 1) = IF v < 0 THEN -p ELSE p
  BY DEF Quotient
<1> HIDE DEF p
<1>3. -p \in Int16 /\ p \in Int16
  BY <1>1, ByteIs DEF Int16, INT16_MAX, INT16_MIN
<1>4. b24_to_b16(v) = IF v < 0 THEN -p ELSE p
  BY <1>2, <1>3, WrapInside DEF b24_to_b16, b32_to_b16
<1> QED
  BY <1>1, <1>4, ByteIs DEF Distance

\* The three conversions.
LEMMA ConvertedSample == \A v \in Int : ConversionKeepsLevel(v)
  BY ByteSample, WordSample, NarrowSample DEF ConversionKeepsLevel

-----------------------------------------------------------------------------
(* Samples: resampling. *)

\* The mask keeps the multiples of a power of two.
LEMMA Masked ==
    ASSUME NEW x \in Nat
    PROVE  /\ Without(x, 0) = x /\ Without(x, 1) = 2 * (x \div 2)
           /\ Without(x, 3) = 4 * (x \div 4) /\ Without(x, 7) = 8 * (x \div 8)
<1> DEFINE bit1 == x % 2
           bit2 == (x \div 2) % 2
           bit4 == (x \div 4) % 2
           x2 == x \div 2
           x4 == x \div 4
           x8 == x \div 8
<1>1. bit1 \in {0, 1} /\ bit2 \in {0, 1} /\ bit4 \in {0, 1}
  OBVIOUS
<1>2. /\ SharedBit(x, 0, 1) = 0 /\ SharedBit(x, 0, 2) = 0 /\ SharedBit(x, 0, 4) = 0 /\ SharedBit(x, 0, 8) = 0
      /\ SharedBit(x, 1, 1) = bit1 /\ SharedBit(x, 1, 2) = 0 /\ SharedBit(x, 1, 4) = 0 /\ SharedBit(x, 1, 8) = 0
      /\ SharedBit(x, 3, 1) = bit1 /\ SharedBit(x, 3, 2) = 2 * bit2
      /\ SharedBit(x, 3, 4) = 0 /\ SharedBit(x, 3, 8) = 0
      /\ SharedBit(x, 7, 1) = bit1 /\ SharedBit(x, 7, 2) = 2 * bit2
      /\ SharedBit(x, 7, 4) = 4 * bit4 /\ SharedBit(x, 7, 8) = 0
  BY <1>1 DEF SharedBit
<1>3. /\ x = 2 * x2 + bit1 /\ x2 = 2 * x4 + bit2 /\ x4 = 2 * x8 + bit4
      /\ x2 \in Int /\ x4 \in Int /\ x8 \in Int
  OBVIOUS
<1> HIDE DEF bit1, bit2, bit4, x2, x4, x8
<1>4. /\ Without(x, 0) = x /\ Without(x, 1) = x - bit1
      /\ Without(x, 3) = x - bit1 - 2 * bit2
      /\ Without(x, 7) = x - bit1 - 2 * bit2 - 4 * bit4
  BY <1>1, <1>2 DEF Without
<1>5. Without(x, 1) = 2 * x2 /\ Without(x, 3) = 4 * x4 /\ Without(x, 7) = 8 * x8
  BY <1>1, <1>3, <1>4
<1> QED
  BY <1>4, <1>5 DEF x2, x4, x8

\* Multiplying by b and dividing by m, the part of the quotient that b divides
\* is the quotient without b.
LEMMA ScaledQuotient ==
    ASSUME NEW n \in Nat, NEW m \in Nat \ {0}, NEW b \in Nat \ {0}
    PROVE  (n * b) \div m \in Nat /\ ((n * b) \div m) \div b = n \div m
<1> DEFINE x == (n * b) \div m
           y == x \div b
           q == n \div m
<1>n. n * b \in Nat /\ n * b = b * n
  BY ProductNat
<1>1. x \in Int /\ m * x <= n * b /\ n * b < m * x + m
  BY <1>n, Floor
<1>2. y \in Int /\ b * y <= x /\ x < b * y + b
  BY <1>1, Floor
<1>3. q \in Int /\ m * q <= n /\ n < m * q + m
  BY Floor
<1> HIDE DEF x, y, q
<1>x. x \in Nat
  <2>1. m * 0 < m * x + m
    BY <1>n, <1>1
  <2> QED
    BY <1>1, <2>1, Cancel
<1>4. y <= q
  <2>1. m * (b * y) <= m * x
    BY <1>1, <1>2, ProductGrows
  <2>2. m * (b * y) = b * (m * y) /\ m * y \in Int
    BY <1>2
  <2>3. b * (m * y) < b * n + b
    BY <1>n, <1>1, <2>1, <2>2
  <2>4. m * y <= n
    BY <2>2, <2>3, Cancel
  <2>5. m * y < m * q + m
    BY <1>3, <2>2, <2>4
  <2> QED
    BY <1>2, <1>3, <2>5, Cancel
<1>5. q <= y
  <2>1. m * (x + 1) <= m * (b * y + b)
    BY <1>1, <1>2, ProductGrows
  <2>2. m * (x + 1) = m * x + m /\ m * (b * y + b) = b * (m * y + m) /\ m * y \in Int
    BY <1>1, <1>2
  <2>3. b * n < b * (m * y + m)
    BY <1>n, <1>1, <2>1, <2>2
  <2>4. n < m * y + m
    <3>1. b * (m * y + m) = b * (m * y + m - 1) + b
      BY <2>2
    <3>2. n <= m * y + m - 1
      BY <2>2, <2>3, <3>1, Cancel
    <3> QED
      BY <2>2, <3>2
  <2>5. m * q < m * y + m
    BY <1>3, <2>2, <2>4
  <2> QED
    BY <1>2, <1>3, <2>5, Cancel
<1> QED
  BY <1>1, <1>2, <1>3, <1>x, <1>4, <1>5 DEF x, y, q

\* The sizes of a sample.
LEMMA SampleSizes ==
    ASSUME NEW in \in Pcm, Aligned(in)
    PROVE  /\ bytesPerChannel(in) \in {1, 2, 4}
           /\ bytesPerSample(in) \in {1, 2, 4, 8}
           /\ bytesPerSample(in) = in.channels * bytesPerChannel(in)
           /\ channelStride(in) + bytesPerChannel(in) <= bytesPerSample(in)
           /\ channelStride(in) \in Nat
           /\ in.float => bytesPerChannel(in) = 2 /\ bytesPerSample(in) = 2 /\ channelStride(in) = 0
<1>t. in.bits \in {8, 16, 24, 32} /\ in.channels \in {1, 2} /\ in.float \in BOOLEAN
  BY DEF Pcm
<1>1. bytesPerChannel(in) \in {1, 2, 4} /\ (in.float => bytesPerChannel(in) = 2 /\ in.channels = 1)
  BY <1>t DEF Aligned, bytesPerChannel
<1> QED
  BY <1>t, <1>1 DEF bytesPerSample, channelStride

\* Where the bytes of a sample start.
LEMMA SampleAt ==
    ASSUME NEW in \in Pcm, Aligned(in), NEW outRate \in Nat \ {0}, NEW i \in Nat
    PROVE  iSample(in, outRate, i) = ((i * in.rate) \div outRate) * bytesPerSample(in)
<1> DEFINE n == i * in.rate
           b == bytesPerSample(in)
           x == (n * b) \div outRate
           q == n \div outRate
<1>t. in.rate \in Nat \ {0}
  BY DEF Pcm
<1>n. n \in Nat
  BY <1>t, ProductNat
<1>b. b \in {1, 2, 4, 8}
  BY SampleSizes
<1>i. iSample(in, outRate, i) = Without(x, b - 1)
  BY DEF iSample
<1> HIDE DEF n, b
<1>1. x \in Nat /\ x \div b = q
  <2>1. b \in Nat \ {0}
    BY <1>b
  <2> QED
    BY <1>n, <2>1, ScaledQuotient
<1>2. q \in Int
  BY <1>n, Floor
<1> HIDE DEF x, q
<1>3. Without(x, b - 1) = b * (x \div b)
  BY <1>b, <1>1, Masked
<1>4. Without(x, b - 1) = q * b
  BY <1>b, <1>1, <1>2, <1>3
<1> QED
  BY <1>i, <1>4 DEF n, b, q

\* An output sample lies within the input.
LEMMA SampleInside ==
    ASSUME NEW in \in Pcm, NEW outRate \in Nat \ {0}, NEW i \in 0..(outSampleCount(in, outRate) - 1)
    PROVE  i \in Nat /\ (i * in.rate) \div outRate \in 0..(in.frames - 1)
<1> DEFINE count == (in.frames * outRate) \div in.rate
           j == (i * in.rate) \div outRate
<1>t. in.rate \in Nat \ {0} /\ in.frames \in Nat /\ in.frames * outRate \in Nat
  BY ProductNat DEF Pcm
<1>1. count \in Int /\ in.rate * count <= in.frames * outRate
  BY <1>t, Floor
<1>c. count = outSampleCount(in, outRate)
  BY DEF outSampleCount
<1> HIDE DEF count
<1>i. i \in Nat /\ i + 1 <= count
  BY <1>1, <1>c
<1>2. i * in.rate \in Nat /\ i * in.rate = in.rate * i
  BY <1>t, <1>i, ProductNat
<1>3. j \in Int /\ outRate * j <= i * in.rate /\ i * in.rate < outRate * j + outRate
  BY <1>2, Floor
<1> HIDE DEF j
<1>4. in.rate * (i + 1) <= in.frames * outRate /\ in.rate * (i + 1) = in.rate * i + in.rate
  <2>1. in.rate * (i + 1) <= in.rate * count
    BY <1>t, <1>1, <1>i, ProductGrows
  <2>2. in.rate * (i + 1) = in.rate * i + in.rate /\ in.rate * i \in Int /\ in.rate * count \in Int
    BY <1>t, <1>1, <1>i
  <2> QED
    BY <1>t, <1>1, <2>1, <2>2
<1>5. j <= in.frames - 1
  <2>1. outRate * (in.frames - 1) = in.frames * outRate - outRate
    BY <1>t
  <2>2. outRate * j < outRate * (in.frames - 1) + outRate
    BY <1>t, <1>2, <1>3, <1>4, <2>1
  <2> QED
    BY <1>t, <1>3, <2>2, Cancel
<1>6. 0 <= j
  <2>1. outRate * 0 < outRate * j + outRate
    BY <1>2, <1>3
  <2> QED
    BY <1>3, <2>1, Cancel
<1> QED
  BY <1>t, <1>i, <1>3, <1>5, <1>6 DEF j

\* Each sample is read at its time and inside the buffer.
LEMMA ResampledInput ==
    ASSUME NEW in \in Pcm, NEW outRate \in Nat \ {0}
    PROVE  ResampleReads(in, outRate)
<1> SUFFICES ASSUME Aligned(in), NEW i \in 0..(outSampleCount(in, outRate) - 1)
             PROVE  /\ iSample(in, outRate, i) = ((i * in.rate) \div outRate) * bytesPerSample(in)
                    /\ BytesRead(in, outRate, i) \subseteq Readable(in)
  BY DEF ResampleReads
<1> DEFINE j == (i * in.rate) \div outRate
           s == iSample(in, outRate, i)
           b == bytesPerSample(in)
           w == bytesPerChannel(in)
           d == channelStride(in)
<1>1. i \in Nat /\ j \in 0..(in.frames - 1) /\ in.frames \in Nat
  BY SampleInside DEF Pcm
<1>2. s = j * b
  BY <1>1, SampleAt
<1>3. /\ w \in {1, 2, 4} /\ b \in {1, 2, 4, 8} /\ d + w <= b /\ d \in Nat
      /\ in.float => w = 2 /\ b = 2 /\ d = 0
  BY SampleSizes
<1>4. ASSUME NEW y \in BytesRead(in, outRate, i) PROVE y \in Readable(in)
  <2>1. PICK p \in {s, s + d} : y \in p..(p + w - 1)
    BY <1>4 DEF BytesRead
  <2> HIDE DEF j, s, b, w, d
  <2>2. y \in Int /\ j * b <= y /\ y <= j * b + d + w - 1 /\ j * b \in Nat
    BY <1>1, <1>2, <1>3, <2>1
  <2>3. CASE ~in.float
    <3>1. y <= (in.frames - 1) * b + b - 1
      BY <1>1, <1>3, <2>2
    <3>2. (in.frames - 1) * b + b = in.frames * b
      BY <1>1, <1>3
    <3>3. y \in 0..(in.frames * b - 1)
      BY <1>1, <1>3, <2>2, <3>1, <3>2
    <3> QED
      BY <2>3, <3>3 DEF Readable, b
  <2>4. CASE in.float
    <3>1. in.channels = 1
      BY <2>4 DEF Aligned
    <3>2. Defloated(in) = 0..(in.frames - 1)
      BY <3>1 DEF Defloated
    <3>3. y \in {2 * j, 2 * j + 1}
      BY <1>1, <1>3, <2>2, <2>4
    <3> QED
      BY <1>1, <2>4, <3>2, <3>3 DEF Readable
  <2> QED
    BY <2>3, <2>4
<1> QED
  BY <1>1, <1>4, SampleAt

-----------------------------------------------------------------------------
(* The AudioSpecificConfig. *)

\* The index of a rate in the table.
LEMMA RateIndex ==
    ASSUME NEW k \in 1..13
    PROVE  sampleRateIndex(Rates[k]) = k - 1
<1> DEFINE rate == Rates[k]
           I == {i \in 1..Len(Rates) : Rates[i] = rate}
<1>1. Len(Rates) = 13 /\ \A i, j \in 1..13 : Rates[i] = Rates[j] => i = j
  BY DEF Rates
<1>2. I = {k}
  BY <1>1
<1>3. SelectInSeq(Rates, LAMBDA r : r = rate) = IF I # {} THEN Min(I) ELSE 0
  BY Zenon DEF SelectInSeq
<1>4. Min({k}) = k
  BY DEF Min
<1>5. SelectInSeq(Rates, LAMBDA r : r = rate) = k
  BY <1>2, <1>3, <1>4
<1>6. Contains(Rates, rate)
  BY <1>1 DEF Contains
<1> QED
  BY <1>5, <1>6, Zenon DEF sampleRateIndex

\* The rate and the channels of an AudioSpecificConfig are read back.
LEMMA RateAnnounced ==
    ASSUME NEW rate \in Accepted, NEW channels \in {1, 2}
    PROVE  AscAnnounces(rate, channels)
<1>1. PICK k \in {4, 5, 8} : rate = Rates[k]
  BY DEF Accepted, Rates
<1>2. sampleRateIndex(rate) = k - 1
  BY <1>1, RateIndex
<1>3. makeAsc(k - 1, channels) = <<16 + (((k - 1) \div 2) % 4), (((k - 1) % 2) * 128) + ((channels % 16) * 8)>>
  BY DEF makeAsc
<1> DEFINE asc == makeAsc(k - 1, channels)
<1>4. asc[1] = 16 + (((k - 1) \div 2) % 4) /\ asc[2] = (((k - 1) % 2) * 128) + channels * 8
  BY <1>3
<1> HIDE DEF asc
<1>5. ((asc[1] % 8) * 2) + (asc[2] \div 128) = k - 1
  BY <1>1, <1>4
<1>6. (asc[2] \div 8) % 16 = channels
  BY <1>1, <1>4
<1> QED
  BY <1>1, <1>2, <1>5, <1>6 DEF AscAnnounces, asc

-----------------------------------------------------------------------------
(* Colours. *)

\* The colours a filter is given, and a component of what it makes of one, by
\* the row of its matrix.
Colours == [Colour -> 0..Unit]
Row(a, r1, r2, r3, r4, x1, x2, x3, x4) == Clamped(a + (r1 * x1 + r2 * x2 + r3 * x3 + r4 * x4) \div Unit)

\* Red, green, blue, alpha.
LEMMA ColourIs == Colour = {1, 2, 3, 4}
  BY DEF Colour

\* Each component is between 0 and 1.
LEMMA Components ==
    ASSUME NEW x \in Colours
    PROVE  x[1] \in 0..Unit /\ x[2] \in 0..Unit /\ x[3] \in 0..Unit /\ x[4] \in 0..Unit
  BY ColourIs DEF Colours

\* What a kernel gives a component, by the row of its matrix.
LEMMA KernelRow ==
    ASSUME NEW f, NEW x, NEW c \in Colour, NEW r, f.kernel[c] = r
    PROVE  Kernel(f, x)[c] = Row(f.add[c], r[1], r[2], r[3], r[4], x[1], x[2], x[3], x[4])
  BY Zenon DEF Kernel, Row

\* What a kernel makes is its four components.
LEMMA KernelIs ==
    ASSUME NEW f, NEW x, NEW y \in Colours, \A c \in Colour : Kernel(f, x)[c] = y[c]
    PROVE  Kernel(f, x) = y
  BY DEF Kernel, Colours

\* What is written to the frame buffer is between 0 and 1.
LEMMA ClampedIs == \A y \in Int : Clamped(y) \in 0..Unit
<1> SUFFICES ASSUME NEW y \in Int PROVE Clamped(y) \in 0..Unit
  OBVIOUS
<1>u. Unit \in Int /\ 0 <= Unit
  BY DEF Unit
<1>1. Clamped(y) \in Int /\ 0 <= Clamped(y) /\ Clamped(y) <= Unit
  BY <1>u, SMTT(30) DEF Clamped
<1> QED
  BY <1>u, <1>1

\* The rows of the inversion, of gray and of sepia.
LEMMA Rows ==
    ASSUME NEW x1 \in 0..Unit, NEW x2 \in 0..Unit, NEW x3 \in 0..Unit, NEW x4 \in 0..Unit
    PROVE  /\ Row(Unit, -Unit, 0, 0, 0, x1, x2, x3, x4) = Unit - x1
           /\ Row(Unit, 0, -Unit, 0, 0, x1, x2, x3, x4) = Unit - x2
           /\ Row(Unit, 0, 0, -Unit, 0, x1, x2, x3, x4) = Unit - x3
           /\ Row(0, 0, 0, 0, Unit, x1, x2, x3, x4) = x4
           /\ Row(0, 3000, 5900, 1100, 0, x1, x1, x1, x4) = x1
  BY SMTT(30) DEF Row, Clamped, Unit

\* The rows of the sepia kernel.
LEMMA SepiaRows ==
    ASSUME NEW x \in 0..Unit, NEW x4 \in 0..Unit
    PROVE  /\ Row(0, 5200, 5310, 990, 0, x, x, x, x4) >= Row(0, 2250, 6925, 825, 0, x, x, x, x4)
           /\ Row(0, 2250, 6925, 825, 0, x, x, x, x4) >= Row(0, 1800, 3540, 3160, 0, x, x, x, x4)
  BY SMTT(30) DEF Row, Clamped, Unit

\* The rows that make alpha.
LEMMA OpaqueRows ==
    ASSUME NEW x1 \in 0..Unit, NEW x2 \in 0..Unit, NEW x3 \in 0..Unit
    PROVE  /\ Row(0, 625, 5000, 5000, Unit, x1, x2, x3, Unit) = Unit
           /\ Row(Unit, 0, 0, 0, 0, x1, x2, x3, Unit) = Unit
           /\ Row(0, 0, 0, 0, Unit, x1, x2, x3, Unit) = Unit
  BY SMTT(30) DEF Row, Clamped, Unit

\* The part of a component that a row of the identity keeps.
LEMMA OwnIs ==
    ASSUME NEW c \in Colour
    PROVE  Own(c)[1] = (IF c = 1 THEN Unit ELSE 0) /\ Own(c)[2] = (IF c = 2 THEN Unit ELSE 0)
           /\ Own(c)[3] = (IF c = 3 THEN Unit ELSE 0) /\ Own(c)[4] = (IF c = 4 THEN Unit ELSE 0)
  BY ColourIs DEF Own

\* The rows of the inverting kernel.
LEMMA InvertRow ==
    ASSUME NEW x \in Colours, NEW c \in Colour
    PROVE  Kernel(InvertColorsVideoFilter, x)[c] = IF c = 4 THEN x[4] ELSE Unit - x[c]
<1> DEFINE f == InvertColorsVideoFilter
           r == [k \in Colour |-> IF c = 4 THEN Own(c)[k] ELSE -Own(c)[k]]
<1>1. f.add[c] = (IF c = 4 THEN 0 ELSE Unit)
  BY ColourIs DEF InvertColorsVideoFilter
<1>2. f.kernel[c] = r
  BY DEF InvertColorsVideoFilter
<1> HIDE DEF f
<1>3. Kernel(f, x)[c] = Row(f.add[c], r[1], r[2], r[3], r[4], x[1], x[2], x[3], x[4])
  BY <1>2, KernelRow
<1>4. /\ r[1] = IF c = 1 THEN -Unit ELSE 0
      /\ r[2] = IF c = 2 THEN -Unit ELSE 0
      /\ r[3] = IF c = 3 THEN -Unit ELSE 0
      /\ r[4] = IF c = 4 THEN Unit ELSE 0
  BY ColourIs, OwnIs DEF Unit
<1> HIDE DEF r
<1>5. Row(f.add[c], r[1], r[2], r[3], r[4], x[1], x[2], x[3], x[4]) = IF c = 4 THEN x[4] ELSE Unit - x[c]
  <2>1. CASE c = 1
    BY <2>1, <1>1, <1>4, Components, Rows
  <2>2. CASE c = 2
    BY <2>2, <1>1, <1>4, Components, Rows
  <2>3. CASE c = 3
    BY <2>3, <1>1, <1>4, Components, Rows
  <2>4. CASE c = 4
    BY <2>4, <1>1, <1>4, Components, Rows
  <2> QED
    BY <2>1, <2>2, <2>3, <2>4, ColourIs
<1> QED
  BY <1>3, <1>5 DEF f

\* Inverting twice gives the colour back.
LEMMA InvertedTwice ==
    ASSUME NEW x \in Colours
    PROVE  Kernel(InvertColorsVideoFilter, Kernel(InvertColorsVideoFilter, x)) = x
<1> DEFINE y == Kernel(InvertColorsVideoFilter, x)
<1>1. \A c \in Colour : y[c] = (IF c = 4 THEN x[4] ELSE Unit - x[c]) /\ x[c] \in 0..Unit
  BY InvertRow DEF Colours
<1>u. \A z \in 0..Unit : Unit - z \in 0..Unit /\ Unit - (Unit - z) = z
  <2> SUFFICES ASSUME NEW z \in 0..Unit PROVE Unit - z \in 0..Unit /\ Unit - (Unit - z) = z
    OBVIOUS
  <2>1. z \in Int /\ 0 <= z /\ z <= Unit /\ Unit \in Int
    BY DEF Unit
  <2> QED
    BY <2>1
<1>2. y \in Colours
  <2>1. ASSUME NEW c \in Colour PROVE y[c] \in 0..Unit
    <3>1. CASE c = 4
      BY <1>1, <3>1, Zenon
    <3>2. CASE c # 4
      BY <1>1, <1>u, <3>2, Zenon
    <3> QED
      BY <3>1, <3>2
  <2> QED
    BY <2>1, Zenon DEF Kernel, Colours
<1>3. \A c \in Colour : Kernel(InvertColorsVideoFilter, y)[c] = IF c = 4 THEN y[4] ELSE Unit - y[c]
  BY <1>2, InvertRow
<1> HIDE DEF y
<1>4. ASSUME NEW c \in Colour PROVE Kernel(InvertColorsVideoFilter, y)[c] = x[c]
  <2>1. CASE c = 4
    BY <1>1, <1>3, <2>1, Zenon
  <2>2. CASE c # 4
    BY <1>1, <1>3, <1>u, <2>2, Zenon
  <2> QED
    BY <2>1, <2>2
<1> QED
  BY <1>4, KernelIs DEF y

\* The grayscale kernel makes equal components.
LEMMA GrayRow ==
    ASSUME NEW x \in Colours
    PROVE  /\ \A c \in 1..3 : Kernel(GrayscaleVideoFilter, x)[c] = Row(0, 3000, 5900, 1100, 0, x[1], x[2], x[3], x[4])
           /\ Kernel(GrayscaleVideoFilter, x)[4] = x[4]
           /\ Kernel(GrayscaleVideoFilter, x) \in Colours
<1> DEFINE f == GrayscaleVideoFilter
<1>1. f.add = <<0, 0, 0, 0>> /\ f.kernel = <<Gray(100), Gray(100), Gray(100), Own(4)>>
  BY DEF GrayscaleVideoFilter, Zero
<1>2. Gray(100) = <<3000, 5900, 1100, 0>>
  BY DEF Gray
<1>3. f.kernel[1] = <<3000, 5900, 1100, 0>> /\ f.kernel[2] = <<3000, 5900, 1100, 0>> /\ f.kernel[3] = <<3000, 5900, 1100, 0>>
      /\ f.kernel[4] = Own(4)
      /\ f.add[1] = 0 /\ f.add[2] = 0 /\ f.add[3] = 0 /\ f.add[4] = 0
  BY <1>1, <1>2
<1> HIDE DEF f
<1>4. ASSUME NEW c \in 1..3
      PROVE  Kernel(f, x)[c] = Row(0, 3000, 5900, 1100, 0, x[1], x[2], x[3], x[4])
  <2> DEFINE r == <<3000, 5900, 1100, 0>>
  <2>1. c \in Colour /\ f.kernel[c] = r /\ f.add[c] = 0
    BY <1>3, ColourIs
  <2>2. r[1] = 3000 /\ r[2] = 5900 /\ r[3] = 1100 /\ r[4] = 0
    OBVIOUS
  <2> HIDE DEF r
  <2>3. Kernel(f, x)[c] = Row(f.add[c], r[1], r[2], r[3], r[4], x[1], x[2], x[3], x[4])
    BY <2>1, KernelRow
  <2> QED
    BY <2>1, <2>2, <2>3
<1>5. Kernel(f, x)[4] = x[4]
  <2> DEFINE r == Own(4)
  <2>1. r[1] = 0 /\ r[2] = 0 /\ r[3] = 0 /\ r[4] = Unit /\ f.kernel[4] = r
    BY <1>3, OwnIs, ColourIs
  <2> HIDE DEF r
  <2>2. Kernel(f, x)[4] = Row(f.add[4], r[1], r[2], r[3], r[4], x[1], x[2], x[3], x[4])
    BY <2>1, KernelRow, ColourIs
  <2> QED
    BY <1>3, <2>1, <2>2, Components, Rows
<1>6. Kernel(f, x) \in Colours
  <2>1. Row(0, 3000, 5900, 1100, 0, x[1], x[2], x[3], x[4]) \in 0..Unit
    <3> DEFINE s == 3000 * x[1] + 5900 * x[2] + 1100 * x[3] + 0 * x[4]
    <3>1. s \in Int
      BY Components
    <3> HIDE DEF s
    <3>2. 0 + s \div Unit \in Int
      BY <3>1 DEF Unit
    <3>3. Clamped(0 + s \div Unit) \in 0..Unit
      BY <3>2, ClampedIs
    <3> QED
      BY <3>3 DEF Row, s
  <2>2. ASSUME NEW c \in Colour PROVE Kernel(f, x)[c] \in 0..Unit
    BY <1>4, <1>5, <2>1, Components, ColourIs
  <2> QED
    BY <2>2, Zenon DEF Kernel, Colours
<1> QED
  BY <1>4, <1>5, <1>6 DEF f

\* Gray stays gray.
LEMMA GrayStays ==
    ASSUME NEW x \in Colours
    PROVE  LET gray == Kernel(GrayscaleVideoFilter, x)
           IN  gray[1] = gray[2] /\ gray[2] = gray[3] /\ Kernel(GrayscaleVideoFilter, gray) = gray
<1> DEFINE gray == Kernel(GrayscaleVideoFilter, x)
<1>1. gray \in Colours /\ gray[1] = gray[2] /\ gray[2] = gray[3]
  BY GrayRow
<1> HIDE DEF gray
<1>2. ASSUME NEW c \in Colour PROVE Kernel(GrayscaleVideoFilter, gray)[c] = gray[c]
  <2>1. Row(0, 3000, 5900, 1100, 0, gray[1], gray[2], gray[3], gray[4]) = gray[1]
    BY <1>1, Components, Rows
  <2>2. c \in 1..3 \/ c = 4
    BY ColourIs
  <2>3. c \in 1..3 => gray[c] = gray[1]
    BY <1>1
  <2> QED
    BY <1>1, <2>1, <2>2, <2>3, GrayRow
<1>3. Kernel(GrayscaleVideoFilter, gray) = gray
  BY <1>1, <1>2, KernelIs
<1> QED
  BY <1>1, <1>3 DEF gray

\* Sepia of gray has at least as much red as green and as green as blue.
LEMMA SepiaOrder ==
    ASSUME NEW x \in Colours, x[1] = x[2], x[2] = x[3]
    PROVE  LET sepia == Kernel(SepiaVideoFilter, x)
           IN  sepia[1] >= sepia[2] /\ sepia[2] >= sepia[3]
<1> DEFINE f == SepiaVideoFilter
           r1 == Mixed(Own(1), Gray(90), 75)
           r2 == Mixed(Own(2), Gray(75), 75)
           r3 == Mixed(Own(3), Gray(60), 75)
<1>1. f.add = <<0, 0, 0, 0>> /\ f.kernel = <<r1, r2, r3, Own(4)>>
  BY DEF SepiaVideoFilter, Zero
<1>2. f.kernel[1] = r1 /\ f.kernel[2] = r2 /\ f.kernel[3] = r3 /\ f.add[1] = 0 /\ f.add[2] = 0 /\ f.add[3] = 0
  BY <1>1
<1>3. ASSUME NEW row, NEW with, NEW c \in Colour
      PROVE  Mixed(row, with, 75)[c] = (row[c] * 25) \div 100 + with[c]
  BY DEF Mixed
<1>4. /\ Gray(90)[1] = 2700 /\ Gray(90)[2] = 5310 /\ Gray(90)[3] = 990 /\ Gray(90)[4] = 0
      /\ Gray(75)[1] = 2250 /\ Gray(75)[2] = 4425 /\ Gray(75)[3] = 825 /\ Gray(75)[4] = 0
      /\ Gray(60)[1] = 1800 /\ Gray(60)[2] = 3540 /\ Gray(60)[3] = 660 /\ Gray(60)[4] = 0
  BY DEF Gray
<1>5. /\ r1[1] = 5200 /\ r1[2] = 5310 /\ r1[3] = 990 /\ r1[4] = 0
      /\ r2[1] = 2250 /\ r2[2] = 6925 /\ r2[3] = 825 /\ r2[4] = 0
      /\ r3[1] = 1800 /\ r3[2] = 3540 /\ r3[3] = 3160 /\ r3[4] = 0
  <2>1. 1 \in Colour /\ 2 \in Colour /\ 3 \in Colour /\ 4 \in Colour
    BY ColourIs
  <2> QED
    BY <1>3, <1>4, <2>1, OwnIs DEF Unit
<1> HIDE DEF f, r1, r2, r3
<1>6. /\ Kernel(f, x)[1] = Row(0, 5200, 5310, 990, 0, x[1], x[2], x[3], x[4])
      /\ Kernel(f, x)[2] = Row(0, 2250, 6925, 825, 0, x[1], x[2], x[3], x[4])
      /\ Kernel(f, x)[3] = Row(0, 1800, 3540, 3160, 0, x[1], x[2], x[3], x[4])
  <2>1. 1 \in Colour /\ 2 \in Colour /\ 3 \in Colour
    BY ColourIs
  <2>2. Kernel(f, x)[1] = Row(f.add[1], r1[1], r1[2], r1[3], r1[4], x[1], x[2], x[3], x[4])
    BY <1>2, <2>1, KernelRow
  <2>3. Kernel(f, x)[2] = Row(f.add[2], r2[1], r2[2], r2[3], r2[4], x[1], x[2], x[3], x[4])
    BY <1>2, <2>1, KernelRow
  <2>4. Kernel(f, x)[3] = Row(f.add[3], r3[1], r3[2], r3[3], r3[4], x[1], x[2], x[3], x[4])
    BY <1>2, <2>1, KernelRow
  <2> QED
    BY <1>2, <1>5, <2>2, <2>3, <2>4
<1>7. Kernel(f, x)[1] >= Kernel(f, x)[2] /\ Kernel(f, x)[2] >= Kernel(f, x)[3]
  BY <1>6, Components, SepiaRows
<1> QED
  BY <1>7 DEF f

\* The row of alpha of every filter that is registered.
LEMMA AlphaRows ==
    ASSUME NEW f \in s_registration
    PROVE  \/ f.add[4] = 0 /\ f.kernel[4] = Own(4)
           \/ f.add[4] = 0 /\ f.kernel[4] = <<625, 5000, 5000, Unit>>
           \/ f.add[4] = Unit /\ f.kernel[4] = <<0, 0, 0, 0>>
           \/ f = InvertColorsVideoFilter
<1>1. CASE f = BasicVideoFilterBGRA \/ f = FisheyeVideoFilter
  BY <1>1 DEF BasicVideoFilterBGRA, FisheyeVideoFilter, Same, Zero
<1>2. CASE f = BasicVideoFilterBGRAinYUVAout
  BY <1>2 DEF BasicVideoFilterBGRAinYUVAout, Zero
<1>3. CASE f = GrayscaleVideoFilter
  BY <1>3 DEF GrayscaleVideoFilter, Zero
<1>4. CASE f = SepiaVideoFilter
  BY <1>4 DEF SepiaVideoFilter, Zero
<1>5. CASE f = GlowVideoFilter
  BY <1>5 DEF GlowVideoFilter, Zero
<1> QED
  BY <1>1, <1>2, <1>3, <1>4, <1>5 DEF s_registration

\* Opaque stays opaque.
LEMMA OpaqueStays ==
    ASSUME NEW x \in Colours, x[4] = Unit, NEW f \in s_registration
    PROVE  Kernel(f, x)[4] = Unit
<1> DEFINE r == f.kernel[4]
<1>1. Kernel(f, x)[4] = Row(f.add[4], r[1], r[2], r[3], r[4], x[1], x[2], x[3], x[4])
  BY KernelRow, ColourIs
<1>2. CASE f.add[4] = 0 /\ r = Own(4)
  <2>1. r[1] = 0 /\ r[2] = 0 /\ r[3] = 0 /\ r[4] = Unit
    BY <1>2, OwnIs, ColourIs
  <2> HIDE DEF r
  <2> QED
    BY <1>1, <1>2, <2>1, Components, OpaqueRows
<1>3. CASE f.add[4] = 0 /\ r = <<625, 5000, 5000, Unit>>
  <2>1. r[1] = 625 /\ r[2] = 5000 /\ r[3] = 5000 /\ r[4] = Unit
    BY <1>3
  <2> HIDE DEF r
  <2> QED
    BY <1>1, <1>3, <2>1, Components, OpaqueRows
<1>4. CASE f.add[4] = Unit /\ r = <<0, 0, 0, 0>>
  <2>1. r[1] = 0 /\ r[2] = 0 /\ r[3] = 0 /\ r[4] = 0
    BY <1>4
  <2> HIDE DEF r
  <2> QED
    BY <1>1, <1>4, <2>1, Components, OpaqueRows
<1>5. CASE f = InvertColorsVideoFilter
  BY <1>5, InvertRow, ColourIs
<1> QED
  BY <1>2, <1>3, <1>4, <1>5, AlphaRows

\* The filters keep what ColoursKept says.
LEMMA FilteredColour == \A x \in Colours : ColoursKept(x)
<1> SUFFICES ASSUME NEW x \in Colours PROVE ColoursKept(x)
  OBVIOUS
<1> DEFINE gray == Kernel(GrayscaleVideoFilter, x)
<1>1. gray \in Colours /\ gray[1] = gray[2] /\ gray[2] = gray[3] /\ Kernel(GrayscaleVideoFilter, gray) = gray
  BY GrayRow, GrayStays
<1>2. Kernel(SepiaVideoFilter, gray)[1] >= Kernel(SepiaVideoFilter, gray)[2]
      /\ Kernel(SepiaVideoFilter, gray)[2] >= Kernel(SepiaVideoFilter, gray)[3]
  <2> HIDE DEF gray
  <2> QED
    BY <1>1, SepiaOrder
<1> QED
  BY <1>1, <1>2, InvertedTwice, OpaqueStays DEF ColoursKept

-----------------------------------------------------------------------------
(* The calculations. *)

\* The input of a behaviour stays what it was.
LEMMA InputStays == Calculating => [](input \in Inputs)
<1>1. input \in Inputs /\ [UNCHANGED input]_input => (input \in Inputs)'
  OBVIOUS
<1> QED
  BY <1>1, PTL DEF Calculating

\* What put_string and the control messages write is read back, for strings of
\* any length below 2^31 and all stream ids and values, and parseStatusCode
\* finds the status code of every answer whose object follows any numbers,
\* booleans and nulls, wherever the code stands among any number of properties,
\* for every base.
THEOREM WrittenIsUnderstood == Calculating => []AMFUnderstood
<1>1. ASSUME input \in Inputs PROVE AMFUnderstood
  <2>1. CASE input.kind = "string"
    <3>1. input.s \in Strings
      BY <1>1, <2>1 DEF Inputs
    <3> QED
      BY <2>1, <3>1, StringBack DEF AMFUnderstood
  <2>2. CASE input.kind = "control"
    <3>1. input.streamId \in 0..(Base32 - 1) /\ input.value \in 0..(Base32 - 1)
      BY <1>1, <2>2 DEF Inputs
    <3> QED
      BY <2>2, <3>1, ControlBack DEF AMFUnderstood
  <2>3. CASE input.kind = "status"
    <3>1. input.before \in Seq(Skipped) /\ input.properties \in Seq(Property) \ {<<>>} /\ input.code \in Texts
      BY <1>1, <2>3 DEF Inputs
    <3> QED
      BY <2>3, <3>1, StatusIsFound DEF AMFUnderstood
  <2> QED
    BY <2>1, <2>2, <2>3 DEF AMFUnderstood
<1> QED
  BY <1>1, InputStays, PTL

\* Mixed samples stay between their level and the limit and do not wrap round,
\* converted ones keep their level, the resampling reads whole samples inside
\* its input, the decoder of an AudioSpecificConfig finds the rate and the
\* channels, and the filters keep gray gray and opaque opaque: for samples of
\* any width that halves into bytes, sources of any rate and length, and every
\* colour.
THEOREM SignalsStay == Calculating => []SignalsKept
<1>1. ASSUME input \in Inputs PROVE SignalsKept
  <2>1. CASE input.kind = "mix"
    <3>1. input.a \in Int16 /\ input.b \in Int16
      BY <1>1, <2>1 DEF Inputs
    <3> QED
      BY <2>1, <3>1, MixedSamples DEF SignalsKept
  <2>2. CASE input.kind = "convert"
    <3>1. input.v \in Int
      BY <1>1, <2>2 DEF Inputs
    <3> QED
      BY <2>2, <3>1, ConvertedSample DEF SignalsKept
  <2>3. CASE input.kind = "resample"
    <3>1. input.in \in Pcm /\ input.outRate \in Nat \ {0}
      BY <1>1, <2>3 DEF Inputs
    <3> QED
      BY <2>3, <3>1, ResampledInput DEF SignalsKept
  <2>4. CASE input.kind = "colour"
    <3>1. input.colour \in Colours
      BY <1>1, <2>4 DEF Inputs, Colours
    <3> QED
      BY <2>4, <3>1, FilteredColour DEF SignalsKept
  <2>5. CASE input.kind = "asc"
    <3>1. input.rate \in Accepted /\ input.channels \in {1, 2}
      BY <1>1, <2>5 DEF Inputs
    <3> QED
      BY <2>5, <3>1, RateAnnounced DEF SignalsKept
  <2> QED
    BY <2>1, <2>2, <2>3, <2>4, <2>5 DEF SignalsKept
<1> QED
  BY <1>1, InputStays, PTL

-----------------------------------------------------------------------------
(* The parts together. *)

LEMMA RingGoesOn == [Next]_vars => [Ring!Next]_(Ring!vars)
BY DEF Next, vars, ring, Ring!vars

LEMMA PreGoesOn == [Next]_vars => [Pre!Next]_(Pre!vars)
BY DEF Next, vars, pre, Pre!vars

LEMMA StreamGoesOn == [Next]_vars => [Stream!Next]_(Stream!vars)
BY DEF Next, vars, stream, Stream!vars, Stream!streamVars, Stream!loopVars, Stream!netVars

LEMMA VideoGoesOn == [Next]_vars => [Video!Next]_(Video!vars)
BY DEF Next, vars, video, Video!vars, Video!aspect, Video!position

LEMMA ConverterGoesOn == [Next]_vars => [Converter!Next]_(Converter!vars)
BY DEF Next, vars, converter, Converter!vars

LEMMA AdaptationGoesOn == [Next]_vars => [Adaptation!Next]_(Adaptation!vars)
BY DEF Next, vars, adaptation, Adaptation!vars

\* In each behaviour of Parts every part does what it does by itself.
THEOREM PartsRun ==
  Spec => Ring!Spec /\ Pre!Spec /\ Stream!Spec /\ Video!Spec /\ Converter!Spec /\ Adaptation!Spec
<1>1. Init => Ring!Init /\ Pre!Init /\ Stream!Init /\ Video!Init /\ Converter!Init /\ Adaptation!Init
  BY DEF Init
<1> QED
  BY <1>1, RingGoesOn, PreGoesOn, StreamGoesOn, VideoGoesOn, ConverterGoesOn, AdaptationGoesOn, PTL
     DEF Spec, Ring!Spec, Pre!Spec, Stream!Spec, Video!Spec, Converter!Spec, Adaptation!Spec

\* The two byte buffers are byte queues: what goes out is what came in, in order
\* and once, for every size of the ring and of the block, and wherever in them
\* reading and writing stand.
THEOREM BuffersKeepOrder ==
  ASSUME RingArray, Sized
  PROVE  Spec => BuffersAreQueues
BY PartsRun, ImplementsRingQueue, ImplementsByteQueue, PTL DEF BuffersAreQueues

\* As long as no change of the status word was overwritten, bytes that came are
\* read and the run loop does not wait for more, for all sizes of reads.
THEOREM ReadingStopsOnlyWhenLost ==
  ASSUME Roomy
  PROVE  Spec => []OnlyLostUpdatesStopReading
BY PartsRun, ReadingGoesOn, PTL DEF OnlyLostUpdatesStopReading

\* A setting of the transforms made between two frames shows in the next one,
\* for all sizes of frames, boxes and images.
THEOREM SettingsShowInFrames ==
  ASSUME TwoSizes
  PROVE  Spec => []FrameShowsSetting
BY PartsRun, SettingsShow, PTL DEF FrameShowsSetting

\* A converter is handed packets of the buffer it is to convert, for all formats
\* whose fields fit into the key.
THEOREM ConverterReadsItsBuffer ==
  ASSUME Keyed
  PROVE  Spec => []ReadsItsBuffer
BY PartsRun, BufferIsRead, PTL DEF ReadsItsBuffer

\* A decrease is reported exactly for a send buffer that grew three times, for
\* all sizes and delays.
THEOREM DecreaseWhenGrowing ==
  ASSUME Measurable
  PROVE  Spec => []DownWhenGrowing
BY PartsRun, DecreaseIsForGrowth, PTL DEF DownWhenGrowing
=============================================================================
