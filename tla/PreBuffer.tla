------------------------------ MODULE PreBuffer ------------------------------
(***************************************************************************)
(* PreallocBuffer (system/PreBuffer.cpp), the buffer for what the server   *)
(* sends: two pointers into a block that grows when the space behind the   *)
(* write pointer is too small. Space in front of the read pointer comes    *)
(* back only when everything has been read. One thread uses it.            *)
(***************************************************************************)
EXTENDS Integers, Sequences
CONSTANTS
    capBytes,   \* the size of the block at first
    Sizes,      \* what callers ask for and write
    MaxBytes    \* bound: bytes ever written

VARIABLES
    m_preBuffer,    \* the block; bytes are numbered as they are written, 0 is none
    m_readPointer, m_writePointer,  \* offsets
    ensured,        \* what the writer has made room for and not yet written
    written         \* how many bytes have been written
vars == <<m_preBuffer, m_readPointer, m_writePointer, ensured, written>>

m_preBufferSize == Len(m_preBuffer)
availableBytes == m_writePointer - m_readPointer
availableSpace == m_preBufferSize - m_writePointer
Unread == SubSeq(m_preBuffer, m_readPointer + 1, m_writePointer)

Init ==
    /\ m_preBuffer = [i \in 1..capBytes |-> 0]
    /\ m_readPointer = 0 /\ m_writePointer = 0 /\ ensured = 0 /\ written = 0

\* realloc keeps what the block holds.
Grown(n) == [i \in 1..(m_preBufferSize + n - availableSpace) |->
                IF i <= m_preBufferSize THEN m_preBuffer[i] ELSE 0]

ensureCapacityForWrite(n) ==
    /\ m_preBuffer' = IF n > availableSpace THEN Grown(n) ELSE m_preBuffer
    /\ ensured' = n
    /\ UNCHANGED <<m_readPointer, m_writePointer, written>>

\* The bytes are written at writeBuffer(), then confirmed.
didWrite(n) ==
    /\ n <= ensured /\ written + n <= MaxBytes
    /\ m_preBuffer' = [i \in 1..m_preBufferSize |->
           IF i \in (m_writePointer + 1)..(m_writePointer + n)
           THEN written + i - m_writePointer ELSE m_preBuffer[i]]
    /\ m_writePointer' = m_writePointer + n
    /\ written' = written + n
    /\ ensured' = 0
    /\ UNCHANGED m_readPointer

Reset == m_readPointer' = 0 /\ m_writePointer' = 0

didRead(n) ==
    /\ n <= availableBytes
    /\ IF n = availableBytes
       THEN Reset
       ELSE m_readPointer' = m_readPointer + n /\ UNCHANGED m_writePointer
    /\ ensured' = 0
    /\ UNCHANGED <<m_preBuffer, written>>

\* connectServer
reset == Reset /\ ensured' = 0 /\ UNCHANGED <<m_preBuffer, written>>

Next ==
    \/ \E n \in Sizes : ensureCapacityForWrite(n) \/ didWrite(n) \/ didRead(n)
    \/ reset
Spec == Init /\ [][Next]_vars
-----------------------------------------------------------------------------
(* What is written after its room was ensured is read back in order, and   *)
(* nothing is dropped, however often the block has moved or been reset.    *)
Queue == INSTANCE ByteQueue WITH
    Data <- {[i \in 1..n |-> k + i] : n \in Sizes, k \in 0..MaxBytes},
    Capacity <- MaxBytes, held <- Unread, taken <- <<>>
PreBufferIsQueue == Queue!Spec

(* The pointers stay in the block and the block holds what was asked for   *)
(* (the assertions of didRead and didWrite).                               *)
PointersInBlock ==
    /\ 0 <= m_readPointer /\ m_readPointer <= m_writePointer
    /\ m_writePointer + ensured <= m_preBufferSize
=============================================================================
