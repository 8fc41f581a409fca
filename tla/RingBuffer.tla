----------------------------- MODULE RingBuffer -----------------------------
(***************************************************************************)
(* RingBuffer (system/Buffer.hpp). Every operation holds m_mutex, or is    *)
(* called by one thread; an operation is one action. read with advance     *)
(* moves to the start of the array wherever it ends, so it is taken here   *)
(* only where it ends at the end of the array; what get clears, and what    *)
(* was taken before, cannot be put back.                                   *)
(***************************************************************************)
EXTENDS Integers, Sequences
CONSTANTS
    m_total,    \* the size of the array
    MaxBytes    \* bound: bytes ever offered

VARIABLES
    m_buffer,   \* the array; bytes are numbered as they are offered, 0 is none
    m_size, m_read, m_write,
    offered,    \* how many bytes have been offered
    taken       \* history: the bytes taken out that can be put back
vars == <<m_buffer, m_size, m_read, m_write, offered, taken>>

Least(a, b) == IF a < b THEN a ELSE b
Held == [i \in 1..m_size |-> m_buffer[(m_read + i - 1) % m_total]]

\* The two stretches of a transfer of size bytes at start: up to the end of the
\* array, and on from its start.
End(start, size) == Least(start + size, m_total)
First(start, size) == End(start, size) - start
\* Mutant: a position that reaches the end of the array goes on from there.
MovedPast(start, size) == start + size
Moved(start, size) ==
    IF First(start, size) < size THEN size - First(start, size) ELSE start + First(start, size)
\* The i-th byte of the transfer.
Cell(start, size, i) == IF i <= First(start, size) THEN start + i - 1 ELSE i - First(start, size) - 1

Init ==
    /\ m_buffer = [i \in 0..(m_total - 1) |-> 0]
    /\ m_size = 0 /\ m_read = 0 /\ m_write = 0 /\ offered = 0 /\ taken = <<>>

\* The array with size new bytes from the write position, without the size
\* bytes from the read position, and those bytes.
Filled(size) ==
    [c \in 0..(m_total - 1) |->
        IF \E i \in 1..size : Cell(m_write, size, i) = c
        THEN offered + (CHOOSE i \in 1..size : Cell(m_write, size, i) = c) ELSE m_buffer[c]]
Emptied(size) ==
    [c \in 0..(m_total - 1) |-> IF \E i \in 1..size : Cell(m_read, size, i) = c THEN 0 ELSE m_buffer[c]]
Bytes(size) == [i \in 1..size |-> m_buffer[Cell(m_read, size, i)]]

Put(n) ==
    LET size == IF m_size + n > m_total THEN m_total - m_size ELSE n
    IN  /\ offered + n <= MaxBytes
        /\ m_buffer' = Filled(size)
        /\ m_write' = IF size > 0 THEN Moved(m_write, size) ELSE m_write
        /\ m_size' = m_size + size
        /\ offered' = offered + n
        /\ UNCHANGED <<m_read, taken>>

Get(n, clear) ==
    LET size == Least(n, m_size)
    IN  /\ m_buffer' = IF clear THEN Emptied(size) ELSE m_buffer
        /\ m_read' = IF size > 0 THEN Moved(m_read, size) ELSE m_read
        /\ m_size' = m_size - size
        /\ taken' = IF clear THEN <<>> ELSE taken \o Bytes(size)
        /\ UNCHANGED <<m_write, offered>>

Unget(n) ==
    LET length == IF n + m_size > m_total THEN m_total - m_size ELSE n
    IN  /\ n <= Len(taken)
        /\ m_size' = m_size + length
        /\ m_read' = IF m_read >= length THEN m_read - length ELSE m_total - (length - m_read)
        /\ taken' = SubSeq(taken, 1, Len(taken) - length)
        /\ UNCHANGED <<m_buffer, m_write, offered>>

Read(n) ==
    LET size == First(m_read, Least(n, m_size))
    IN  /\ size > 0 /\ m_read + size = m_total
        /\ m_read' = 0
        /\ m_size' = m_size - size
        /\ taken' = taken \o Bytes(size)
        /\ UNCHANGED <<m_buffer, m_write, offered>>

Clear ==
    /\ m_size' = 0 /\ m_read' = 0 /\ m_write' = 0 /\ taken' = <<>>
    /\ UNCHANGED <<m_buffer, offered>>

Next ==
    \/ \E n \in 1..(m_total + 1) : Put(n) \/ Unget(n) \/ Read(n) \/ \E clear \in BOOLEAN : Get(n, clear)
    \/ Clear
Spec == Init /\ [][Next]_vars
-----------------------------------------------------------------------------
(* The ring buffer is a byte queue of its size, wherever its two positions *)
(* stand in the array.                                                     *)
Queue == INSTANCE ByteQueue WITH
    Data <- {[i \in 1..n |-> k + i] : n \in 1..(m_total + 1), k \in 0..MaxBytes},
    Capacity <- m_total, held <- Held, taken <- taken
RingIsQueue == Queue!Spec
=============================================================================
