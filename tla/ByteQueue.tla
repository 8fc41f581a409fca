------------------------------ MODULE ByteQueue ------------------------------
(***************************************************************************)
(* What a byte buffer promises: bytes come out in the order in which they  *)
(* went in, as many go in as there is room for, and bytes taken out last   *)
(* can be put back, as many as there is room for.                          *)
(***************************************************************************)
EXTENDS Naturals, Sequences
CONSTANTS Data,      \* what is put in one call
          Capacity
VARIABLES held,      \* the bytes in the buffer
          taken      \* the bytes taken out that can be put back
vars == <<held, taken>>

AtMost(n, room) == IF n < room THEN n ELSE room
Room == Capacity - Len(held)

Init == held = <<>> /\ taken = <<>>
Put(data) ==
    /\ held' = held \o SubSeq(data, 1, AtMost(Len(data), Room))
    /\ UNCHANGED taken
Get(size) ==
    /\ held' = SubSeq(held, AtMost(size, Len(held)) + 1, Len(held))
    /\ \/ taken' = taken \o SubSeq(held, 1, AtMost(size, Len(held)))
       \/ taken' = <<>>
Unget(length) ==
    LET rest == Len(taken) - AtMost(length, Room)
    IN  /\ length <= Len(taken)
        /\ held' = SubSeq(taken, rest + 1, Len(taken)) \o held
        /\ taken' = SubSeq(taken, 1, rest)
Clear == held' = <<>> /\ taken' = <<>>

Next ==
    \/ \E data \in Data : Put(data)
    \/ \E n \in 0..Capacity : Get(n) \/ Unget(n)
    \/ Clear
Spec == Init /\ [][Next]_vars
=============================================================================
