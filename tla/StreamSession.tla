---------------------------- MODULE StreamSession ----------------------------
(***************************************************************************)
(* Apple::StreamSession (stream/Apple/StreamSession.mm) with the loop of   *)
(* RTMPSession::dataReceived that drains it. m_status is one word: the     *)
(* run loop changes it in setStatus and read, the session's network queue  *)
(* in write, both by loading, changing and storing it, without a lock.     *)
(*                                                                         *)
(* The system's streams are external: an input stream reports that it has  *)
(* bytes and then not again before the next read; a read of an open stream *)
(* without bytes blocks. The receive buffer is taken to have room; that it *)
(* may be full, and what the bytes mean, is part of RTMPReceive.           *)
(***************************************************************************)
EXTENDS Naturals
CONSTANTS
    Rooms,      \* what dataReceived asks for in one read
    MaxBytes    \* bound: bytes that arrive

VARIABLES
    m_status,   \* the flags that are set
    opened,     \* streams that have reported that they are open
    arrived, received,  \* bytes that have come, and been read
    closed,     \* the connection ended or failed: nothing more comes
    over,       \* and that was reported
    told,       \* bytes were reported, and nothing has been read since
    loop,       \* where the run loop is
    reg,        \* what it has loaded of m_status
    got,        \* what its last read returned
    net, netReg,    \* the same of the network queue
    lost        \* history: a store overwrote a change made since its load
streamVars == <<opened, arrived, received, closed, over, told>>
loopVars == <<loop, reg, got>>
netVars == <<net, netReg>>
vars == <<m_status, streamVars, loopVars, netVars, lost>>

Connected == "connected"
HasSpace == "space"
HasBytes == "bytes"
available == arrived - received

Init ==
    /\ m_status = {} /\ opened = 0 /\ arrived = 0 /\ received = 0
    /\ closed = FALSE /\ over = FALSE /\ told = FALSE
    /\ loop = "idle" /\ reg = {} /\ got = "part" /\ net = "idle" /\ netReg = {} /\ lost = FALSE

\* m_status ^= flag, of what was loaded.
Flipped(flag, loaded) == IF flag \in loaded THEN loaded \ {flag} ELSE loaded \cup {flag}
Store(value, loaded) ==
    /\ m_status' = value
    /\ lost' = (lost \/ loaded # m_status)
-----------------------------------------------------------------------------
(* The connection.                                                         *)
Arrive ==
    /\ ~closed /\ opened > 0 /\ arrived < MaxBytes
    /\ arrived' = arrived + 1
    /\ UNCHANGED <<m_status, opened, received, closed, over, told, loopVars, netVars, lost>>
Close ==
    /\ closed' = TRUE
    /\ UNCHANGED <<m_status, opened, arrived, received, over, told, loopVars, netVars, lost>>
-----------------------------------------------------------------------------
(* The run loop: nsStreamCallback and setStatus.                           *)
\* Each stream reports that it is open; the word is set when both are and have
\* not ended.
OpenCompleted ==
    /\ loop = "idle" /\ opened < 2
    /\ opened' = opened + 1
    /\ \/ m_status' = {Connected}
       \/ (opened = 0 \/ closed) /\ UNCHANGED m_status
    /\ UNCHANGED <<arrived, received, closed, over, told, loopVars, netVars, lost>>
\* The end comes behind the last byte.
EndOrError ==
    /\ loop = "idle" /\ opened > 0 /\ closed /\ ~over
    /\ over' = TRUE
    /\ \/ m_status' = {"error"}
       \/ available = 0 /\ m_status' = {"end"}
    /\ UNCHANGED <<opened, arrived, received, closed, told, loopVars, netVars, lost>>

HasBytesAvailable ==
    /\ loop = "idle" /\ opened > 0 /\ ~over /\ available > 0 /\ ~told
    /\ told' = TRUE
    /\ loop' = "setBytes" /\ reg' = m_status
    /\ UNCHANGED <<m_status, opened, arrived, received, closed, over, got, netVars, lost>>
HasSpaceAvailable ==
    /\ loop = "idle" /\ opened > 0 /\ ~over
    /\ loop' = "setSpace" /\ reg' = m_status
    /\ UNCHANGED <<m_status, streamVars, got, netVars, lost>>

\* setStatus stores the word; for bytes the callback runs dataReceived.
SetBytes ==
    /\ loop = "setBytes"
    /\ Store(reg \cup {HasBytes}, reg)
    /\ loop' = "test"
    /\ UNCHANGED <<streamVars, reg, got, netVars>>
SetSpace ==
    /\ loop = "setSpace"
    /\ Store(reg \cup {HasSpace}, reg)
    /\ loop' = "idle"
    /\ UNCHANGED <<streamVars, reg, got, netVars>>
-----------------------------------------------------------------------------
(* The run loop: dataReceived and read.                                    *)
TestBytes ==
    /\ loop = "test"
    /\ loop' = IF HasBytes \in m_status THEN "read" ELSE "idle"
    /\ UNCHANGED <<m_status, streamVars, reg, got, netVars, lost>>

Read(room) ==
    /\ loop = "read" /\ available > 0
    /\ received' = IF available < room THEN arrived ELSE received + room
    /\ got' = IF available < room THEN "part" ELSE "full"
    /\ told' = FALSE
    /\ loop' = "ask"
    /\ UNCHANGED <<m_status, opened, arrived, closed, over, reg, netVars, lost>>
\* Of a connection that has ended a read returns 0 or -1.
ReadNothing ==
    /\ loop = "read" /\ available = 0 /\ closed
    /\ got' \in {"zero", "failed"}
    /\ told' = FALSE
    /\ loop' = "ask"
    /\ UNCHANGED <<m_status, opened, arrived, received, closed, over, reg, netVars, lost>>

\* A read that got less than it asked for clears the flag if it is set (-1
\* compares as larger than the size).
AskShort ==
    /\ loop = "ask"
    /\ IF got \in {"part", "zero"}
       THEN reg' = m_status /\ loop' = IF HasBytes \in m_status THEN "flip" ELSE "more"
       ELSE loop' = "more" /\ UNCHANGED reg
    /\ UNCHANGED <<m_status, streamVars, got, netVars, lost>>
\* Mutant: only a short read clears the flag.
AskMoreNever ==
    /\ loop = "more"
    /\ loop' = "test"
    /\ UNCHANGED <<m_status, streamVars, reg, got, netVars, lost>>
\* Else the flag is flipped, not cleared, if the stream has no more.
AskMore ==
    /\ loop = "more"
    /\ IF available = 0
       THEN reg' = m_status /\ loop' = "flip"
       ELSE loop' = "test" /\ UNCHANGED reg
    /\ UNCHANGED <<m_status, streamVars, got, netVars, lost>>
\* The word that was tested may be loaded again to be flipped.
ReadReload ==
    /\ loop = "flip"
    /\ reg' = m_status
    /\ UNCHANGED <<m_status, streamVars, loop, got, netVars, lost>>
\* dataReceived returns when nothing was read.
ReadFlip ==
    /\ loop = "flip"
    /\ Store(Flipped(HasBytes, reg), reg)
    /\ loop' = IF got \in {"zero", "failed"} THEN "idle" ELSE "test"
    /\ UNCHANGED <<streamVars, reg, got, netVars>>
-----------------------------------------------------------------------------
(* The network queue: a write of less than it was given.                   *)
Write ==
    /\ net = "idle" /\ opened > 0
    /\ netReg' = m_status
    /\ net' = IF HasSpace \in m_status THEN "flip" ELSE "idle"
    /\ UNCHANGED <<m_status, streamVars, loopVars, lost>>
WriteReload ==
    /\ net = "flip"
    /\ netReg' = m_status
    /\ UNCHANGED <<m_status, streamVars, loopVars, net, lost>>
WriteFlip ==
    /\ net = "flip"
    /\ Store(Flipped(HasSpace, netReg), netReg)
    /\ net' = "idle"
    /\ UNCHANGED <<streamVars, loopVars, netReg>>

Next ==
    \/ Arrive \/ Close
    \/ OpenCompleted \/ EndOrError \/ HasBytesAvailable \/ HasSpaceAvailable \/ SetBytes \/ SetSpace
    \/ TestBytes \/ (\E room \in Rooms : Read(room)) \/ ReadNothing \/ AskShort \/ AskMore
    \/ ReadReload \/ ReadFlip
    \/ Write \/ WriteReload \/ WriteFlip
Spec == Init /\ [][Next]_vars
-----------------------------------------------------------------------------
(* Reading goes on: the run loop leaves no bytes behind that the stream    *)
(* has reported and will not report again, and does not wait in a read for *)
(* bytes that need not come (with everything else it runs), unless a       *)
(* change of the status word was overwritten.                              *)
Stalled == loop = "idle" /\ available > 0 /\ told
Blocked == loop = "read" /\ available = 0 /\ ~closed
OnlyLostUpdatesStopReading == Stalled \/ Blocked => lost
=============================================================================
