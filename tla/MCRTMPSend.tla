---------------------------- MODULE MCRTMPSend ----------------------------
(***************************************************************************)
(* TLC instances of RTMPSend.  The sizes are such that a message may take  *)
(* one or two calls of the stream and that two messages exceed the limit.  *)
(***************************************************************************)
EXTENDS RTMPSend
=============================================================================
