--------------------------- MODULE MCRTMPReceive ---------------------------
(* RTMPReceive for TLC: every constant is given by the configurations.     *)
EXTENDS RTMPReceive
=============================================================================
