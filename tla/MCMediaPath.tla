----------------------------- MODULE MCMediaPath -----------------------------
(* MediaPath for TLC.                                                      *)
EXTENDS MediaPath
=============================================================================
