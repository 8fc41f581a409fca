------------------------- MODULE MCVCSimpleSession -------------------------
(* VCSimpleSession for TLC: two rates, one on each side of AdaptiveStart. *)
EXTENDS VCSimpleSession
=============================================================================
