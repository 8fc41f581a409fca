------------------------ MODULE MCGenericAudioMixer ------------------------
(***************************************************************************)
(* TLC instance of GenericAudioMixer. A buffer is shorter than, or as      *)
(* long as, a window; the ring has four of them, the fewest for which the  *)
(* start of a window is not set anew before it has gone out.               *)
(***************************************************************************)
EXTENDS GenericAudioMixer
=============================================================================
