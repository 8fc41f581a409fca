---------------------------- MODULE MCVideoMixer ----------------------------
(* VideoMixer for TLC: the camera, with temporary buffers, and an image.   *)
EXTENDS VideoMixer
MCSources == {"camera", "image"}
MCBuffersOf == [s \in MCSources |-> IF s = "camera" THEN {1, 2} ELSE {3}]
=============================================================================
