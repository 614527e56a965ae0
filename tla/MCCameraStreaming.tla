------------------------- MODULE MCCameraStreaming -------------------------
(* Instances of CameraStreaming for TLC. *)
EXTENDS CameraStreaming

CONSTANTS a, b          \* two browsers

MCStreams == {a, b}
=============================================================================
