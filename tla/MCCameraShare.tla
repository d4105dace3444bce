--------------------------- MODULE MCCameraShare ---------------------------
(* A small instance of CameraShare for TLC: one popup after another. *)
EXTENDS CameraShare

MCPopups == 1..2

=============================================================================
