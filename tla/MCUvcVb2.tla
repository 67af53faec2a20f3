------------------------------ MODULE MCUvcVb2 ------------------------------
(***************************************************************************)
(* Two cameras, one after the other or at the same time; an event is       *)
(* attributed in the unit of time of the frame and the next one, and a     *)
(* third one is too late.                                                  *)
(***************************************************************************)
EXTENDS UvcVb2, TLC

CameraSymmetry == Permutations(Cameras)
=============================================================================
