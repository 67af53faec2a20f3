----------------------------- MODULE MCUvcFrames -----------------------------
(***************************************************************************)
(* Frames of two packets, URBs of up to three, so that a URB ends a frame, *)
(* holds a whole frame or spans two; eight packets cover the loss of a     *)
(* whole frame between two others, which then carry the same FID.          *)
(***************************************************************************)
EXTENDS UvcFrames
=============================================================================
