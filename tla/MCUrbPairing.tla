----------------------------- MODULE MCUrbPairing -----------------------------
(***************************************************************************)
(* Two addresses and one slot: the map is full while one transfer is in    *)
(* flight or has left its entry behind.                                    *)
(***************************************************************************)
EXTENDS UrbPairing
CONSTANTS u1, u2
MCUrbs == {u1, u2}
=============================================================================
