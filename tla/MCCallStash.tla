----------------------------- MODULE MCCallStash -----------------------------
(***************************************************************************)
(* Two threads, one slot per map, nested calls of two functions, of which  *)
(* usb_new_device reports success only; one of two devices is watched.     *)
(***************************************************************************)
EXTENDS CallStash
CONSTANTS t1, t2, watched, other
MCThreads == {t1, t2}
MCDevices == {watched, other}
MCWatched == {watched}
MCHooked == {"usb_new_device", "usb_set_configuration"}
=============================================================================
