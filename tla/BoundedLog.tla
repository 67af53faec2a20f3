------------------------------ MODULE BoundedLog ------------------------------
(***************************************************************************)
(* What a device window of the diag engine promises its readers: it holds  *)
(* the last WIN_MAX_EVENTS events pushed since the window was created,     *)
(* newest first.                                                           *)
(***************************************************************************)
EXTENDS DiagRules

CONSTANT Event

VARIABLE log

Init == log = << >>

Push(e) == log' = Pushed(log, e)

\* The window is given to another device.
Clear == log' = << >>

Next == (\E e \in Event : Push(e)) \/ Clear

Spec == Init /\ [][Next]_log
=============================================================================
