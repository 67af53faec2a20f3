----------------------------- MODULE LookbackRing -----------------------------
(***************************************************************************)
(* The lookback ring of struct devwin (engine.c): a slot array, the next   *)
(* write slot and the number of valid slots.  win_push writes, win_at      *)
(* reads newest first, win_get's memset empties the ring when the window   *)
(* is given to another device.                                             *)
(***************************************************************************)
EXTENDS DiagRules

CONSTANTS
  Event,      \* the events that can be pushed
  NoEvent     \* the content of a zeroed slot

VARIABLES
  ev,         \* struct diag_event ev[WIN_MAX_EVENTS]
  head,       \* next write slot
  count       \* valid entries

ringVars == <<ev, head, count>>

Slot == 0 .. WIN_MAX_EVENTS - 1

-----------------------------------------------------------------------------

Init ==
  /\ ev = [s \in Slot |-> NoEvent]
  /\ head = 0
  /\ count = 0

NextHead(h) == (h + 1) % WIN_MAX_EVENTS

\* A variant: a full ring restarts its count.
WinPushRestart(e) ==
  /\ ev' = [ev EXCEPT ![head] = e]
  /\ head' = NextHead(head)
  /\ count' = IF count < WIN_MAX_EVENTS THEN count + 1 ELSE 1

WinPush(e) ==
  /\ ev' = [ev EXCEPT ![head] = e]
  /\ head' = NextHead(head)
  /\ count' = IF count < WIN_MAX_EVENTS THEN count + 1 ELSE count

\* A variant: the new owner inherits the count of the old one.
ResetStale ==
  /\ ev' = ev
  /\ head' = 0
  /\ count' = count

\* A variant: the window is given away as it is.
ResetForgotten == UNCHANGED ringVars

\* memset(w, 0, sizeof(*w)) in win_get.
Reset ==
  /\ ev' = [s \in Slot |-> NoEvent]
  /\ head' = 0
  /\ count' = 0

\* win_at's slot for the idx-th newest event, idx in 0 .. count-1.
WinPos(idx) == (head - 1 - idx + 2 * WIN_MAX_EVENTS) % WIN_MAX_EVENTS

WinAt(idx) == ev[WinPos(idx)]

\* What a walk over win_at(0), win_at(1), ... up to count sees.
Contents == [i \in 1 .. count |-> WinAt(i - 1)]

Next == (\E e \in Event : WinPush(e)) \/ Reset

Spec == Init /\ [][Next]_ringVars

-----------------------------------------------------------------------------

(* Every slot a reader can reach has been written since the last reset:    *)
(* win_at never returns the zeroes of a slot no event was pushed to.       *)
TypeOK ==
  /\ ev \in [Slot -> Event \cup {NoEvent}]
  /\ head \in Slot
  /\ count \in 0 .. WIN_MAX_EVENTS
  /\ \A s \in Slot : (count = WIN_MAX_EVENTS \/ s < head) => ev[s] \in Event
  /\ count < WIN_MAX_EVENTS => head = count

(* The ring implements the window its readers rely on: after any number of *)
(* pushes and resets, win_at(0) .. win_at(count-1) are the last            *)
(* WIN_MAX_EVENTS events of this owner, newest first.                      *)
Window == INSTANCE BoundedLog WITH log <- Contents

ImplementsBoundedLog == Window!Spec
=============================================================================
