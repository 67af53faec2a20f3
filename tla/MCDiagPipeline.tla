---------------------------- MODULE MCDiagPipeline ----------------------------
(***************************************************************************)
(* One device that enumerates (or stalls); for the order of evidence, its *)
(* transfer errors and its disconnect.  Rules: disconnect-after-errors for *)
(* two errors, and enum-stall.                                             *)
(***************************************************************************)
EXTENDS DiagPipeline

Ev(kind, status, action, new_state) ==
  [kind |-> kind, status |-> status, is_submit |-> 0, action |-> action,
   step |-> 0, new_state |-> new_state]

EPROTO == 71
ADDRESS == 6
DISCONNECT == 1

Bringup == {Ev("enum", 0, 0, ADDRESS), Ev("enum", 0, 0, CONFIGURED)}

UrbAndLifecycle == {Ev("urb", EPROTO, 0, 0), Ev("lifecycle", 0, DISCONNECT, 0)}

MCRules == <<
  [trigger |-> [kind |-> {"lifecycle"},
                match |-> {[field |-> "action", op |-> "EQ", value |-> DISCONNECT]}],
   when |-> << [kind |-> {"urb"},
                match |-> {[field |-> "is_submit", op |-> "EQ", value |-> 0]},
                status_in |-> {EPROTO}, within |-> {2}, need |-> 2,
                span |-> {}, cluster |-> 0] >>],
  [reached |-> ADDRESS, without |-> CONFIGURED, timeout |-> 1]>>
=============================================================================
