----------------------------- MODULE MCDiagEngine -----------------------------
(***************************************************************************)
(* Three devices compete for two windows.  The rules are two of            *)
(* rules.yaml: port-overcurrent, which fires on its trigger alone, and     *)
(* enum-stall, ADDRESS without CONFIGURED for StallTimeout.  Neither looks *)
(* back, so a ring of one event is enough here: MCRuleEval checks the      *)
(* lookback, MCDiagPipeline a rule that needs earlier evidence.            *)
(***************************************************************************)
EXTENDS DiagEngine, TLC

CONSTANT StallTimeout    \* timeout_ms of enum-stall

Ev(kind, status, action, new_state) ==
  [kind |-> kind, status |-> status, is_submit |-> 0, action |-> action,
   step |-> 0, new_state |-> new_state]

HUB_OVERCURRENT == 4
ADDRESS == 6
CONFIGURED == 7

MCEvent == {
  Ev("hub", 0, HUB_OVERCURRENT, 0),
  Ev("lifecycle", 0, 1, 0),
  Ev("enum", 0, 0, ADDRESS),
  Ev("enum", 0, 0, CONFIGURED)}

Eq(f, v) == [field |-> f, op |-> "EQ", value |-> v]

MCRules == <<
  [trigger |-> [kind |-> {"hub"}, match |-> {Eq("action", HUB_OVERCURRENT)}],
   when |-> << >>],
  [reached |-> ADDRESS, without |-> CONFIGURED, timeout |-> StallTimeout]>>

DeviceSymmetry == Permutations(Device)
=============================================================================
