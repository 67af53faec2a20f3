------------------------------ MODULE MCRuleEval ------------------------------
(***************************************************************************)
(* A ring of three slots, time stamps 1..6 (cluster bound 1, lookback 3),  *)
(* autoresume events and transfer errors, conditions in the shapes of      *)
(* rules.yaml: a plain count, a count of clusters (resume-storm), a count  *)
(* over a minimal span, and an unbounded lookback.                         *)
(***************************************************************************)
EXTENDS RuleEval

CONSTANTS MaxStamp

MCEvent == [kind : {"power", "urb"}, status : {0}, action : {1}, ts : 1 .. MaxStamp]

Cond(kind, within, need, span, cluster) ==
  [kind |-> {kind}, match |-> {[field |-> "action", op |-> "GTE", value |-> 1]},
   status_in |-> {}, within |-> within, need |-> need, span |-> span,
   cluster |-> cluster]

MCConds == {
  Cond("urb", {2}, 2, {}, 0),
  Cond("power", {3}, 2, {}, 1),
  Cond("power", {3}, 2, {2}, 0),
  Cond("urb", {3}, 2, {2}, 1)}
=============================================================================
