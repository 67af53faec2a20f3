----------------------------- MODULE MCSession ------------------------------
(***************************************************************************)
(* Sessions of every kind, of two probes of diag and documents of up to    *)
(* two rules (a third is beyond the array).  The rules cover each way in   *)
(* which one is refused.                                                   *)
(***************************************************************************)
EXTENDS Session, EventFields, TLC

Symmetric == Permutations(Endpoints) \cup Permutations(Buffers)

Cond == [kind |-> "good", match |-> "good", nmatch |-> 1, nstatus |-> 0]
Event(trigger, when) == [type |-> "event", trigger |-> trigger, when |-> when]
Deadline(reached, timeout) ==
  [type |-> "deadline", reached |-> reached, without |-> "bad", timeout |-> timeout]

MCRuleNodes ==
  {[strings |-> {"id", "conclusion"}, body |-> body] :
     body \in {Event(Cond, << >>),
               Event(Cond, <<[Cond EXCEPT !.kind = "none"], Cond>>),
               Event([Cond EXCEPT !.kind = "none"], << >>),
               Event(Cond, <<Cond, Cond, Cond>>),
               Event(Cond, <<[Cond EXCEPT !.nstatus = 2]>>),
               Event([Cond EXCEPT !.nmatch = 2], << >>),
               Deadline("good", "good"), Deadline("bad", "good"), Deadline("good", "none")}}
  \cup {[strings |-> {"name"}, body |-> Event(Cond, << >>)]}

MCDiagSources == <<"urb", "enum">>
=============================================================================
