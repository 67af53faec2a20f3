------------------------------ MODULE DiagRules ------------------------------
(***************************************************************************)
(* The pure part of the diag rule engine (engine.c): field matching and    *)
(* the evaluation of one lookback condition over a device window.          *)
(*                                                                         *)
(* A device window is a sequence of events, newest arrival first: that is  *)
(* what win_at(w, 0), win_at(w, 1), ... return.  LookbackRing shows that   *)
(* the ring buffer in struct devwin implements it.                         *)
(*                                                                         *)
(* An event is a record with the fields of struct diag_event its rules     *)
(* look at; `ts' is ts_ns.  The optional parts of struct diag_cond (the    *)
(* has_* flags) are sets with at most one member: {} is "not given".       *)
(***************************************************************************)
EXTENDS Integers, Sequences, FiniteSets

CONSTANTS
  WIN_MAX_EVENTS,   \* slots of the per-device ring (1024 in the code)
  U64               \* modulus of uint64_t, any bound above every time stamp

ASSUME RingAssumption == WIN_MAX_EVENTS \in Nat \ {0}
ASSUME WordAssumption == U64 \in Nat \ {0}

\* The largest and the smallest member of a non-empty finite set of numbers.
Largest(S)  == CHOOSE x \in S : \A y \in S : y <= x
Smallest(S) == CHOOSE x \in S : \A y \in S : x <= y

-----------------------------------------------------------------------------
(* Field matching. *)

\* brequest and wvalue read as -1 on an event that carries no setup packet.
FieldVal(e, f) ==
  IF f \in {"brequest", "wvalue"} /\ e["has_setup"] = 0 THEN -1 ELSE e[f]

MatchOne(m, v) ==
  \/ m.op = "EQ"  /\ v = m.value
  \/ m.op = "NE"  /\ v # m.value
  \/ m.op = "GTE" /\ v >= m.value
  \/ m.op = "LTE" /\ v <= m.value

MatchFields(c, e) == \A m \in c.match : MatchOne(m, FieldVal(e, m.field))

\* A trigger looks at the kind and the match list only.
TriggerMatch(c, e) ==
  /\ \A k \in c.kind : e.kind = k
  /\ MatchFields(c, e)

CondEventPred(c, e) ==
  /\ TriggerMatch(c, e)
  /\ c.status_in = {} \/ e.status \in c.status_in

-----------------------------------------------------------------------------
(* The window. *)

\* win_push on a newest-first log: the oldest event falls off a full ring.
Pushed(log, e) ==
  LET n == IF Len(log) < WIN_MAX_EVENTS THEN Len(log) + 1 ELSE Len(log)
  IN  [i \in 1 .. n |-> IF i = 1 THEN e ELSE log[i - 1]]

-----------------------------------------------------------------------------
(* One lookback condition. *)

\* uint64_t subtraction: it wraps when the result is negative.
Minus64(a, b) == (a - b) % U64

\* An event is looked at if it is not newer than the trigger, is at most
\* within_ms old, and satisfies the per-event predicate.
Considered(c, ref, x) ==
  /\ x.ts <= ref
  /\ \A w \in c.within : ref - x.ts <= w
  /\ CondEventPred(c, x)

\* The places of the events eval_when counts, in a log newest arrival first.
Matches(log, c, ref) == {i \in DOMAIN log : Considered(c, ref, log[i])}

\* A variant: the distance is taken to the newest matching event of all.
TakenFromNewest(log, m, i, cluster) ==
  i = Smallest(m) \/ Minus64(log[Smallest(m)].ts, log[i].ts) > cluster

\* An event starts a new cluster when it lies more than cluster_ms before the
\* matching event met just before it (prev_ts), in arrival order.
Taken(log, m, i, cluster) ==
  LET met == {j \in m : j < i}
  IN  met = {} \/ Minus64(log[Largest(met)].ts, log[i].ts) > cluster

Clusters(log, m, cluster) == {i \in m : Taken(log, m, i, cluster)}

\* newest - oldest over the matching events.
Span(log, m) ==
  LET times == {log[i].ts : i \in m} IN Largest(times) - Smallest(times)

\* cnt after the loop: the number of matching events, or of clusters of them.
MatchCount(log, m, c) ==
  Cardinality(IF c.cluster > 0 THEN Clusters(log, m, c.cluster) ELSE m)

\* The value of eval_when: the count, or 0 when a minimal span is asked for
\* and not reached.
EvalWhen(log, c, ref) ==
  LET m == Matches(log, c, ref)
      n == MatchCount(log, m, c)
  IN  IF \E s \in c.span : n < 2 \/ Span(log, m) < s THEN 0 ELSE n

\* The trigger matches and every when condition reaches its count.
Fires(r, log, e) ==
  /\ TriggerMatch(r.trigger, e)
  /\ \A j \in DOMAIN r.when : EvalWhen(log, r.when[j], e.ts) >= r.when[j].need
=============================================================================
