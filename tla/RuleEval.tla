------------------------------- MODULE RuleEval -------------------------------
(***************************************************************************)
(* eval_when over the lookback ring, beside the complete history of the    *)
(* device.  Every push is followed by the evaluation of every condition in *)
(* Conds, with the pushed event as the trigger, as diag_engine_ingest does *)
(* when a rule's trigger is the event it has just pushed.                  *)
(***************************************************************************)
EXTENDS LookbackRing

CONSTANTS
  Conds,     \* the lookback conditions evaluated
  MaxSkew,   \* how much older than its predecessors an arriving event may be
  MaxPush    \* bound: events pushed to one owner of the window

\* The stamps fit ts_ns; within, min_span and cluster are not negative.
ASSUME EvalAssumption ==
  /\ \A e \in Event : e.ts \in 0 .. U64 - 1
  /\ \A c \in Conds : /\ c.cluster \in Nat
                      /\ c.within \in SUBSET Nat
                      /\ c.span \in SUBSET Nat
  /\ MaxSkew \in Nat

VARIABLE
  hist       \* every event pushed to the current owner, newest arrival first

vars == <<ev, head, count, hist>>

Stamps(h) == {h[i].ts : i \in DOMAIN h}

\* The per-CPU buffers of the perf transport are drained one after the other,
\* so an event may arrive after events up to MaxSkew newer than it.
Arrives(e) == hist # << >> => e.ts >= Largest(Stamps(hist)) - MaxSkew

EvalInit == Init /\ hist = << >>

Record(e) ==
  /\ Len(hist) < MaxPush
  /\ Arrives(e)
  /\ WinPush(e)
  /\ hist' = <<e>> \o hist

Recycle ==
  /\ hist # << >>
  /\ Reset
  /\ hist' = << >>

EvalNext == (\E e \in Event : Record(e)) \/ Recycle

EvalSpec == EvalInit /\ [][EvalNext]_vars

-----------------------------------------------------------------------------

\* The time stamp of the trigger: the event pushed last.
Ref == hist[1].ts

\* How many events of the history a condition's age bound reaches.
InReach(c) ==
  Cardinality({i \in DOMAIN hist : \A w \in c.within : Ref - hist[i].ts <= w})

(* The comment on WIN_MAX_EVENTS: the ring "must hold at least within_ms x *)
(* peak event rate so a rule's lookback isn't truncated".  When it does,   *)
(* eval_when over the ring gives what it would give over everything the    *)
(* device ever sent.                                                       *)
LookbackNotTruncated ==
  hist # << >> =>
    \A c \in Conds :
      InReach(c) <= WIN_MAX_EVENTS =>
        EvalWhen(Contents, c, Ref) = EvalWhen(hist, c, Ref)

(* When a flood does truncate the lookback, evidence is lost but never     *)
(* invented: no rule fires from the ring that the history does not         *)
(* support.                                                                *)
FloodNeverInvents ==
  hist # << >> =>
    \A c \in Conds : EvalWhen(Contents, c, Ref) <= EvalWhen(hist, c, Ref)

\* The matching events a condition can see, as a set of times.
MatchingTimes(c) == {Contents[i].ts : i \in Matches(Contents, c, Ref)}

\* A time ends a burst when no matching event follows within cluster_ms.
BurstEnds(c) ==
  LET times == MatchingTimes(c)
  IN  {t \in times : \A u \in times : u > t => u - t > c.cluster}

(* cluster_ms: "events closer than N ms count as one".  The count eval_when *)
(* returns is the number of bursts: maximal groups of matching events with *)
(* no gap above cluster_ms between neighbours in time.                     *)
EveryBurstCountsOnce ==
  hist # << >> =>
    \A c \in Conds :
      c.cluster > 0 /\ c.span = {} =>
        EvalWhen(Contents, c, Ref) = Cardinality(BurstEnds(c))
=============================================================================
