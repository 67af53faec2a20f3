---------------------------- MODULE RuleEval_proofs ----------------------------
(***************************************************************************)
(* The ring buffer of a device window implements the bounded log, and the  *)
(* evaluation of a condition over it agrees with the complete history, for *)
(* a ring of any size, any conditions and any events.                      *)
(***************************************************************************)
EXTENDS RuleEval, TLAPS, FiniteSetTheorems, SequenceTheorems

-----------------------------------------------------------------------------
(* Positions in the ring. *)

\* Whole turns of the ring lead back to the same slot.
LEMMA ModWithin ==
  ASSUME NEW n \in Nat \ {0}, NEW a \in 0 .. n - 1, NEW k \in 0 .. 2
  PROVE  (a + k * n) % n = a
<1>1. CASE k = 0
  BY <1>1, Z3
<1>2. CASE k = 1
  BY <1>2, Z3
<1>3. CASE k = 2
  BY <1>3, Z3
<1> QED
  BY <1>1, <1>2, <1>3

\* The head of the ring as an index, wrapped at the end.
LEMMA NextHeadIs ==
  ASSUME NEW h \in Slot
  PROVE  NextHead(h) = IF h + 1 = WIN_MAX_EVENTS THEN 0 ELSE h + 1
<1> DEFINE n == WIN_MAX_EVENTS
<1>1. n \in Nat \ {0} /\ h \in 0 .. n - 1
  BY RingAssumption DEF Slot
<1>2. CASE h + 1 = n
  <2>1. (0 + 1 * n) % n = 0
    BY <1>1, ModWithin
  <2> QED
    BY <1>1, <1>2, <2>1 DEF NextHead
<1>3. CASE h + 1 # n
  <2>1. h + 1 \in 0 .. n - 1
    BY <1>1, <1>3
  <2>2. (h + 1 + 0 * n) % n = h + 1
    BY <1>1, <2>1, ModWithin
  <2>3. h + 1 + 0 * n = h + 1
    BY <1>1
  <2> QED
    BY <1>3, <2>2, <2>3 DEF NextHead
<1> QED
  BY <1>2, <1>3

\* The slot win_at reads for index idx when the next write slot is h.
LEMMA WinPosIs ==
  ASSUME NEW h \in Slot, NEW idx \in Slot
  PROVE  (h - 1 - idx + 2 * WIN_MAX_EVENTS) % WIN_MAX_EVENTS =
           IF idx < h THEN h - 1 - idx ELSE h - 1 - idx + WIN_MAX_EVENTS
<1> DEFINE n == WIN_MAX_EVENTS
<1>1. n \in Nat \ {0} /\ h \in 0 .. n - 1 /\ idx \in 0 .. n - 1
  BY RingAssumption DEF Slot
<1>2. CASE idx < h
  <2> DEFINE a == h - 1 - idx
  <2>1. a \in 0 .. n - 1 /\ a + 2 * n = h - 1 - idx + 2 * n
    BY <1>1, <1>2
  <2> HIDE DEF a
  <2>2. (a + 2 * n) % n = a
    BY <1>1, <2>1, ModWithin
  <2> QED
    BY <1>2, <2>1, <2>2 DEF a
<1>3. CASE ~(idx < h)
  <2> DEFINE a == h - 1 - idx + n
  <2>1. a \in 0 .. n - 1 /\ a + 1 * n = h - 1 - idx + 2 * n
    BY <1>1, <1>3
  <2> HIDE DEF a
  <2>2. (a + 1 * n) % n = a
    BY <1>1, <2>1, ModWithin
  <2> QED
    BY <1>3, <2>1, <2>2 DEF a
<1> QED
  BY <1>2, <1>3

-----------------------------------------------------------------------------
(* The slots a reader can reach hold pushed events. *)

\* win_push keeps the ring and its counters typed.
LEMMA PushType == ASSUME TypeOK, NEW e \in Event, WinPush(e) PROVE TypeOK'
<1> DEFINE n == WIN_MAX_EVENTS
<1>1. n \in Nat \ {0} /\ Slot = 0 .. n - 1 /\ head \in Slot /\ count \in 0 .. n
  BY RingAssumption DEF Slot, TypeOK
<1>2. /\ head' = IF head + 1 = n THEN 0 ELSE head + 1
      /\ count' = IF count < n THEN count + 1 ELSE count
      /\ ev' = [ev EXCEPT ![head] = e]
  BY <1>1, NextHeadIs DEF WinPush
<1>3. count < n => head = count
  BY DEF TypeOK
<1>4. \A s \in Slot : (count = n \/ s < head) => ev[s] \in Event
  BY DEF TypeOK
<1>5. ev \in [Slot -> Event \cup {NoEvent}]
  BY DEF TypeOK
<1> HIDE DEF n
<1>6. head' \in Slot /\ count' \in 0 .. n /\ (count' < n => head' = count')
  BY <1>1, <1>2, <1>3
<1>7. ev' \in [Slot -> Event \cup {NoEvent}]
  BY <1>1, <1>2, <1>5
<1>8. ASSUME NEW s \in Slot, count' = n \/ s < head'
      PROVE  ev'[s] \in Event
  <2>1. CASE s = head
    BY <1>1, <1>2, <1>5, <2>1
  <2>2. CASE s # head
    <3>1. count = n \/ s < head
      BY <1>1, <1>2, <1>3, <1>8, <2>2
    <3>2. ev[s] \in Event
      BY <1>4, <3>1
    <3> QED
      BY <1>1, <1>2, <1>5, <2>2, <3>2
  <2> QED
    BY <2>1, <2>2
<1> QED
  BY <1>6, <1>7, <1>8 DEF TypeOK, n

\* win_at never returns the zeroes of a slot nothing was pushed to (engine.c).
THEOREM RingCorrect == Spec => []TypeOK
<1>1. Init => TypeOK
  BY RingAssumption DEF Init, TypeOK, Slot
<1>2. TypeOK /\ Reset => TypeOK'
  BY RingAssumption DEF Reset, TypeOK, Slot
<1>3. TypeOK /\ UNCHANGED ringVars => TypeOK'
  BY DEF TypeOK, ringVars
<1>4. TypeOK /\ [Next]_ringVars => TypeOK'
  BY <1>2, <1>3, PushType DEF Next
<1> QED
  BY <1>1, <1>4, PTL DEF Spec

-----------------------------------------------------------------------------
(* The refinement. *)

\* After a push a reader finds the new event first, and the event it found at
\* index i before at index i + 1.
LEMMA PushContents ==
  ASSUME TypeOK, NEW e \in Event, WinPush(e)
  PROVE  Contents' = Pushed(Contents, e)
<1> DEFINE n == WIN_MAX_EVENTS
<1>1. n \in Nat \ {0} /\ Slot = 0 .. n - 1 /\ head \in Slot /\ count \in 0 .. n
  BY RingAssumption DEF Slot, TypeOK
<1>2. /\ head' = IF head + 1 = n THEN 0 ELSE head + 1
      /\ count' = IF count < n THEN count + 1 ELSE count
      /\ ev' = [ev EXCEPT ![head] = e]
      /\ ev \in [Slot -> Event \cup {NoEvent}]
  BY <1>1, NextHeadIs DEF WinPush, TypeOK
<1>3. head' \in Slot /\ count' \in 0 .. n
  BY <1>1, <1>2
<1>4. ASSUME NEW i \in 1 .. count'
      PROVE  ev'[WinPos(i - 1)'] = IF i = 1 THEN e ELSE ev[WinPos(i - 2)]
  <2>1. i \in Nat /\ i - 1 \in Slot
    BY <1>1, <1>3
  <2>2. WinPos(i - 1)' = IF i - 1 < head' THEN head' - i ELSE head' - i + n
    <3>1. WinPos(i - 1)' = (head' - 1 - (i - 1) + 2 * n) % n
      BY DEF WinPos
    <3>2. WinPos(i - 1)' =
            IF i - 1 < head' THEN head' - 1 - (i - 1) ELSE head' - 1 - (i - 1) + n
      BY <1>3, <2>1, <3>1, WinPosIs
    <3> QED
      BY <1>1, <1>3, <2>1, <3>2
  <2>3. CASE i = 1
    <3>1. WinPos(i - 1)' = head
      BY <1>1, <1>2, <2>2, <2>3
    <3> QED
      BY <1>1, <1>2, <2>3, <3>1
  <2>4. CASE i # 1
    <3>1. i - 2 \in Slot
      BY <1>1, <2>1, <2>4
    <3>2. WinPos(i - 2) = (head - 1 - (i - 2) + 2 * n) % n
      BY DEF WinPos
    <3>3. WinPos(i - 2) =
            IF i - 2 < head THEN head - 1 - (i - 2) ELSE head - 1 - (i - 2) + n
      BY <1>1, <3>1, <3>2, WinPosIs
    <3>4. WinPos(i - 1)' = WinPos(i - 2) /\ WinPos(i - 2) # head
      BY <1>1, <1>2, <2>1, <2>2, <2>4, <3>1, <3>3
    <3> QED
      BY <1>2, <2>4, <3>4
  <2> QED
    BY <2>3, <2>4
<1>5. Len(Contents) = count
  BY <1>1 DEF Contents
<1>6. count' = IF Len(Contents) < n THEN Len(Contents) + 1 ELSE Len(Contents)
  BY <1>2, <1>5
<1>7. Contents' = [i \in 1 .. count' |-> ev'[WinPos(i - 1)']]
  BY DEF Contents, WinAt
<1>8. Pushed(Contents, e) = [i \in 1 .. count' |-> IF i = 1 THEN e ELSE Contents[i - 1]]
  BY <1>6 DEF Pushed
<1>9. \A i \in 1 .. count' : i # 1 => Contents[i - 1] = ev[WinPos(i - 2)]
  <2> SUFFICES ASSUME NEW i \in 1 .. count', i # 1
               PROVE  Contents[i - 1] = ev[WinPos(i - 2)]
    OBVIOUS
  <2>1. i - 1 \in 1 .. count /\ i - 1 - 1 = i - 2
    BY <1>1, <1>2
  <2> QED
    BY <2>1 DEF Contents, WinAt
<1> QED
  BY <1>4, <1>7, <1>8, <1>9

\* The ring buffer implements the bounded log: whatever is pushed and however
\* often the window changes hands, a walk over win_at(0) .. win_at(count - 1)
\* sees the last WIN_MAX_EVENTS events of this owner, newest first (engine.c).
THEOREM RingRefines == Spec => ImplementsBoundedLog
<1>1. count = 0 => Contents = << >>
  BY DEF Contents
<1>2. Init => Window!Init
  BY <1>1 DEF Init, Window!Init
<1>3. Reset => Window!Clear
  <2>1. count' = 0 => Contents' = << >>
    BY DEF Contents
  <2> QED
    BY <2>1 DEF Reset, Window!Clear
<1>4. TypeOK /\ [Next]_ringVars => [Window!Next]_Contents
  <2> SUFFICES ASSUME TypeOK, [Next]_ringVars PROVE [Window!Next]_Contents
    OBVIOUS
  <2>1. CASE Reset
    BY <1>3, <2>1 DEF Window!Next
  <2>2. ASSUME NEW e \in Event, WinPush(e) PROVE Window!Next
    BY <2>2, PushContents DEF Window!Next, Window!Push, Window!Pushed, Pushed
  <2>3. CASE UNCHANGED ringVars
    BY <2>3 DEF ringVars, Contents, WinAt, WinPos
  <2> QED
    BY <2>1, <2>2, <2>3 DEF Next
<1> QED
  BY <1>2, <1>4, RingCorrect, PTL DEF Spec, ImplementsBoundedLog, Window!Spec

-----------------------------------------------------------------------------
(* The smallest and the largest of a set of numbers. *)

\* A non-empty set of naturals has a least member, and Smallest is it.
LEMMA SmallestIs ==
  ASSUME NEW S \in SUBSET Nat, S # {}
  PROVE  Smallest(S) \in S /\ \A y \in S : Smallest(S) <= y
<1> DEFINE R == OpToRel(<, Nat)
<1>1. IsWellFoundedOn(R, Nat)
  BY NatLessThanWellFounded
<1>2. \A x, y \in Nat : y < x => <<y, x>> \in R
  BY DEF OpToRel
<1> HIDE DEF R
<1>3. PICK x \in S : \A y \in S : ~ (<<y, x>> \in R)
  BY <1>1, WFMin
<1>4. \A y \in S : y \in Nat /\ x \in Nat
  OBVIOUS
<1>5. \A y \in S : ~ (y < x)
  BY <1>2, <1>3, <1>4
<1>6. \A y \in S : x <= y
  BY <1>4, <1>5, SMT
<1> QED
  BY <1>6 DEF Smallest

\* A non-empty set of naturals below n has a greatest member.
LEMMA LargestIs ==
  ASSUME NEW n \in Nat, NEW S \in SUBSET (0 .. n), S # {}
  PROVE  Largest(S) \in S /\ \A y \in S : y <= Largest(S)
<1> DEFINE D == {n - x : x \in S}
<1>0. \A x \in S : x \in Nat /\ n - x \in Nat
  OBVIOUS
<1>1. D \in SUBSET Nat /\ D # {}
  BY <1>0
<1>2. Smallest(D) \in D /\ \A y \in D : Smallest(D) <= y
  BY <1>1, SmallestIs
<1>3. PICK x \in S : Smallest(D) = n - x
  BY <1>2
<1>4. \A y \in S : n - x <= n - y
  BY <1>2, <1>3
<1>5. \A y \in S : y <= x
  BY <1>4
<1> QED
  BY <1>5 DEF Largest

-----------------------------------------------------------------------------
(* A log and its newest part. *)

\* g is what is left of h when only its n newest events are kept.
Keeps(g, h, n) ==
  /\ h \in Seq(Event)
  /\ n \in 0 .. Len(h)
  /\ DOMAIN g = 1 .. n
  /\ \A i \in 1 .. n : g[i] = h[i]

\* The stamps of a log are numbers below U64.
LEMMA StampIs ==
  ASSUME NEW g, NEW h, NEW n, Keeps(g, h, n), NEW i \in DOMAIN g
  PROVE  g[i].ts \in 0 .. U64 - 1
<1>1. i \in 1 .. Len(h) /\ g[i] = h[i]
  BY DEF Keeps
<1>2. h[i] \in Event
  BY <1>1 DEF Keeps
<1> QED
  BY <1>1, <1>2, EvalAssumption

\* A log keeps itself.
LEMMA KeepsAll ==
  ASSUME NEW h \in Seq(Event)
  PROVE  Keeps(h, h, Len(h))
BY DEF Keeps

\* eval_when looks at every kept event as it would in the whole log.
LEMMA MatchesKept ==
  ASSUME NEW g, NEW h, NEW n, Keeps(g, h, n), NEW c, NEW ref
  PROVE  Matches(g, c, ref) = Matches(h, c, ref) \cap (1 .. n)
<1>1. DOMAIN g = 1 .. n /\ DOMAIN h = 1 .. Len(h) /\ n \in 0 .. Len(h)
  BY DEF Keeps
<1>2. \A i \in 1 .. n : i \in 1 .. Len(h) /\ g[i] = h[i]
  BY <1>1 DEF Keeps
<1> QED
  BY <1>1, <1>2 DEF Matches

\* ... and the places it counts are finitely many.
LEMMA MatchesFinite ==
  ASSUME NEW g, NEW h, NEW n, Keeps(g, h, n), NEW c, NEW ref
  PROVE  /\ Matches(g, c, ref) \in SUBSET (1 .. n)
         /\ n \in Nat
         /\ IsFiniteSet(Matches(g, c, ref))
<1>1. n \in Nat /\ Matches(g, c, ref) \in SUBSET (1 .. n)
  BY DEF Keeps, Matches
<1>2. IsFiniteSet(1 .. n)
  BY <1>1, FS_Interval
<1> QED
  BY <1>1, <1>2, FS_Subset

\* Whether an event starts a cluster depends on newer events only.
LEMMA ClustersKept ==
  ASSUME NEW g, NEW h, NEW n, Keeps(g, h, n), NEW c, NEW ref, NEW k
  PROVE  Clusters(g, Matches(g, c, ref), k) =
           Clusters(h, Matches(h, c, ref), k) \cap (1 .. n)
<1> DEFINE mg == Matches(g, c, ref)
           mh == Matches(h, c, ref)
<1>1. mg = mh \cap (1 .. n)
  BY MatchesKept
<1>2. mh \in SUBSET (1 .. Len(h)) /\ Len(h) \in Nat /\ n \in 0 .. Len(h)
  BY DEF Keeps, Matches
<1>9. \A j \in mg : j \in mh /\ j \in 1 .. n /\ j \in Nat
  BY <1>1, <1>2
<1>10. \A j \in mh : j \in Nat
  BY <1>2
<1> HIDE DEF mg, mh
<1>3. ASSUME NEW i \in mg
      PROVE  Taken(g, mg, i, k) <=> Taken(h, mh, i, k)
  <2> DEFINE met == {j \in mh : j < i}
  <2>2. i \in 1 .. n /\ n \in Nat
    BY <1>2, <1>9
  <2>5. \A j \in mh : j < i => j \in 1 .. n
    BY <1>2, <1>10, <2>2, Z3
  <2>1. {j \in mg : j < i} = met
    BY <1>1, <2>5
  <2>6. \A j \in met : j \in 0 .. n
    BY <1>10, <2>5
  <2> HIDE DEF met
  <2>3. CASE met = {}
    BY <2>1, <2>3 DEF Taken, met
  <2>4. CASE met # {}
    <3>1. Largest(met) \in met
      <4>1. met \in SUBSET (0 .. n)
        BY <2>6
      <4> QED
        BY <2>2, <2>4, <4>1, LargestIs
    <3>2. Largest(met) \in 1 .. n
      BY <1>9, <2>1, <3>1
    <3>3. g[Largest(met)] = h[Largest(met)] /\ g[i] = h[i]
      BY <2>2, <3>2 DEF Keeps
    <3>4. Taken(g, mg, i, k) <=> Minus64(g[Largest(met)].ts, g[i].ts) > k
      BY <2>1, <2>4 DEF Taken
    <3>5. Taken(h, mh, i, k) <=> Minus64(h[Largest(met)].ts, h[i].ts) > k
      BY <2>4 DEF Taken, met
    <3> QED
      BY <3>3, <3>4, <3>5
  <2> QED
    BY <2>3, <2>4
<1>4. Clusters(g, mg, k) = Clusters(h, mh, k) \cap (1 .. n)
  BY <1>1, <1>3 DEF Clusters
<1> QED
  BY <1>4 DEF mg, mh

-----------------------------------------------------------------------------
(* Forgetting old events never raises the value of a condition. *)

\* The count of a condition is a number; it is 0 when nothing matches.
LEMMA CountIs ==
  ASSUME NEW g, NEW h, NEW n, Keeps(g, h, n), NEW c \in Conds, NEW ref
  PROVE  LET m == Matches(g, c, ref)
         IN  /\ MatchCount(g, m, c) \in Nat
             /\ m = {} => MatchCount(g, m, c) = 0
<1> DEFINE m == Matches(g, c, ref)
           k == IF c.cluster > 0 THEN Clusters(g, m, c.cluster) ELSE m
<1>1. IsFiniteSet(m)
  BY MatchesFinite
<1>2. k \in SUBSET m
  BY DEF Clusters
<1> HIDE DEF m, k
<1>3. IsFiniteSet(k) /\ (m = {} => k = {})
  BY <1>1, <1>2, FS_Subset
<1>4. Cardinality(k) \in Nat /\ (m = {} => Cardinality(k) = 0)
  BY <1>3, FS_CardinalityType, FS_EmptySet
<1> QED
  BY <1>4 DEF MatchCount, k, m

\* A log that keeps only the newest events counts no more matches.
LEMMA CountKept ==
  ASSUME NEW g, NEW h, NEW n, Keeps(g, h, n), NEW c \in Conds, NEW ref
  PROVE  MatchCount(g, Matches(g, c, ref), c) <= MatchCount(h, Matches(h, c, ref), c)
<1> DEFINE mg == Matches(g, c, ref)
           mh == Matches(h, c, ref)
           kg == IF c.cluster > 0 THEN Clusters(g, mg, c.cluster) ELSE mg
           kh == IF c.cluster > 0 THEN Clusters(h, mh, c.cluster) ELSE mh
<1>1. h \in Seq(Event) /\ Keeps(h, h, Len(h))
  BY KeepsAll DEF Keeps
<1>2. IsFiniteSet(mh)
  BY <1>1, MatchesFinite
<1>3. kh \in SUBSET mh
  BY DEF Clusters
<1>4. mg = mh \cap (1 .. n)
  BY MatchesKept
<1>5. Clusters(g, mg, c.cluster) = Clusters(h, mh, c.cluster) \cap (1 .. n)
  BY ClustersKept
<1> HIDE DEF mg, mh
<1>6. kg \in SUBSET kh
  BY <1>4, <1>5
<1> HIDE DEF kg, kh
<1>7. IsFiniteSet(kh)
  BY <1>2, <1>3, FS_Subset
<1>8. Cardinality(kg) <= Cardinality(kh)
  BY <1>6, <1>7, FS_Subset
<1> QED
  BY <1>8 DEF MatchCount, kg, kh, mg, mh

\* newest - oldest over the kept events is at most that over all of them.
LEMMA SpanKept ==
  ASSUME NEW g, NEW h, NEW n, Keeps(g, h, n), NEW c, NEW ref,
         Matches(g, c, ref) # {}
  PROVE  /\ Span(g, Matches(g, c, ref)) \in Int
         /\ Span(h, Matches(h, c, ref)) \in Int
         /\ Span(g, Matches(g, c, ref)) <= Span(h, Matches(h, c, ref))
<1> DEFINE mg == Matches(g, c, ref)
           mh == Matches(h, c, ref)
           tg == {g[i].ts : i \in mg}
           th == {h[i].ts : i \in mh}
<1>1. h \in Seq(Event) /\ Keeps(h, h, Len(h))
  BY KeepsAll DEF Keeps
<1>2. mg = mh \cap (1 .. n)
  BY MatchesKept
<1>3. mh \in SUBSET DOMAIN h
  BY DEF Matches
<1> HIDE DEF mg, mh
<1>4. \A i \in mg : g[i] = h[i]
  BY <1>2 DEF Keeps
<1>5. tg \in SUBSET th
  BY <1>2, <1>4
<1>6. th \in SUBSET (0 .. U64 - 1)
  BY <1>1, <1>3, StampIs
<1>7. tg # {} /\ U64 - 1 \in Nat
  BY WordAssumption DEF mg
<1> HIDE DEF tg, th
<1>8. /\ Largest(tg) \in tg /\ \A y \in tg : y <= Largest(tg)
      /\ Largest(th) \in th /\ \A y \in th : y <= Largest(th)
  BY <1>5, <1>6, <1>7, LargestIs
<1>9. /\ Smallest(tg) \in tg /\ \A y \in tg : Smallest(tg) <= y
      /\ Smallest(th) \in th /\ \A y \in th : Smallest(th) <= y
  <2>0. 0 .. U64 - 1 \in SUBSET Nat
    BY <1>7
  <2>1. tg \in SUBSET Nat /\ th \in SUBSET Nat /\ th # {}
    BY <1>5, <1>6, <1>7, <2>0
  <2> QED
    BY <1>7, <2>1, SmallestIs
<1>10. /\ Largest(tg) \in 0 .. U64 - 1 /\ Largest(th) \in 0 .. U64 - 1
       /\ Smallest(tg) \in 0 .. U64 - 1 /\ Smallest(th) \in 0 .. U64 - 1
       /\ Largest(tg) <= Largest(th) /\ Smallest(th) <= Smallest(tg)
  BY <1>5, <1>6, <1>8, <1>9
<1>11. /\ Span(g, mg) = Largest(tg) - Smallest(tg)
       /\ Span(h, mh) = Largest(th) - Smallest(th)
  BY DEF Span, tg, th
<1>12. /\ Span(g, mg) \in Int /\ Span(h, mh) \in Int
       /\ Span(g, mg) <= Span(h, mh)
  BY <1>7, <1>10, <1>11
<1> QED
  BY <1>12 DEF mg, mh

\* A condition evaluated over the newest part of a log is worth at most what
\* it is worth over the whole log (eval_when).
LEMMA EvalKept ==
  ASSUME NEW g, NEW h, NEW n, Keeps(g, h, n), NEW c \in Conds, NEW ref
  PROVE  EvalWhen(g, c, ref) <= EvalWhen(h, c, ref)
<1> DEFINE mg == Matches(g, c, ref)
           mh == Matches(h, c, ref)
           ng == MatchCount(g, mg, c)
           nh == MatchCount(h, mh, c)
<1>1. h \in Seq(Event) /\ Keeps(h, h, Len(h))
  BY KeepsAll DEF Keeps
<1>2. ng \in Nat /\ nh \in Nat /\ ng <= nh /\ (mg = {} => ng = 0)
  BY <1>1, CountIs, CountKept
<1>3. mg # {} => /\ Span(g, mg) \in Int /\ Span(h, mh) \in Int
                 /\ Span(g, mg) <= Span(h, mh)
  BY SpanKept
<1>4. c.span \in SUBSET Nat
  BY EvalAssumption
<1>5. /\ EvalWhen(g, c, ref) =
           IF \E s \in c.span : ng < 2 \/ Span(g, mg) < s THEN 0 ELSE ng
      /\ EvalWhen(h, c, ref) =
           IF \E s \in c.span : nh < 2 \/ Span(h, mh) < s THEN 0 ELSE nh
  BY DEF EvalWhen
<1> HIDE DEF mg, mh, ng, nh
<1>6. CASE \E s \in c.span : ng < 2 \/ Span(g, mg) < s
  BY <1>2, <1>5, <1>6
<1>7. CASE ~ \E s \in c.span : ng < 2 \/ Span(g, mg) < s
  <2>1. ~ \E s \in c.span : nh < 2 \/ Span(h, mh) < s
    <3> SUFFICES ASSUME NEW s \in c.span PROVE ~(nh < 2) /\ ~(Span(h, mh) < s)
      OBVIOUS
    <3>1. ~(ng < 2) /\ ~(Span(g, mg) < s) /\ s \in Nat
      BY <1>4, <1>7
    <3>2. mg # {}
      BY <1>2, <3>1
    <3> QED
      BY <1>2, <1>3, <3>1, <3>2
  <2> QED
    BY <1>2, <1>5, <1>7, <2>1
<1> QED
  BY <1>6, <1>7
-----------------------------------------------------------------------------
(* The ring beside the history. *)

\* How much of the history the ring still holds.
Kept == IF Len(hist) < WIN_MAX_EVENTS THEN Len(hist) ELSE WIN_MAX_EVENTS

\* The window holds the newest events of the history, newest first.
HoldsNewest ==
  /\ hist \in Seq(Event)
  /\ count = Kept
  /\ \A i \in 1 .. Kept : Contents[i] = hist[i]

\* Without skew the history is in the order of its stamps.
InOrder ==
  MaxSkew = 0 =>
    \A i, j \in DOMAIN hist : i <= j => hist[j].ts <= hist[i].ts

EvalInv == TypeOK /\ HoldsNewest /\ InOrder

\* What the ring holds is the newest part of the whole history.
LEMMA ContentsKeeps ==
  ASSUME EvalInv
  PROVE  Keeps(Contents, hist, Kept)
<1>1. hist \in Seq(Event) /\ Len(hist) \in Nat /\ WIN_MAX_EVENTS \in Nat
  BY RingAssumption DEF EvalInv, HoldsNewest
<1>2. Kept \in 0 .. Len(hist)
  BY <1>1 DEF Kept
<1>3. DOMAIN Contents = 1 .. Kept
  BY DEF EvalInv, HoldsNewest, Contents
<1> QED
  BY <1>1, <1>2, <1>3 DEF EvalInv, HoldsNewest, Keeps

\* The ring still holds the newest of the history after a push.
LEMMA RecordHoldsNewest ==
  ASSUME TypeOK, HoldsNewest, NEW e \in Event, Record(e)
  PROVE  HoldsNewest'
<1> DEFINE n == WIN_MAX_EVENTS
<1>1. hist \in Seq(Event) /\ Len(hist) \in Nat /\ n \in Nat \ {0}
  BY RingAssumption DEF HoldsNewest
<1>2. /\ hist' = <<e>> \o hist
      /\ Contents' = Pushed(Contents, e)
      /\ count' = IF count < n THEN count + 1 ELSE count
  BY PushContents DEF Record, WinPush
<1>3. /\ hist' \in Seq(Event) /\ Len(hist') = Len(hist) + 1
      /\ hist'[1] = e
      /\ \A i \in 2 .. Len(hist) + 1 : hist'[i] = hist[i - 1]
  BY <1>1, <1>2
<1>4. /\ Kept \in Nat /\ Kept' \in 1 .. n /\ Kept' \in 1 .. Len(hist) + 1
      /\ Kept' = IF Kept < n THEN Kept + 1 ELSE Kept
      /\ Kept' - 1 <= Kept
  BY <1>1, <1>3 DEF Kept
<1>5. count = Kept /\ \A i \in 1 .. Kept : Contents[i] = hist[i]
  BY DEF HoldsNewest
<1>6. Len(Contents) = Kept
  BY <1>4, <1>5 DEF Contents
<1>7. Contents' = [i \in 1 .. Kept' |-> IF i = 1 THEN e ELSE Contents[i - 1]]
  BY <1>2, <1>4, <1>6 DEF Pushed
<1>8. ASSUME NEW i \in 1 .. Kept'
      PROVE  Contents'[i] = hist'[i]
  <2>1. CASE i = 1
    BY <1>3, <1>7, <2>1
  <2>2. CASE i # 1
    <3>1. i - 1 \in 1 .. Kept /\ i \in 2 .. Len(hist) + 1
      BY <1>1, <1>4, <2>2
    <3>2. Contents[i - 1] = hist[i - 1]
      BY <1>5, <3>1
    <3> QED
      BY <1>3, <1>7, <2>2, <3>1, <3>2
  <2> QED
    BY <2>1, <2>2
<1>9. count' = Kept'
  BY <1>2, <1>4, <1>5
<1> QED
  BY <1>3, <1>8, <1>9 DEF HoldsNewest

\* Without skew the history stays in the order of its time stamps.
LEMMA RecordInOrder ==
  ASSUME HoldsNewest, InOrder, NEW e \in Event, Record(e)
  PROVE  InOrder'
<1> SUFFICES ASSUME MaxSkew = 0,
                    NEW i \in DOMAIN hist', NEW j \in DOMAIN hist', i <= j
             PROVE  hist'[j].ts <= hist'[i].ts
  BY DEF InOrder
<1>1. hist \in Seq(Event) /\ Len(hist) \in Nat /\ DOMAIN hist = 1 .. Len(hist)
  BY DEF HoldsNewest
<1>2. hist' = <<e>> \o hist /\ (hist # << >> => e.ts >= Largest(Stamps(hist)) - 0)
  BY DEF Record, Arrives
<1>3. /\ DOMAIN hist' = 1 .. Len(hist) + 1
      /\ hist'[1] = e
      /\ \A k \in 2 .. Len(hist) + 1 : k - 1 \in DOMAIN hist /\ hist'[k] = hist[k - 1]
  BY <1>1, <1>2
<1>4. Stamps(hist) \in SUBSET (0 .. U64 - 1) /\ e.ts \in 0 .. U64 - 1
  <2>1. Keeps(hist, hist, Len(hist))
    BY <1>1, KeepsAll
  <2> QED
    BY <2>1, StampIs, EvalAssumption DEF Stamps
<1>5. \A k \in DOMAIN hist : hist[k].ts <= e.ts
  <2> SUFFICES ASSUME NEW k \in DOMAIN hist PROVE hist[k].ts <= e.ts
    OBVIOUS
  <2> DEFINE S == Stamps(hist)
  <2>1. hist[k].ts \in S /\ hist # << >>
    BY <1>1 DEF Stamps
  <2>2. e.ts >= Largest(S) - 0
    BY <1>2, <2>1
  <2>3. S \in SUBSET (0 .. U64 - 1) /\ U64 - 1 \in Nat
    BY <1>4, WordAssumption
  <2> HIDE DEF S
  <2>4. Largest(S) \in S /\ hist[k].ts <= Largest(S)
    BY <2>1, <2>3, LargestIs
  <2>5. Largest(S) \in Int /\ hist[k].ts \in Int /\ e.ts \in Int
    <3>1. \A x \in 0 .. U64 - 1 : x \in Int
      BY <2>3
    <3> QED
      BY <1>4, <2>1, <2>3, <2>4, <3>1
  <2> QED
    BY <2>2, <2>4, <2>5
<1>6. CASE j = 1
  <2>1. i = 1 /\ e.ts \in Int
    BY <1>3, <1>4, <1>6
  <2> QED
    BY <1>3, <1>6, <2>1
<1>7. CASE j # 1
  <2>1. j \in 2 .. Len(hist) + 1
    BY <1>1, <1>3, <1>7
  <2>2. j - 1 \in DOMAIN hist /\ hist'[j] = hist[j - 1]
    BY <1>3, <2>1
  <2>3. CASE i = 1
    BY <1>3, <1>5, <2>2, <2>3
  <2>4. CASE i # 1
    <3>1. i \in 2 .. Len(hist) + 1 /\ i - 1 <= j - 1
      BY <1>1, <1>3, <2>1, <2>4
    <3>2. i - 1 \in DOMAIN hist /\ hist'[i] = hist[i - 1]
      BY <1>3, <3>1
    <3> QED
      BY <2>2, <3>1, <3>2 DEF InOrder
  <2> QED
    BY <2>3, <2>4
<1> QED
  BY <1>6, <1>7

\* The inductive invariant of the rule evaluation over a window.
LEMMA EvalInvariant == EvalSpec => []EvalInv
<1>1. EvalInit => EvalInv
  <2> SUFFICES ASSUME EvalInit PROVE EvalInv
    OBVIOUS
  <2>1. TypeOK
    BY RingAssumption DEF EvalInit, Init, TypeOK, Slot
  <2>2. hist = << >> /\ count = 0 /\ Len(hist) = 0 /\ DOMAIN hist = 1 .. 0
    BY DEF EvalInit, Init
  <2>3. Kept = 0
    BY <2>2, RingAssumption DEF Kept
  <2> QED
    BY <2>1, <2>2, <2>3 DEF EvalInv, HoldsNewest, InOrder
<1>2. EvalInv /\ [EvalNext]_vars => EvalInv'
  <2> SUFFICES ASSUME EvalInv, [EvalNext]_vars PROVE EvalInv'
    OBVIOUS
  <2>1. ASSUME NEW e \in Event, Record(e) PROVE EvalInv'
    <3>1. TypeOK'
      BY <2>1, PushType DEF EvalInv, Record
    <3>2. HoldsNewest' /\ InOrder'
      BY <2>1, RecordHoldsNewest, RecordInOrder DEF EvalInv
    <3> QED
      BY <3>1, <3>2 DEF EvalInv
  <2>2. CASE Recycle
    <3>1. TypeOK'
      BY <2>2, RingAssumption DEF Recycle, Reset, TypeOK, Slot
    <3>2. hist' = << >> /\ count' = 0 /\ Len(hist') = 0 /\ DOMAIN hist' = 1 .. 0
      BY <2>2 DEF Recycle, Reset
    <3>3. Kept' = 0
      BY <3>2, RingAssumption DEF Kept
    <3>4. HoldsNewest' /\ InOrder'
      BY <3>2, <3>3 DEF HoldsNewest, InOrder
    <3> QED
      BY <3>1, <3>4 DEF EvalInv
  <2>3. CASE UNCHANGED vars
    BY <2>3 DEF vars, EvalInv, TypeOK, HoldsNewest, InOrder, Kept, Contents, WinAt, WinPos
  <2> QED
    BY <2>1, <2>2, <2>3 DEF EvalNext
<1> QED
  BY <1>1, <1>2, PTL DEF EvalSpec

\* When a flood truncates the lookback, evidence is lost but never invented:
\* eval_when over the ring never exceeds eval_when over the whole history, for
\* any ring, any condition and events in any order.
THEOREM RingNeverInvents == EvalSpec => []FloodNeverInvents
<1>1. EvalInv => FloodNeverInvents
  <2> SUFFICES ASSUME EvalInv, NEW c \in Conds
               PROVE  EvalWhen(Contents, c, Ref) <= EvalWhen(hist, c, Ref)
    BY DEF FloodNeverInvents
  <2> QED
    BY ContentsKeeps, EvalKept
<1> QED
  BY <1>1, EvalInvariant, PTL

-----------------------------------------------------------------------------
(* A lookback the ring can hold is not truncated. *)

\* In order of arrival, the events within_ms of the trigger are the newest.
LEMMA ReachIsPrefix ==
  ASSUME EvalInv, MaxSkew = 0, hist # << >>, NEW c \in Conds,
         InReach(c) <= WIN_MAX_EVENTS
  PROVE  Matches(hist, c, Ref) \in SUBSET (1 .. Kept)
<1> SUFFICES ASSUME NEW i \in Matches(hist, c, Ref) PROVE i \in 1 .. Kept
  OBVIOUS
<1> DEFINE R == {j \in DOMAIN hist : \A w \in c.within : Ref - hist[j].ts <= w}
<1>1. hist \in Seq(Event) /\ Len(hist) \in Nat /\ DOMAIN hist = 1 .. Len(hist)
  BY DEF EvalInv, HoldsNewest
<1>2. 1 \in DOMAIN hist
  BY <1>1
<1>3. \A j \in DOMAIN hist : hist[j].ts \in Nat
  <2>1. Keeps(hist, hist, Len(hist))
    BY <1>1, KeepsAll
  <2> QED
    BY <2>1, StampIs
<1>4. i \in DOMAIN hist /\ \A w \in c.within : Ref - hist[i].ts <= w
  BY DEF Matches, Considered
<1>5. 1 .. i \in SUBSET R
  <2> SUFFICES ASSUME NEW j \in 1 .. i PROVE j \in R
    OBVIOUS
  <2>1. j \in DOMAIN hist /\ j <= i
    BY <1>1, <1>4
  <2>2. hist[i].ts <= hist[j].ts
    BY <1>4, <2>1 DEF EvalInv, InOrder
  <2>3. Ref \in Nat /\ hist[i].ts \in Nat /\ hist[j].ts \in Nat
    BY <1>2, <1>3, <1>4, <2>1 DEF Ref
  <2>4. \A w \in c.within : w \in Nat
    BY EvalAssumption
  <2> QED
    BY <1>4, <2>1, <2>2, <2>3, <2>4
<1>6. IsFiniteSet(DOMAIN hist)
  BY <1>1, FS_Interval
<1> HIDE DEF R
<1>7. IsFiniteSet(R)
  BY <1>6, FS_Subset DEF R
<1>8. Cardinality(1 .. i) <= Cardinality(R)
  BY <1>5, <1>7, FS_Subset
<1>9. i \in Nat \ {0} /\ Cardinality(1 .. i) = i
  <2>1. i \in Nat \ {0}
    BY <1>1, <1>4
  <2> QED
    BY <2>1, FS_Interval
<1>10. InReach(c) = Cardinality(R)
  BY DEF InReach, R
<1>11. Cardinality(R) \in Nat
  BY <1>7, FS_CardinalityType
<1>12. i <= WIN_MAX_EVENTS /\ i <= Len(hist)
  BY <1>1, <1>4, <1>8, <1>9, <1>10, <1>11, RingAssumption
<1> QED
  BY <1>1, <1>9, <1>12, RingAssumption DEF Kept

\* If everything it counts was kept, a condition is worth what it was.
LEMMA EvalSame ==
  ASSUME NEW g, NEW h, NEW n, Keeps(g, h, n), NEW c \in Conds, NEW ref,
         Matches(h, c, ref) \in SUBSET (1 .. n)
  PROVE  EvalWhen(g, c, ref) = EvalWhen(h, c, ref)
<1> DEFINE m == Matches(h, c, ref)
<1>1. Matches(g, c, ref) = m
  BY MatchesKept
<1>2. \A k : Clusters(g, m, k) = Clusters(h, m, k)
  <2> SUFFICES ASSUME NEW k PROVE Clusters(g, m, k) = Clusters(h, m, k)
    OBVIOUS
  <2>1. Clusters(g, m, k) = Clusters(h, m, k) \cap (1 .. n)
    BY <1>1, ClustersKept
  <2>2. Clusters(h, m, k) \in SUBSET (1 .. n)
    BY DEF Clusters
  <2> QED
    BY <2>1, <2>2
<1>3. \A i \in m : g[i] = h[i]
  BY DEF Keeps
<1> HIDE DEF m
<1>4. MatchCount(g, m, c) = MatchCount(h, m, c)
  BY <1>2 DEF MatchCount
<1>5. {g[i].ts : i \in m} = {h[i].ts : i \in m}
  BY <1>3
<1>6. Span(g, m) = Span(h, m)
  BY <1>5 DEF Span
<1>7. EvalWhen(g, c, ref) =
        IF \E s \in c.span : MatchCount(g, m, c) < 2 \/ Span(g, m) < s
        THEN 0 ELSE MatchCount(g, m, c)
  BY <1>1 DEF EvalWhen
<1>8. EvalWhen(h, c, ref) =
        IF \E s \in c.span : MatchCount(h, m, c) < 2 \/ Span(h, m) < s
        THEN 0 ELSE MatchCount(h, m, c)
  BY DEF EvalWhen, m
<1> QED
  BY <1>4, <1>6, <1>7, <1>8

\* WIN_MAX_EVENTS keeps its promise when events arrive in order: a ring that
\* holds within_ms of events evaluates a condition as the history would.
THEOREM RingIsEnough ==
  ASSUME MaxSkew = 0
  PROVE  EvalSpec => []LookbackNotTruncated
<1>1. EvalInv => LookbackNotTruncated
  <2> SUFFICES ASSUME EvalInv, hist # << >>, NEW c \in Conds,
                      InReach(c) <= WIN_MAX_EVENTS
               PROVE  EvalWhen(Contents, c, Ref) = EvalWhen(hist, c, Ref)
    BY DEF LookbackNotTruncated
  <2>1. Keeps(Contents, hist, Kept)
    BY ContentsKeeps
  <2>2. Matches(hist, c, Ref) \in SUBSET (1 .. Kept)
    BY ReachIsPrefix
  <2> QED
    BY <2>1, <2>2, EvalSame
<1> QED
  BY <1>1, EvalInvariant, PTL
-----------------------------------------------------------------------------
(* Bursts. *)

\* In order of arrival, a matching event starts a cluster exactly when it is
\* the newest of the events that end a burst at its time.
LEMMA TakenIs ==
  ASSUME EvalInv, MaxSkew = 0, hist # << >>, NEW c \in Conds, c.cluster > 0
  PROVE  LET m == Matches(Contents, c, Ref)
         IN  /\ IsFiniteSet(m)
             /\ m \in SUBSET Nat
             /\ \A i \in m : Contents[i].ts \in Nat
             /\ \A i \in m :
                  Taken(Contents, m, i, c.cluster) <=>
                    \A j \in m : j < i => Contents[j].ts - Contents[i].ts > c.cluster
             /\ \A i, j \in m : i <= j => Contents[j].ts <= Contents[i].ts
<1> DEFINE m == Matches(Contents, c, Ref)
           k == c.cluster
<1>1. Keeps(Contents, hist, Kept)
  BY ContentsKeeps
<1>2. IsFiniteSet(m) /\ m \in SUBSET (1 .. Kept) /\ Kept \in Nat /\ k \in Nat
  BY <1>1, MatchesFinite, EvalAssumption
<1>3. DOMAIN Contents = 1 .. Kept /\ Kept \in 0 .. Len(hist) /\ hist \in Seq(Event)
  BY <1>1 DEF Keeps
<1> HIDE DEF m
<1>4. \A i \in m : Contents[i].ts \in 0 .. U64 - 1
  BY <1>1, <1>2, <1>3, StampIs
<1>5. \A i, j \in m : i <= j => Contents[j].ts <= Contents[i].ts
  <2> SUFFICES ASSUME NEW i \in m, NEW j \in m, i <= j
               PROVE  Contents[j].ts <= Contents[i].ts
    OBVIOUS
  <2>1. i \in DOMAIN hist /\ j \in DOMAIN hist
    BY <1>2, <1>3
  <2>2. hist[j].ts <= hist[i].ts
    BY <2>1 DEF EvalInv, InOrder
  <2>3. Contents[i] = hist[i] /\ Contents[j] = hist[j]
    BY <1>1, <1>2 DEF Keeps
  <2> QED
    BY <2>2, <2>3
<1>6. ASSUME NEW i \in m
      PROVE  Taken(Contents, m, i, k) <=>
               \A j \in m : j < i => Contents[j].ts - Contents[i].ts > k
  <2> DEFINE met == {j \in m : j < i}
  <2>0. \A j \in m : j \in 0 .. Kept
    BY <1>2
  <2>1. met \in SUBSET (0 .. Kept) /\ met \in SUBSET m /\ \A j \in met : j < i
    BY <2>0
  <2>2. \A j \in m : j < i => j \in met
    OBVIOUS
  <2>3. Taken(Contents, m, i, k) <=>
          \/ met = {}
          \/ Minus64(Contents[Largest(met)].ts, Contents[i].ts) > k
    BY DEF Taken
  <2> HIDE DEF met
  <2>4. CASE met = {}
    BY <2>2, <2>3, <2>4
  <2>5. CASE met # {}
    <3> DEFINE p == Largest(met)
    <3>1. p \in met /\ \A j \in met : j <= p
      BY <1>2, <2>1, <2>5, LargestIs
    <3> HIDE DEF p
    <3>2. /\ p \in m /\ p < i
          /\ Contents[i].ts <= Contents[p].ts
          /\ Contents[p].ts \in 0 .. U64 - 1 /\ Contents[i].ts \in 0 .. U64 - 1
      BY <1>2, <1>4, <1>5, <2>1, <3>1
    <3>3. Minus64(Contents[p].ts, Contents[i].ts) = Contents[p].ts - Contents[i].ts
      <4> DEFINE d == Contents[p].ts - Contents[i].ts
      <4>1. d \in 0 .. U64 - 1 /\ U64 \in Nat \ {0}
        BY <3>2, WordAssumption
      <4> HIDE DEF d
      <4>2. (d + 0 * U64) % U64 = d
        BY <4>1, ModWithin
      <4>3. d + 0 * U64 = d
        BY <4>1
      <4> QED
        BY <4>2, <4>3 DEF Minus64, d
    <3>4. Taken(Contents, m, i, k) <=> Contents[p].ts - Contents[i].ts > k
      BY <2>3, <2>5, <3>3 DEF p
    <3>5. \A j \in m : j < i => Contents[p].ts <= Contents[j].ts
      BY <1>5, <2>2, <3>1, <3>2
    <3>6. \A j \in m : Contents[j].ts \in Int
      BY <1>4
    <3> QED
      BY <1>2, <3>2, <3>4, <3>5, <3>6
  <2> QED
    BY <2>4, <2>5
<1>7. m \in SUBSET Nat /\ \A i \in m : Contents[i].ts \in Nat
  BY <1>2, <1>4
<1> QED
  BY <1>2, <1>5, <1>6, <1>7 DEF m

\* The places eval_when counts and the times that end a burst are equally many.
LEMMA ClustersAreBursts ==
  ASSUME EvalInv, MaxSkew = 0, hist # << >>, NEW c \in Conds, c.cluster > 0
  PROVE  Cardinality(Clusters(Contents, Matches(Contents, c, Ref), c.cluster)) =
           Cardinality(BurstEnds(c))
<1> DEFINE m == Matches(Contents, c, Ref)
           k == c.cluster
           T == Clusters(Contents, m, k)
           ts(i) == Contents[i].ts
           ends == BurstEnds(c)
           f == [i \in T |-> ts(i)]
<1>1. /\ IsFiniteSet(m)
      /\ m \in SUBSET Nat
      /\ \A i \in m : ts(i) \in Nat
      /\ \A i \in m : Taken(Contents, m, i, k) <=> \A j \in m : j < i => ts(j) - ts(i) > k
      /\ \A i, j \in m : i <= j => ts(j) <= ts(i)
  BY TakenIs
<1>2. k \in Nat \ {0}
  BY EvalAssumption
<1>3. T \in SUBSET m /\ \A i \in m : i \in T <=> Taken(Contents, m, i, k)
  BY DEF Clusters
<1>4. ends = {t \in {ts(i) : i \in m} : \A u \in {ts(i) : i \in m} : u > t => u - t > k}
  BY DEF BurstEnds, MatchingTimes
<1> HIDE DEF m, k, T, ts, ends
<1>5. ASSUME NEW i \in T
      PROVE  ts(i) \in ends
  <2>1. i \in m /\ \A j \in m : j < i => ts(j) - ts(i) > k
    BY <1>1, <1>3
  <2>2. ASSUME NEW j \in m, ts(j) > ts(i)
        PROVE  ts(j) - ts(i) > k
    <3>1. ~(i <= j) /\ i \in Nat /\ j \in Nat
      BY <1>1, <2>1, <2>2
    <3> QED
      BY <2>1, <3>1
  <2> QED
    BY <1>4, <2>1, <2>2
<1>6. ASSUME NEW i \in T, NEW j \in T, ts(i) = ts(j)
      PROVE  i = j
  <2>1. i \in m /\ j \in m /\ i \in Nat /\ j \in Nat
    BY <1>1, <1>3
  <2>2. ts(i) \in Nat /\ ts(j) \in Nat
    BY <1>1, <2>1
  <2>3. ~(i < j)
    BY <1>1, <1>2, <1>3, <1>6, <2>1, <2>2
  <2>4. ~(j < i)
    BY <1>1, <1>2, <1>3, <1>6, <2>1, <2>2
  <2> QED
    BY <2>1, <2>3, <2>4
<1>7. ASSUME NEW t \in ends
      PROVE  \E i \in T : ts(i) = t
  <2> DEFINE at == {i \in m : ts(i) = t}
  <2>1. at \in SUBSET Nat /\ at # {}
    BY <1>1, <1>4
  <2>2. PICK i \in at : \A j \in at : i <= j
    BY <2>1, SmallestIs
  <2>3. i \in m /\ ts(i) = t
    OBVIOUS
  <2>4. ASSUME NEW j \in m, j < i
        PROVE  ts(j) - ts(i) > k
    <3>1. i \in Nat /\ j \in Nat /\ ts(i) \in Nat /\ ts(j) \in Nat
      BY <1>1, <2>3
    <3>2. ts(i) <= ts(j)
      BY <1>1, <2>3, <2>4, <3>1
    <3>3. ts(j) # t
      BY <2>2, <2>4, <3>1
    <3>4. ts(j) > t
      BY <2>3, <3>1, <3>2, <3>3
    <3> QED
      BY <1>4, <2>3, <3>4
  <2>5. i \in T
    BY <1>1, <1>3, <2>3, <2>4
  <2> QED
    BY <2>3, <2>5
<1>8. f \in Bijection(T, ends)
  <2>1. f \in [T -> ends]
    BY <1>5
  <2>2. \A i \in T : f[i] = ts(i)
    OBVIOUS
  <2>3. IsInjective(f)
    BY <1>6, <2>1, <2>2 DEF IsInjective
  <2>4. \A t \in ends : \E i \in T : f[i] = t
    BY <1>7, <2>2
  <2> QED
    BY <2>1, <2>3, <2>4 DEF Bijection, Injection, Surjection
<1>9. IsFiniteSet(T) /\ ExistsBijection(T, ends)
  BY <1>1, <1>3, <1>8, FS_Subset DEF ExistsBijection
<1>10. Cardinality(T) = Cardinality(ends)
  BY <1>9, FS_Bijection
<1> QED
  BY <1>10 DEF T, ends, m, k

\* cluster_ms counts bursts when events arrive in order: what eval_when returns
\* is the number of maximal groups of matching events no further apart than
\* cluster_ms, for any ring and any condition.
THEOREM BurstsCountOnce ==
  ASSUME MaxSkew = 0
  PROVE  EvalSpec => []EveryBurstCountsOnce
<1>1. EvalInv => EveryBurstCountsOnce
  <2> SUFFICES ASSUME EvalInv, hist # << >>, NEW c \in Conds,
                      c.cluster > 0, c.span = {}
               PROVE  EvalWhen(Contents, c, Ref) = Cardinality(BurstEnds(c))
    BY DEF EveryBurstCountsOnce
  <2> DEFINE m == Matches(Contents, c, Ref)
  <2>1. EvalWhen(Contents, c, Ref) = MatchCount(Contents, m, c)
    BY DEF EvalWhen
  <2>2. MatchCount(Contents, m, c) = Cardinality(Clusters(Contents, m, c.cluster))
    BY DEF MatchCount
  <2> QED
    BY <2>1, <2>2, ClustersAreBursts
<1> QED
  BY <1>1, EvalInvariant, PTL
=============================================================================
