------------------------ MODULE SessionParts_proofs -------------------------
(***************************************************************************)
(* What the meter of `usbtrace hid' and the driver side of `usbtrace uvc'  *)
(* promise on their own, before Session composes them: first the report    *)
(* rate, for every set of endpoints, every number of slots, every window   *)
(* and every delay of records; then the drop causes and sequence gaps of   *)
(* the uvc probe, for every number of buffers, every size of               *)
(* drv_drop_cause and sessions of any length.                              *)
(***************************************************************************)
EXTENDS HidRate, UvcDriver, FiniteSetTheorems, SequenceTheorems, TLAPS

(***************************************************************************)
(* The report-rate meter (HidRate).                                        *)
(***************************************************************************)

\* What HidTypeOK says of the slot array.
GoodSlots(ss) ==
  /\ ss \in Seq(Slot) /\ Len(ss) <= RATE_SLOTS
  /\ \A i, j \in DOMAIN ss : ss[i].ep = ss[j].ep => i = j

\* An endpoint without a slot never had a rate line.
NoSlotNoLine == \A e \in Endpoints : SlotOf(e) = {} => printed[e] = 0

Times == Nat \ {0}

HistoriesOK ==
  /\ heard \in [Endpoints -> Seq(Times)] /\ printed \in [Endpoints -> Nat]
  /\ span.length \in Int

HidInv ==
  /\ HidTypeOK /\ HistoriesOK
  /\ NoSlotNoLine
  /\ EveryReportInOneWindow
  /\ NoRateOverAShortSpan

-----------------------------------------------------------------------------
(* One slot. *)

(* An interval leaves the count of a tally as it is. *)
LEMMA NoteIntervalFacts ==
  ASSUME NEW t \in Tally, NEW iv \in Nat
  PROVE  NoteInterval(t, iv) \in Tally /\ NoteInterval(t, iv).count = t.count
<1>. DEFINE lo == IF t.min = 0 \/ iv < t.min THEN iv ELSE t.min
            hi == IF iv > t.max THEN iv ELSE t.max
<1>1. /\ t.count \in Nat /\ t.iv + 1 \in Nat /\ t.sum + iv \in Nat /\ t.gaps + 1 \in Nat
      /\ t.iv \in Nat /\ t.sum \in Nat /\ t.min \in Nat /\ t.max \in Nat /\ t.gaps \in Nat
      /\ lo \in Nat /\ hi \in Nat
  BY DEF Tally
<1>2. t = [count |-> t.count, iv |-> t.iv, sum |-> t.sum, min |-> t.min, max |-> t.max,
           gaps |-> t.gaps]
  BY DEF Tally
<1>3. CASE iv > RATE_GAP
  <2>1. NoteInterval(t, iv) = [t EXCEPT !.gaps = @ + 1]
    BY <1>3 DEF NoteInterval
  <2>. QED BY <1>1, <2>1 DEF Tally
<1>4. CASE ~(iv > RATE_GAP)
  <2>1. NoteInterval(t, iv) = [t EXCEPT !.iv = t.iv + 1, !.sum = t.sum + iv, !.min = lo, !.max = hi]
    BY <1>4, Zenon DEF NoteInterval
  <2>. HIDE DEF lo, hi
  <2>2. NoteInterval(t, iv) = [count |-> t.count, iv |-> t.iv + 1, sum |-> t.sum + iv,
                               min |-> lo, max |-> hi, gaps |-> t.gaps]
    BY <1>2, <2>1
  <2>. QED BY <1>1, <2>2 DEF Tally
<1>. QED BY <1>3, <1>4

(* Counting a report adds one to a tally and keeps its type. *)
LEMMA NotedFacts ==
  ASSUME NEW s \in Slot, NEW t \in Tally, NEW ts \in Nat
  PROVE  Noted(s, t, ts) \in Tally /\ Noted(s, t, ts).count = t.count + 1
<1>1. s.last_ts \in Nat
  BY DEF Slot
<1>2. CASE s.last_ts # 0 /\ ts > s.last_ts
  <2>1. ts - s.last_ts \in Nat
    BY <1>1, <1>2
  <2>2. /\ NoteInterval(t, ts - s.last_ts) \in Tally
        /\ NoteInterval(t, ts - s.last_ts).count = t.count
    BY <2>1, NoteIntervalFacts
  <2>3. Noted(s, t, ts) = [NoteInterval(t, ts - s.last_ts) EXCEPT !.count = @ + 1]
    BY <1>2 DEF Noted
  <2>. QED BY <2>2, <2>3 DEF Tally
<1>3. CASE ~(s.last_ts # 0 /\ ts > s.last_ts)
  <2>1. Noted(s, t, ts) = [t EXCEPT !.count = @ + 1]
    BY <1>3 DEF Noted
  <2>. QED BY <2>1 DEF Tally
<1>. QED BY <1>2, <1>3

(* rate_on_in changes the tallies of a slot, never its endpoint; only a     *)
(* successful transfer is a report.                                        *)
LEMMA RateOnInFacts ==
  ASSUME NEW s \in Slot, NEW ok \in BOOLEAN, NEW ts \in Nat
  PROVE  /\ RateOnIn(s, ok, ts) \in Slot
         /\ RateOnIn(s, ok, ts).ep = s.ep
         /\ RateOnIn(s, ok, ts).win.count = s.win.count + (IF ok THEN 1 ELSE 0)
<1>1. /\ Noted(s, s.win, ts) \in Tally /\ Noted(s, s.total, ts) \in Tally
      /\ Noted(s, s.win, ts).count = s.win.count + 1 /\ s.win.count \in Nat
  <2>1. s.win \in Tally /\ s.total \in Tally
    BY DEF Slot
  <2>. QED BY <2>1, NotedFacts DEF Tally
<1>2. CASE ~ok
  BY <1>1, <1>2 DEF RateOnIn, Slot
<1>3. CASE ok
  BY <1>1, <1>3 DEF RateOnIn, Slot
<1>. QED BY <1>2, <1>3

(* slot_get finds the slot of the endpoint, or appends an empty one. *)
LEMMA SlotGetFacts ==
  ASSUME GoodSlots(slots), RateAssumption, NEW e \in Endpoints,
         SlotOf(e) # {} \/ Len(slots) < RATE_SLOTS
  PROVE  LET ss == SlotGet(e) IN
         /\ GoodSlots(ss) /\ DOMAIN slots \subseteq DOMAIN ss
         /\ \A i \in DOMAIN slots : ss[i] = slots[i]
         /\ \E i \in DOMAIN ss : ss[i].ep = e
         /\ \A i \in DOMAIN ss \ DOMAIN slots : SlotOf(e) = {} /\ ss[i] = NewSlot(e)
<1>1. CASE SlotOf(e) # {}
  <2>1. SlotGet(e) = slots
    BY <1>1 DEF SlotGet
  <2>. QED BY <1>1, <2>1 DEF SlotOf
<1>2. CASE SlotOf(e) = {}
  <2>1. SlotGet(e) = Append(slots, NewSlot(e))
    BY <1>2 DEF SlotGet
  <2>2. NewSlot(e) \in Slot /\ NewSlot(e).ep = e
    BY DEF NewSlot, NoTally, Slot, Tally
  <2>3. slots \in Seq(Slot) /\ Len(slots) \in Nat /\ DOMAIN slots = 1 .. Len(slots)
    BY LenProperties DEF GoodSlots
  <2>4. /\ SlotGet(e) \in Seq(Slot) /\ Len(SlotGet(e)) = Len(slots) + 1
        /\ \A i \in 1 .. Len(slots) : SlotGet(e)[i] = slots[i]
        /\ SlotGet(e)[Len(slots) + 1] = NewSlot(e)
    BY <2>1, <2>2, <2>3, AppendProperties
  <2>5. DOMAIN SlotGet(e) = 1 .. Len(slots) + 1
    BY <2>4, LenProperties
  <2>6. \A i \in DOMAIN slots : slots[i].ep # e
    BY <1>2 DEF SlotOf
  <2>7. \A i \in DOMAIN SlotGet(e) : i \in DOMAIN slots \/ i = Len(slots) + 1
    BY <2>3, <2>5
  <2>8. Len(SlotGet(e)) <= RATE_SLOTS
    BY <1>2, <2>3, <2>4 DEF RateAssumption
  <2>9. \A i, j \in DOMAIN SlotGet(e) : SlotGet(e)[i].ep = SlotGet(e)[j].ep => i = j
    BY <2>2, <2>3, <2>4, <2>6, <2>7 DEF GoodSlots
  <2>10. GoodSlots(SlotGet(e))
    BY <2>4, <2>8, <2>9 DEF GoodSlots
  <2>11. DOMAIN slots \subseteq DOMAIN SlotGet(e) /\ Len(slots) + 1 \in DOMAIN SlotGet(e)
    BY <2>3, <2>5
  <2>. QED BY <1>2, <2>2, <2>3, <2>4, <2>7, <2>10, <2>11
<1>. QED BY <1>1, <1>2

-----------------------------------------------------------------------------
(* A flush. *)

\* What a flush does to the slots: nothing, or the windows of all start anew and
\* those with reports are printed.
IsFlush(f, ss) ==
  /\ f.start \in Nat
  /\ \/ f.slots = ss /\ f.lines = {}
     \/ /\ f.slots = [i \in DOMAIN ss |-> [ss[i] EXCEPT !.win = NoTally]]
        /\ f.lines = {i \in DOMAIN ss : ss[i].win.count > 0}

\* What a flush prints covers a full window, or a quarter of it.
LongEnough(sp) ==
  /\ sp.length \in Int
  /\ IF sp.final THEN 4 * sp.length >= RATE_WINDOW ELSE sp.length >= RATE_WINDOW

(* rate_flush_window from on_stop, and from rate_on_in when the window is   *)
(* over, prints nothing or a span that is long enough.                     *)
LEMMA FlushWindowFacts ==
  ASSUME NEW ss, NEW start \in Nat, NEW to \in Nat, NEW final \in BOOLEAN, RateAssumption,
         final \/ WindowOver(to, start), LongEnough(span), win_start \in Nat
  PROVE  IsFlush(FlushWindow(ss, start, to, final), ss) /\ LongEnough(FlushWindow(ss, start, to, final).span)
<1>1. CASE to <= start \/ (final /\ 4 * (to - start) < RATE_WINDOW)
  <2>1. FlushWindow(ss, start, to, final) =
          [slots |-> ss, start |-> start, lines |-> {}, span |-> span]
    BY <1>1 DEF FlushWindow, Kept
  <2>. QED BY <2>1 DEF IsFlush
<1>2. CASE ~(to <= start \/ (final /\ 4 * (to - start) < RATE_WINDOW))
  <2>1. FlushWindow(ss, start, to, final) = Flushed(ss, start, to, final)
    BY <1>2 DEF FlushWindow
  <2>2. IsFlush(Flushed(ss, start, to, final), ss)
    BY DEF IsFlush, Flushed
  <2>3. Flushed(ss, start, to, final).span = [length |-> to - start, final |-> final]
    BY DEF Flushed
  <2>4. IF final THEN 4 * (to - start) >= RATE_WINDOW ELSE to - start >= RATE_WINDOW
    BY <1>2 DEF WindowOver, RateAssumption
  <2>5. LongEnough([length |-> to - start, final |-> final])
    BY <2>4 DEF LongEnough
  <2>. QED BY <2>1, <2>2, <2>3, <2>5
<1>. QED BY <1>1, <1>2

(* Flushing nothing. *)
LEMMA KeptFacts ==
  ASSUME NEW ss, win_start \in Nat, LongEnough(span)
  PROVE  IsFlush(Kept(ss), ss) /\ LongEnough(Kept(ss).span)
BY DEF Kept, IsFlush

(* The end of rate_on_in. *)
LEMMA ReportedFacts ==
  ASSUME NEW ss, NEW ts \in Nat, win_start \in Nat, LongEnough(span), RateAssumption
  PROVE  IsFlush(Reported(ss, ts), ss) /\ LongEnough(Reported(ss, ts).span)
<1>. DEFINE start == IF win_start = 0 THEN ts ELSE win_start
<1>1. start \in Nat
  OBVIOUS
<1>. HIDE DEF start
<1>2. CASE WindowOver(ts, start)
  <2>1. Reported(ss, ts) = FlushWindow(ss, start, ts, FALSE)
    BY <1>2 DEF Reported, start
  <2>. QED BY <1>1, <1>2, <2>1, FlushWindowFacts
<1>3. CASE ~WindowOver(ts, start)
  <2>1. Reported(ss, ts) = [slots |-> ss, start |-> start, lines |-> {}, span |-> span]
    BY <1>3 DEF Reported, start, Kept
  <2>. QED BY <1>1, <2>1 DEF IsFlush
<1>. QED BY <1>2, <1>3

(* A flush moves the count of every slot from its window to its line, and   *)
(* touches the lines of no other endpoint.                                 *)
LEMMA PrintedFacts ==
  ASSUME NEW ss, GoodSlots(ss), NEW f, IsFlush(f, ss), Printed(f, ss),
         printed \in [Endpoints -> Nat]
  PROVE  /\ GoodSlots(slots') /\ DOMAIN slots' = DOMAIN ss
         /\ \A i \in DOMAIN ss : slots'[i].ep = ss[i].ep
         /\ \A i \in DOMAIN ss : slots'[i].total = ss[i].total /\ slots'[i].last_ts = ss[i].last_ts
         /\ printed' \in [Endpoints -> Nat]
         /\ \A e \in Endpoints :
              (\A i \in DOMAIN ss : ss[i].ep # e) => printed'[e] = printed[e]
         /\ \A i \in DOMAIN ss :
              printed'[ss[i].ep] + slots'[i].win.count = printed[ss[i].ep] + ss[i].win.count
<1>1. ss \in Seq(Slot) /\ Len(ss) \in Nat /\ DOMAIN ss = 1 .. Len(ss)
  BY LenProperties DEF GoodSlots
<1>2. \A i \in DOMAIN ss : ss[i] \in Slot /\ ss[i].win.count \in Nat /\ ss[i].ep \in Endpoints
  <2>1. \A i \in DOMAIN ss : ss[i] \in Slot
    BY <1>1, ElementOfSeq
  <2>. QED BY <2>1 DEF Slot, Tally
<1>3. CASE f.slots = ss /\ f.lines = {}
  <2>1. \A e \in Endpoints : Line(f, ss, e) = {}
    BY <1>3 DEF Line
  <2>2. slots' = ss /\ printed' = printed
    BY <1>3, <2>1 DEF Printed
  <2>. QED BY <2>2
<1>4. CASE /\ f.slots = [i \in DOMAIN ss |-> [ss[i] EXCEPT !.win = NoTally]]
           /\ f.lines = {i \in DOMAIN ss : ss[i].win.count > 0}
  <2>1. /\ DOMAIN slots' = DOMAIN ss
        /\ \A i \in DOMAIN ss : slots'[i] = [ss[i] EXCEPT !.win = NoTally]
    BY <1>4 DEF Printed
  <2>2. \A i \in DOMAIN ss : slots'[i] \in Slot /\ slots'[i].ep = ss[i].ep /\ slots'[i].win.count = 0
    BY <1>2, <2>1 DEF Slot, Tally, NoTally
  <2>3. GoodSlots(slots')
    <3>1. slots' = [i \in 1 .. Len(ss) |-> slots'[i]]
      BY <1>1, <1>4 DEF Printed
    <3>2. slots' \in [1 .. Len(ss) -> Slot]
      BY <1>1, <2>2, <3>1
    <3>3. slots' \in Seq(Slot) /\ Len(slots') = Len(ss)
      BY <1>1, <3>2, SeqDef
    <3>. QED BY <2>1, <2>2, <3>3 DEF GoodSlots
  <2>4. \A e \in Endpoints : printed'[e] =
          IF Line(f, ss, e) = {} THEN printed[e]
          ELSE printed[e] + ss[CHOOSE i \in Line(f, ss, e) : TRUE].win.count
    BY DEF Printed
  <2>5. \A i \in DOMAIN ss : Line(f, ss, ss[i].ep) = IF ss[i].win.count > 0 THEN {i} ELSE {}
    BY <1>2, <1>4 DEF Line, GoodSlots
  <2>6. \A i \in DOMAIN ss : printed'[ss[i].ep] = printed[ss[i].ep] + ss[i].win.count
    <3>. SUFFICES ASSUME NEW i \in DOMAIN ss
                  PROVE  printed'[ss[i].ep] = printed[ss[i].ep] + ss[i].win.count
      OBVIOUS
    <3>1. CASE ss[i].win.count > 0
      <4>1. Line(f, ss, ss[i].ep) = {i}
        BY <2>5, <3>1
      <4>2. (CHOOSE j \in Line(f, ss, ss[i].ep) : TRUE) = i
        BY <4>1
      <4>. QED BY <1>2, <2>4, <4>1, <4>2
    <3>2. CASE ~(ss[i].win.count > 0)
      <4>1. Line(f, ss, ss[i].ep) = {}
        BY <2>5, <3>2
      <4>2. printed'[ss[i].ep] = printed[ss[i].ep]
        BY <1>2, <2>4, <4>1
      <4>3. ss[i].win.count = 0 /\ printed[ss[i].ep] \in Nat
        BY <1>2, <3>2
      <4>. QED BY <4>2, <4>3
    <3>. QED BY <1>2, <3>1, <3>2
  <2>7. \A e \in Endpoints : (\A i \in DOMAIN ss : ss[i].ep # e) => Line(f, ss, e) = {}
    BY <1>4 DEF Line
  <2>8. \A e \in Endpoints :
          (\A i \in DOMAIN ss : ss[i].ep # e) => printed'[e] = printed[e]
    BY <2>4, <2>7
  <2>9. printed' \in [Endpoints -> Nat]
    <3>1. \A e \in Endpoints : printed'[e] \in Nat
      BY <1>2, <2>6, <2>8
    <3>2. printed' = [e \in Endpoints |-> printed'[e]]
      BY DEF Printed
    <3>. QED BY <3>1, <3>2
  <2>10. \A i \in DOMAIN ss : slots'[i].total = ss[i].total /\ slots'[i].last_ts = ss[i].last_ts
    BY <1>2, <2>1 DEF Slot
  <2>. QED BY <1>2, <2>1, <2>2, <2>3, <2>6, <2>8, <2>9, <2>10
<1>. QED BY <1>3, <1>4 DEF IsFlush

-----------------------------------------------------------------------------
(* The inductive invariant. *)

\* The rate table starts empty.
THEOREM HidStart == HidInit => HidInv
<1>. SUFFICES ASSUME HidInit PROVE HidInv
  OBVIOUS
<1>. USE RateAssumption DEF HidInit
<1>1. slots \in Seq(Slot) /\ Len(slots) = 0 /\ DOMAIN slots = {}
  BY EmptySeq
<1>2. HidTypeOK
  BY <1>1 DEF HidTypeOK, RateAssumption
<1>3. HistoriesOK
  BY DEF HistoriesOK, RateAssumption
<1>4. \A e \in Endpoints : SlotOf(e) = {} /\ heard[e] = << >> /\ printed[e] = 0
  BY <1>1 DEF SlotOf
<1>5. NoSlotNoLine /\ EveryReportInOneWindow
  BY <1>4 DEF NoSlotNoLine, EveryReportInOneWindow
<1>6. NoRateOverAShortSpan
  BY DEF NoRateOverAShortSpan, RateAssumption
<1>. QED BY <1>2, <1>3, <1>5, <1>6 DEF HidInv

(* A successful IN completion is heard of its endpoint. *)
LEMMA HeardMore ==
  ASSUME HidInv, NEW e \in Endpoints, NEW in \in BOOLEAN, NEW ok \in BOOLEAN, NEW ts \in 1 .. MaxTs,
         HidOnEvent(e, in, ok, ts), NEW x \in Endpoints
  PROVE  heard'[x] = IF in /\ ok /\ x = e THEN Append(heard[x], ts) ELSE heard[x]
<1>1. heard \in [Endpoints -> Seq(Times)]
  BY DEF HidInv, HistoriesOK
<1>2. PICK q : q = Append(heard[e], ts)
  OBVIOUS
<1>3. heard' = IF in /\ ok THEN [heard EXCEPT ![e] = q] ELSE heard
  BY <1>2 DEF HidOnEvent
<1>. QED BY <1>1, <1>2, <1>3

(* A record of a transfer that is not rated. *)
LEMMA UnratedStep ==
  ASSUME HidInv, NEW e \in Endpoints, NEW in \in BOOLEAN, NEW ok \in BOOLEAN, NEW ts \in 1 .. MaxTs,
         HidOnEvent(e, in, ok, ts), Unrated(e, in, ok, ts)
  PROVE  NoSlotNoLine' /\ EveryReportInOneWindow' /\ NoRateOverAShortSpan'
<1>1. UNCHANGED <<slots, printed, span>>
  BY DEF Unrated
<1>2. \A x \in Endpoints : SlotOf(x)' = SlotOf(x)
  BY <1>1 DEF SlotOf
<1>3. NoSlotNoLine' /\ NoRateOverAShortSpan'
  BY <1>1, <1>2 DEF HidInv, NoSlotNoLine, NoRateOverAShortSpan
<1>4. EveryReportInOneWindow'
  <2>. SUFFICES ASSUME NEW x \in Endpoints
                PROVE  IF SlotOf(x) = {} THEN heard'[x] # << >> => Len(slots) = RATE_SLOTS
                       ELSE \A i \in SlotOf(x) : Len(heard'[x]) = printed[x] + slots[i].win.count
    BY <1>1, <1>2 DEF EveryReportInOneWindow
  <2>1. IF SlotOf(x) = {} THEN heard[x] # << >> => Len(slots) = RATE_SLOTS
        ELSE \A i \in SlotOf(x) : Len(heard[x]) = printed[x] + slots[i].win.count
    BY DEF HidInv, EveryReportInOneWindow
  <2>2. CASE heard'[x] = heard[x]
    BY <2>1, <2>2
  <2>3. CASE heard'[x] # heard[x]
    <3>1. in /\ x = e
      BY <2>3, HeardMore
    <3>2. SlotOf(x) = {} /\ Len(slots) >= RATE_SLOTS
      BY <3>1 DEF Unrated
    <3>3. Len(slots) <= RATE_SLOTS /\ Len(slots) \in Nat
      BY LenProperties DEF HidInv, HidTypeOK
    <3>. QED BY <3>2, <3>3, RateAssumption DEF RateAssumption
  <2>. QED BY <2>2, <2>3
<1>. QED BY <1>3, <1>4

\* What a rated record leaves: only slot i took it, whatever was flushed.
SlotsAfter(ss, i, e, ok, ts) ==
  /\ ss[i].ep = e /\ DOMAIN slots' = DOMAIN ss
  /\ \A j \in DOMAIN ss :
       LET s == IF j = i THEN RateOnIn(ss[i], ok, ts) ELSE ss[j] IN
       /\ slots'[j].ep = ss[j].ep
       /\ slots'[j].total = s.total /\ slots'[j].last_ts = s.last_ts

(* A record of a transfer that is rated. *)
LEMMA RatedStep ==
  ASSUME HidInv, NEW e \in Endpoints, NEW in \in BOOLEAN, NEW ok \in BOOLEAN, NEW ts \in 1 .. MaxTs,
         HidOnEvent(e, in, ok, ts), Rated(e, in, ok, ts)
  PROVE  /\ GoodSlots(slots') /\ win_start' \in Nat
         /\ printed' \in [Endpoints -> Nat] /\ LongEnough(span')
         /\ NoSlotNoLine' /\ EveryReportInOneWindow'
         /\ \E i \in DOMAIN SlotGet(e) : SlotsAfter(SlotGet(e), i, e, ok, ts)
<1>. DEFINE ss == SlotGet(e)
            i  == CHOOSE j \in DOMAIN ss : ss[j].ep = e
            s2 == [ss EXCEPT ![i] = RateOnIn(ss[i], ok, ts)]
            f  == IF ok THEN Reported(s2, ts) ELSE Kept(s2)
<1>1. GoodSlots(slots) /\ win_start \in Nat /\ LongEnough(span) /\ printed \in [Endpoints -> Nat]
  BY DEF HidInv, HidTypeOK, GoodSlots, HistoriesOK, LongEnough, NoRateOverAShortSpan
<1>2. in /\ (SlotOf(e) # {} \/ Len(slots) < RATE_SLOTS) /\ Printed(f, s2)
  BY DEF Rated
<1>3. /\ GoodSlots(ss) /\ DOMAIN slots \subseteq DOMAIN ss
      /\ \A j \in DOMAIN slots : ss[j] = slots[j]
      /\ \E j \in DOMAIN ss : ss[j].ep = e
      /\ \A j \in DOMAIN ss \ DOMAIN slots : SlotOf(e) = {} /\ ss[j] = NewSlot(e)
  BY <1>1, <1>2, SlotGetFacts, RateAssumption
<1>. HIDE DEF ss
<1>4. i \in DOMAIN ss /\ ss[i].ep = e
  BY <1>3
<1>. HIDE DEF i
<1>5. ss \in Seq(Slot) /\ Len(ss) \in Nat /\ DOMAIN ss = 1 .. Len(ss) /\ ss[i] \in Slot
  BY <1>3, <1>4, LenProperties, ElementOfSeq DEF GoodSlots
<1>6. ts \in Nat
  BY RateAssumption DEF RateAssumption
<1>7. /\ RateOnIn(ss[i], ok, ts) \in Slot /\ RateOnIn(ss[i], ok, ts).ep = e
      /\ RateOnIn(ss[i], ok, ts).win.count = ss[i].win.count + (IF ok THEN 1 ELSE 0)
  BY <1>4, <1>5, <1>6, RateOnInFacts
<1>8. /\ s2 \in Seq(Slot) /\ Len(s2) = Len(ss) /\ DOMAIN s2 = DOMAIN ss
      /\ \A j \in DOMAIN ss : s2[j] = IF j = i THEN RateOnIn(ss[i], ok, ts) ELSE ss[j]
  BY <1>4, <1>5, <1>7, ExceptSeq
<1>. HIDE DEF s2
<1>9. \A j \in DOMAIN ss : s2[j].ep = ss[j].ep
  BY <1>4, <1>7, <1>8
<1>10. GoodSlots(s2)
  BY <1>3, <1>8, <1>9 DEF GoodSlots
<1>11. IsFlush(f, s2) /\ LongEnough(f.span)
  <2>1. CASE ok
    BY <1>1, <1>6, <2>1, ReportedFacts, RateAssumption
  <2>2. CASE ~ok
    BY <1>1, <2>2, KeptFacts
  <2>. QED BY <2>1, <2>2
<1>. HIDE DEF f
<1>12. /\ GoodSlots(slots') /\ DOMAIN slots' = DOMAIN ss
       /\ \A j \in DOMAIN ss : slots'[j].ep = ss[j].ep
       /\ \A j \in DOMAIN ss : slots'[j].total = s2[j].total /\ slots'[j].last_ts = s2[j].last_ts
       /\ printed' \in [Endpoints -> Nat]
       /\ \A x \in Endpoints : (\A j \in DOMAIN ss : ss[j].ep # x) => printed'[x] = printed[x]
       /\ \A j \in DOMAIN ss :
            printed'[ss[j].ep] + slots'[j].win.count = printed[ss[j].ep] + s2[j].win.count
  <2>1. /\ GoodSlots(slots') /\ DOMAIN slots' = DOMAIN s2
        /\ \A j \in DOMAIN s2 : slots'[j].ep = s2[j].ep
        /\ \A j \in DOMAIN s2 : slots'[j].total = s2[j].total /\ slots'[j].last_ts = s2[j].last_ts
        /\ printed' \in [Endpoints -> Nat]
        /\ \A x \in Endpoints : (\A j \in DOMAIN s2 : s2[j].ep # x) => printed'[x] = printed[x]
        /\ \A j \in DOMAIN s2 :
             printed'[s2[j].ep] + slots'[j].win.count = printed[s2[j].ep] + s2[j].win.count
    BY <1>1, <1>2, <1>10, <1>11, PrintedFacts
  <2>. QED BY <1>8, <1>9, <2>1
<1>13. win_start' \in Nat /\ LongEnough(span')
  BY <1>2, <1>11 DEF Printed, IsFlush
<1>14. \A x \in Endpoints : SlotOf(x)' = {j \in DOMAIN ss : ss[j].ep = x}
  BY <1>12 DEF SlotOf
<1>15. \A x \in Endpoints : SlotOf(x) \subseteq SlotOf(x)'
  BY <1>3, <1>14 DEF SlotOf
<1>16. NoSlotNoLine'
  <2>. SUFFICES ASSUME NEW x \in Endpoints, SlotOf(x)' = {} PROVE printed'[x] = 0
    BY DEF NoSlotNoLine
  <2>1. printed'[x] = printed[x] /\ SlotOf(x) = {}
    BY <1>12, <1>14, <1>15
  <2>. QED BY <2>1 DEF HidInv, NoSlotNoLine
<1>17. \A x \in Endpoints : Len(heard[x]) \in Nat /\ printed[x] \in Nat
  <2>1. \A x \in Endpoints : heard[x] \in Seq(Times)
    BY DEF HidInv, HistoriesOK
  <2>. QED BY <2>1, LenProperties DEF HidInv, HistoriesOK
<1>18. in
  BY DEF Rated
<1>19. \A x \in Endpoints :
         /\ Len(heard'[x]) = Len(heard[x]) + IF ok /\ x = e THEN 1 ELSE 0
         /\ x # e => heard'[x] = heard[x]
  <2>. SUFFICES ASSUME NEW x \in Endpoints
                PROVE  /\ Len(heard'[x]) = Len(heard[x]) + IF ok /\ x = e THEN 1 ELSE 0
                       /\ x # e => heard'[x] = heard[x]
    OBVIOUS
  <2>1. heard'[x] = IF in /\ ok /\ x = e THEN Append(heard[x], ts) ELSE heard[x]
    BY HeardMore
  <2>2. heard[x] \in Seq(Times) /\ ts \in Times
    BY RateAssumption DEF HidInv, HistoriesOK, Times, RateAssumption
  <2>3. Len(Append(heard[x], ts)) = Len(heard[x]) + 1
    BY <2>2, AppendProperties
  <2>4. CASE ok /\ x = e
    BY <1>18, <2>1, <2>3, <2>4
  <2>5. CASE ~(ok /\ x = e)
    <3>1. heard'[x] = heard[x]
      BY <2>1, <2>5
    <3>2. Len(heard[x]) = Len(heard[x]) + 0
      BY <1>17
    <3>. QED BY <2>5, <3>1, <3>2
  <2>. QED BY <2>4, <2>5
<1>20. \A j \in DOMAIN ss : ss[j].win.count \in Nat /\ ss[j].ep \in Endpoints
  <2>1. \A j \in DOMAIN ss : ss[j] \in Slot
    BY <1>5, ElementOfSeq
  <2>. QED BY <2>1 DEF Slot, Tally
<1>21. \A j \in DOMAIN ss : Len(heard[ss[j].ep]) = printed[ss[j].ep] + ss[j].win.count
  <2>. SUFFICES ASSUME NEW j \in DOMAIN ss
                PROVE  Len(heard[ss[j].ep]) = printed[ss[j].ep] + ss[j].win.count
    OBVIOUS
  <2>1. CASE j \in DOMAIN slots
    <3>1. ss[j] = slots[j] /\ j \in SlotOf(ss[j].ep)
      BY <1>3, <2>1 DEF SlotOf
    <3>. QED BY <1>20, <3>1 DEF HidInv, EveryReportInOneWindow
  <2>2. CASE j \notin DOMAIN slots
    <3>1. SlotOf(e) = {} /\ ss[j].ep = e /\ ss[j].win.count = 0
      BY <1>3, <2>2 DEF NewSlot, NoTally
    <3>2. heard[e] = << >>
      <4>1. Len(slots) # RATE_SLOTS
        BY <1>2, <3>1, LenProperties, RateAssumption DEF GoodSlots, RateAssumption, HidInv, HidTypeOK
      <4>. QED BY <3>1, <4>1 DEF HidInv, EveryReportInOneWindow
    <3>3. printed[e] = 0
      BY <3>1 DEF HidInv, NoSlotNoLine
    <3>4. Len(heard[e]) = 0
      BY <3>2
    <3>. QED BY <3>1, <3>3, <3>4
  <2>. QED BY <2>1, <2>2
<1>22. \A j \in DOMAIN ss : Len(heard'[ss[j].ep]) = printed'[ss[j].ep] + slots'[j].win.count
  <2>. SUFFICES ASSUME NEW j \in DOMAIN ss
                PROVE  Len(heard'[ss[j].ep]) = printed'[ss[j].ep] + slots'[j].win.count
    OBVIOUS
  <2>1. ss[j].ep = e <=> j = i
    BY <1>3, <1>4 DEF GoodSlots
  <2>2. s2[j].win.count = ss[j].win.count + IF ok /\ j = i THEN 1 ELSE 0
    BY <1>7, <1>8, <1>20
  <2>3. Len(heard'[ss[j].ep]) = Len(heard[ss[j].ep]) + IF ok /\ j = i THEN 1 ELSE 0
    BY <1>19, <1>20, <2>1
  <2>4. printed'[ss[j].ep] + slots'[j].win.count = printed[ss[j].ep] + s2[j].win.count
    BY <1>12
  <2>5. printed[ss[j].ep] \in Nat /\ ss[j].win.count \in Nat
    BY <1>17, <1>20
  <2>6. PICK h : h = Len(heard[ss[j].ep])
    OBVIOUS
  <2>7. PICK c : c = IF ok /\ j = i THEN 1 ELSE 0
    OBVIOUS
  <2>8. PICK p : p = printed[ss[j].ep]
    OBVIOUS
  <2>9. PICK k : k = ss[j].win.count
    OBVIOUS
  <2>10. p \in Nat /\ k \in Nat /\ c \in Nat /\ h = p + k
    BY <1>21, <2>5, <2>6, <2>7, <2>8, <2>9
  <2>11. Len(heard'[ss[j].ep]) = h + c
    BY <2>3, <2>6, <2>7
  <2>12. printed'[ss[j].ep] + slots'[j].win.count = p + (k + c)
    BY <2>2, <2>4, <2>7, <2>8, <2>9
  <2>13. h + c = p + (k + c)
    BY <2>10
  <2>. QED BY <2>11, <2>12, <2>13
<1>23. EveryReportInOneWindow'
  <2>. SUFFICES ASSUME NEW x \in Endpoints
                PROVE  IF SlotOf(x)' = {} THEN heard'[x] # << >> => Len(slots') = RATE_SLOTS
                       ELSE \A j \in SlotOf(x)' : Len(heard'[x]) = printed'[x] + slots'[j].win.count
    BY DEF EveryReportInOneWindow
  <2>1. CASE SlotOf(x)' # {}
    BY <1>14, <1>22, <2>1
  <2>2. CASE SlotOf(x)' = {}
    <3>1. x # e
      BY <1>4, <1>14, <2>2
    <3>2. heard'[x] = heard[x] /\ SlotOf(x) = {}
      BY <1>15, <1>17, <1>19, <2>2, <3>1
    <3>3. heard[x] # << >> => Len(slots) = RATE_SLOTS
      BY <3>2 DEF HidInv, EveryReportInOneWindow
    <3>4. Len(slots) = RATE_SLOTS => Len(slots') = RATE_SLOTS
      <4>1. Len(slots) \in Nat /\ DOMAIN slots = 1 .. Len(slots)
        BY <1>1, LenProperties DEF GoodSlots
      <4>2. Len(slots') \in Nat /\ DOMAIN slots' = 1 .. Len(slots') /\ Len(slots') <= RATE_SLOTS
        BY <1>12, LenProperties DEF GoodSlots
      <4>3. DOMAIN slots \subseteq DOMAIN slots'
        BY <1>3, <1>12
      <4>4. Len(slots) = 0 \/ Len(slots) \in 1 .. Len(slots')
        BY <4>1, <4>2, <4>3
      <4>5. Len(slots) <= Len(slots')
        <5>. DEFINE n == Len(slots)
                    m == Len(slots')
        <5>1. n \in Nat /\ m \in Nat /\ (n = 0 \/ n \in 1 .. m)
          BY <4>1, <4>2, <4>4
        <5>. HIDE DEF n, m
        <5>2. n <= m
          BY <5>1
        <5>. QED BY <5>2 DEF n, m
      <4>6. RATE_SLOTS \in Nat
        BY RateAssumption DEF RateAssumption
      <4>. SUFFICES ASSUME Len(slots) = RATE_SLOTS PROVE Len(slots') = RATE_SLOTS
        OBVIOUS
      <4>7. RATE_SLOTS <= Len(slots') /\ Len(slots') <= RATE_SLOTS /\ Len(slots') \in Nat
        BY <4>2, <4>5
      <4>. QED BY <4>6, <4>7
    <3>. QED BY <2>2, <3>2, <3>3, <3>4
  <2>. QED BY <2>1, <2>2
<1>25. SlotsAfter(ss, i, e, ok, ts)
  BY <1>3, <1>4, <1>8, <1>12 DEF SlotsAfter
<1>26. \E j \in DOMAIN SlotGet(e) : SlotsAfter(SlotGet(e), j, e, ok, ts)
  BY <1>4, <1>25 DEF ss
<1>. QED BY <1>12, <1>13, <1>16, <1>23, <1>26

(* hid_on_stop flushes the last window. *)
LEMMA StopStep ==
  ASSUME HidInv, HidOnStop
  PROVE  /\ HidInv'
         /\ heard' = heard /\ DOMAIN slots' = DOMAIN slots
         /\ \A i \in DOMAIN slots :
              /\ slots'[i].ep = slots[i].ep
              /\ slots'[i].total = slots[i].total /\ slots'[i].last_ts = slots[i].last_ts
<1>1. GoodSlots(slots) /\ win_start \in Nat /\ LongEnough(span) /\ printed \in [Endpoints -> Nat]
  BY DEF HidInv, HidTypeOK, GoodSlots, HistoriesOK, LongEnough, NoRateOverAShortSpan
<1>2. PICK last \in {slots[i].last_ts : i \in DOMAIN slots} \cup {0} :
        /\ Printed(IF win_start # 0 /\ last > win_start
                   THEN FlushWindow(slots, win_start, last, TRUE) ELSE Kept(slots), slots)
        /\ UNCHANGED <<stats, newest, heard>>
  BY DEF HidOnStop
<1>. DEFINE f == IF win_start # 0 /\ last > win_start
                 THEN FlushWindow(slots, win_start, last, TRUE) ELSE Kept(slots)
<1>3. last \in Nat
  <2>1. \A i \in DOMAIN slots : slots[i] \in Slot
    BY <1>1, ElementOfSeq, LenProperties DEF GoodSlots
  <2>2. \A i \in DOMAIN slots : slots[i].last_ts \in Nat
    BY <2>1 DEF Slot
  <2>. QED BY <1>2, <2>2
<1>4. IsFlush(f, slots) /\ LongEnough(f.span)
  <2>1. CASE win_start # 0 /\ last > win_start
    BY <1>1, <1>3, <2>1, FlushWindowFacts, RateAssumption
  <2>2. CASE ~(win_start # 0 /\ last > win_start)
    BY <1>1, <2>2, KeptFacts
  <2>. QED BY <2>1, <2>2
<1>5. Printed(f, slots)
  BY <1>2
<1>. HIDE DEF f
<1>6. /\ GoodSlots(slots') /\ DOMAIN slots' = DOMAIN slots
      /\ \A i \in DOMAIN slots : slots'[i].ep = slots[i].ep
      /\ \A i \in DOMAIN slots :
           slots'[i].total = slots[i].total /\ slots'[i].last_ts = slots[i].last_ts
      /\ printed' \in [Endpoints -> Nat]
      /\ \A e \in Endpoints :
           (\A i \in DOMAIN slots : slots[i].ep # e) => printed'[e] = printed[e]
      /\ \A i \in DOMAIN slots :
           printed'[slots[i].ep] + slots'[i].win.count = printed[slots[i].ep] + slots[i].win.count
  BY <1>1, <1>4, <1>5, PrintedFacts
<1>7. win_start' \in Nat /\ LongEnough(span')
  BY <1>4, <1>5 DEF Printed, IsFlush
<1>8. HidTypeOK' /\ HistoriesOK'
  BY <1>2, <1>6, <1>7 DEF HidInv, HidTypeOK, HistoriesOK, GoodSlots, LongEnough
<1>9. \A e \in Endpoints : SlotOf(e)' = SlotOf(e)
  BY <1>6 DEF SlotOf
<1>10. NoSlotNoLine'
  BY <1>6, <1>9 DEF HidInv, NoSlotNoLine, SlotOf
<1>11. Len(slots') = Len(slots)
  <2>1. Len(slots) \in Nat /\ DOMAIN slots = 1 .. Len(slots)
    BY <1>1, LenProperties DEF GoodSlots
  <2>2. Len(slots') \in Nat /\ DOMAIN slots' = 1 .. Len(slots')
    BY <1>6, LenProperties DEF GoodSlots
  <2>. QED BY <1>6, <2>1, <2>2
<1>12. EveryReportInOneWindow'
  <2>. SUFFICES ASSUME NEW e \in Endpoints
                PROVE  IF SlotOf(e) = {} THEN heard[e] # << >> => Len(slots) = RATE_SLOTS
                       ELSE \A i \in SlotOf(e) : Len(heard[e]) = printed'[e] + slots'[i].win.count
    BY <1>2, <1>9, <1>11 DEF EveryReportInOneWindow
  <2>1. IF SlotOf(e) = {} THEN heard[e] # << >> => Len(slots) = RATE_SLOTS
        ELSE \A i \in SlotOf(e) : Len(heard[e]) = printed[e] + slots[i].win.count
    BY DEF HidInv, EveryReportInOneWindow
  <2>2. \A i \in SlotOf(e) : i \in DOMAIN slots /\ slots[i].ep = e
    BY DEF SlotOf
  <2>. QED BY <1>6, <2>1, <2>2
<1>13. NoRateOverAShortSpan'
  BY <1>7 DEF LongEnough, NoRateOverAShortSpan
<1>. QED BY <1>2, <1>6, <1>8, <1>10, <1>12, <1>13 DEF HidInv

(* The tallies of a record. *)
LEMMA RecordHistories ==
  ASSUME HidInv, NEW e \in Endpoints, NEW in \in BOOLEAN, NEW ok \in BOOLEAN, NEW ts \in 1 .. MaxTs,
         HidOnEvent(e, in, ok, ts)
  PROVE  /\ newest' \in Nat /\ heard' \in [Endpoints -> Seq(Times)]
         /\ stats' \in [urbs: Nat, status_err: Nat] /\ stats'.status_err <= stats'.urbs
<1>1. newest' \in Nat
  BY RateAssumption DEF HidOnEvent, HidInv, HidTypeOK, RateAssumption
<1>2. heard' \in [Endpoints -> Seq(Times)]
  <2>1. heard \in [Endpoints -> Seq(Times)] /\ ts \in Times
    BY RateAssumption DEF HidInv, HistoriesOK, Times, RateAssumption
  <2>2. heard[e] \in Seq(Times)
    BY <2>1
  <2>3. PICK q : q = Append(heard[e], ts)
    OBVIOUS
  <2>4. q \in Seq(Times)
    BY <2>1, <2>2, <2>3, AppendProperties
  <2>5. heard' = heard \/ heard' = [heard EXCEPT ![e] = q]
    BY <2>3 DEF HidOnEvent
  <2>. QED BY <2>1, <2>4, <2>5
<1>3. stats' \in [urbs: Nat, status_err: Nat] /\ stats'.status_err <= stats'.urbs
  <2>1. stats.urbs \in Nat /\ stats.status_err \in Nat /\ stats.status_err <= stats.urbs
    BY DEF HidInv, HidTypeOK
  <2>2. stats' = [urbs |-> stats.urbs + 1,
                  status_err |-> stats.status_err + (IF ok THEN 0 ELSE 1)]
    BY DEF HidOnEvent, Tallied
  <2>. QED BY <2>1, <2>2
<1>. QED BY <1>1, <1>2, <1>3

(* Every record and the end of the session keep the invariant. *)
THEOREM HidStep == HidInv /\ [HidNext]_hidVars => HidInv'
<1>. SUFFICES ASSUME HidInv, [HidNext]_hidVars PROVE HidInv'
  OBVIOUS
<1>1. ASSUME NEW e \in Endpoints, NEW in \in BOOLEAN, NEW ok \in BOOLEAN, NEW ts \in 1 .. MaxTs,
             HidOnEvent(e, in, ok, ts)
      PROVE  HidInv'
  <2>1. /\ newest' \in Nat /\ heard' \in [Endpoints -> Seq(Times)]
        /\ stats' \in [urbs: Nat, status_err: Nat] /\ stats'.status_err <= stats'.urbs
    BY <1>1, RecordHistories
  <2>2. CASE Unrated(e, in, ok, ts)
    <3>1. NoSlotNoLine' /\ EveryReportInOneWindow' /\ NoRateOverAShortSpan'
      BY <1>1, <2>2, UnratedStep
    <3>2. UNCHANGED <<slots, win_start, printed, span>>
      BY <2>2 DEF Unrated
    <3>3. HidTypeOK' /\ HistoriesOK'
      BY <2>1, <3>2 DEF HidInv, HidTypeOK, HistoriesOK
    <3>. QED BY <3>1, <3>3 DEF HidInv
  <2>3. CASE Rated(e, in, ok, ts)
    <3>1. /\ GoodSlots(slots') /\ win_start' \in Nat
          /\ printed' \in [Endpoints -> Nat] /\ LongEnough(span')
          /\ NoSlotNoLine' /\ EveryReportInOneWindow'
      BY <1>1, <2>3, RatedStep
    <3>2. HidTypeOK' /\ HistoriesOK' /\ NoRateOverAShortSpan'
      BY <2>1, <3>1 DEF HidTypeOK, HistoriesOK, GoodSlots, LongEnough, NoRateOverAShortSpan
    <3>. QED BY <3>1, <3>2 DEF HidInv
  <2>. QED BY <1>1, <2>2, <2>3 DEF HidOnEvent
<1>2. CASE HidOnStop
  BY <1>2, StopStep
<1>3. CASE UNCHANGED hidVars
  <2>. USE <1>3 DEF hidVars
  <2>1. \A e \in Endpoints : SlotOf(e)' = SlotOf(e)
    BY DEF SlotOf
  <2>2. HidTypeOK' /\ HistoriesOK'
    BY DEF HidInv, HidTypeOK, HistoriesOK
  <2>3. NoSlotNoLine' /\ EveryReportInOneWindow'
    BY <2>1 DEF HidInv, NoSlotNoLine, EveryReportInOneWindow
  <2>4. NoRateOverAShortSpan'
    BY DEF HidInv, NoRateOverAShortSpan
  <2>. QED BY <2>2, <2>3, <2>4 DEF HidInv
<1>. QED BY <1>1, <1>2, <1>3 DEF HidNext

-----------------------------------------------------------------------------

(* hid.c: the invariant behind the two theorems below. *)
THEOREM HidInvariant == HidSpec => []HidInv
<1>. QED BY HidStart, HidStep, PTL DEF HidSpec

(* hid.c: whatever the number of slots and the delay of records, a report  *)
(* is in one rate line or in the open window, and an endpoint without a    *)
(* rate found all slots taken.                                             *)
THEOREM ReportsInOneWindow == HidSpec => []EveryReportInOneWindow
<1>1. HidInv => EveryReportInOneWindow
  BY DEF HidInv
<1>. QED BY <1>1, HidInvariant, PTL

(* rate_flush_window never prints a rate over less than the interval, or a *)
(* quarter of it at the end, whatever the order of the records.            *)
THEOREM RatesOverLongSpans == HidSpec => []NoRateOverAShortSpan
<1>1. HidInv => NoRateOverAShortSpan
  BY DEF HidInv
<1>. QED BY <1>1, HidInvariant, PTL
-----------------------------------------------------------------------------
(* The intervals. *)

\* The average of n intervals lies between their extremes.
Between(n, sum, min, max) ==
  n * min <= sum /\ sum <= n * max /\ (n > 0 => min > 0)

Bounded(t) == Between(t.iv, t.sum, t.min, t.max) /\ t.max <= RATE_GAP

\* What a tally counts of the reports q.
Counts(t, q) ==
  /\ t.count = Len(q)
  /\ t.gaps = Cardinality(Gaps(q)) /\ t.iv = Cardinality(Steady(q))
  /\ \A j \in Steady(q) : t.min <= Interval(q, j) /\ Interval(q, j) <= t.max

\* A slot of an endpoint with the reports q; its time stamp is that of the last.
Accounted(s, q) ==
  /\ Counts(s.total, q)
  /\ s.last_ts = IF q = << >> THEN 0 ELSE q[Len(q)]
  /\ Bounded(s.total)

IntervalsInv == \A i \in DOMAIN slots : Accounted(slots[i], heard[slots[i].ep])

\* What is counted of r, the n reports q and one more at ts.
OneMore(q, ts, r, n) ==
  /\ Cardinality(Gaps(q)) \in Nat /\ Cardinality(Steady(q)) \in Nat
  /\ \A j \in Steady(q) : Interval(r, j) = Interval(q, j)
  /\ n = 0 => Gaps(r) = {} /\ Steady(r) = {} /\ Gaps(q) = {} /\ Steady(q) = {}
  /\ n # 0 =>
       /\ q[n] \in Times /\ Interval(r, n) = ts - q[n]
       /\ Cardinality(Gaps(r)) = Cardinality(Gaps(q)) + IF ts - q[n] > RATE_GAP THEN 1 ELSE 0
       /\ Cardinality(Steady(r)) =
            Cardinality(Steady(q)) + IF ts - q[n] \in 1 .. RATE_GAP THEN 1 ELSE 0
       /\ Steady(r) = Steady(q) \cup IF ts - q[n] \in 1 .. RATE_GAP THEN {n} ELSE {}

(* A report adds the interval to the one before it, as a gap, as a steady   *)
(* one or, when it came late, as neither.                                  *)
LEMMA OneMoreReport ==
  ASSUME NEW q \in Seq(Times), NEW ts \in Times, NEW r, r = Append(q, ts), NEW n, n = Len(q)
  PROVE  OneMore(q, ts, r, n)
<1>1. /\ n \in Nat /\ Len(r) = n + 1 /\ r[n + 1] = ts
      /\ \A i \in 1 .. n : r[i] = q[i] /\ q[i] \in Nat
  BY AppendProperties, LenProperties, ElementOfSeq DEF Times
<1>2. \A i \in 1 .. n - 1 : i \in 1 .. n /\ i + 1 \in 1 .. n
  BY <1>1
<1>3. \A i \in 1 .. n - 1 : Interval(r, i) = Interval(q, i)
  BY <1>1, <1>2 DEF Interval
<1>4. PICK below : below = 1 .. n - 1
  OBVIOUS
<1>5. IsFiniteSet(below) /\ n \notin below
  BY <1>1, <1>4, FS_Interval
<1>6. Gaps(q) \in SUBSET below /\ Steady(q) \in SUBSET below
  BY <1>4 DEF Gaps, Steady
<1>7. IsFiniteSet(Gaps(q)) /\ IsFiniteSet(Steady(q)) /\ n \notin Gaps(q) /\ n \notin Steady(q)
  BY <1>5, <1>6, FS_Subset
<1>8. Cardinality(Gaps(q)) \in Nat /\ Cardinality(Steady(q)) \in Nat
  BY <1>7, FS_CardinalityType
<1>9. \A j \in Steady(q) : Interval(r, j) = Interval(q, j)
  BY <1>3, <1>4, <1>6
<1>10. CASE n = 0
  <2>1. 1 .. Len(r) - 1 = {} /\ 1 .. Len(q) - 1 = {}
    BY <1>1, <1>10
  <2>. QED BY <1>8, <1>9, <1>10, <2>1 DEF Gaps, Steady, OneMore
<1>11. CASE n # 0
  <2>1. n \in 1 .. n /\ 1 .. Len(r) - 1 = below \cup {n} /\ Len(q) - 1 = n - 1
    BY <1>1, <1>4, <1>11
  <2>2. Interval(r, n) = ts - q[n] /\ q[n] \in Times
    BY <1>1, <2>1, ElementOfSeq DEF Interval
  <2>3. Gaps(r) = Gaps(q) \cup IF ts - q[n] > RATE_GAP THEN {n} ELSE {}
    <3>1. Gaps(q) = {i \in below : Interval(q, i) > RATE_GAP}
      BY <1>4, <2>1 DEF Gaps
    <3>2. Gaps(r) = {i \in below \cup {n} : Interval(r, i) > RATE_GAP}
      BY <2>1 DEF Gaps
    <3>. QED BY <1>3, <1>4, <2>2, <3>1, <3>2
  <2>4. Steady(r) = Steady(q) \cup IF ts - q[n] \in 1 .. RATE_GAP THEN {n} ELSE {}
    <3>1. Steady(q) = {i \in below : Interval(q, i) \in 1 .. RATE_GAP}
      BY <1>4, <2>1 DEF Steady
    <3>2. Steady(r) = {i \in below \cup {n} : Interval(r, i) \in 1 .. RATE_GAP}
      BY <2>1 DEF Steady
    <3>. QED BY <1>3, <1>4, <2>2, <3>1, <3>2
  <2>5. /\ Cardinality(Gaps(q) \cup {n}) = Cardinality(Gaps(q)) + 1
        /\ Cardinality(Steady(q) \cup {n}) = Cardinality(Steady(q)) + 1
    BY <1>7, FS_AddElement
  <2>6. Cardinality(Gaps(r)) = Cardinality(Gaps(q)) + IF ts - q[n] > RATE_GAP THEN 1 ELSE 0
    <3>1. CASE ts - q[n] > RATE_GAP
      <4>1. Gaps(r) = Gaps(q) \cup {n}
        BY <2>3, <3>1
      <4>. QED BY <2>5, <3>1, <4>1
    <3>2. CASE ~(ts - q[n] > RATE_GAP)
      <4>1. Gaps(r) = Gaps(q)
        BY <2>3, <3>2
      <4>. QED BY <1>8, <3>2, <4>1
    <3>. QED BY <3>1, <3>2
  <2>7. Cardinality(Steady(r)) =
          Cardinality(Steady(q)) + IF ts - q[n] \in 1 .. RATE_GAP THEN 1 ELSE 0
    <3>1. CASE ts - q[n] \in 1 .. RATE_GAP
      <4>1. Steady(r) = Steady(q) \cup {n}
        BY <2>4, <3>1
      <4>. QED BY <2>5, <3>1, <4>1
    <3>2. CASE ts - q[n] \notin 1 .. RATE_GAP
      <4>1. Steady(r) = Steady(q)
        BY <2>4, <3>2
      <4>. QED BY <1>8, <3>2, <4>1
    <3>. QED BY <3>1, <3>2
  <2>. QED BY <1>8, <1>9, <1>11, <2>2, <2>4, <2>6, <2>7 DEF OneMore
<1>. QED BY <1>10, <1>11

(* A sum of n values plus one more lies between n + 1 times the new         *)
(* extremes.                                                               *)
LEMMA Extremes ==
  ASSUME NEW n \in Nat, NEW sum \in Nat, NEW min \in Nat, NEW max \in Nat, NEW iv \in Nat, iv > 0,
         Between(n, sum, min, max),
         NEW lo, NEW hi, lo = IF min = 0 \/ iv < min THEN iv ELSE min, hi = IF iv > max THEN iv ELSE max
  PROVE  Between(n + 1, sum + iv, lo, hi)
<1>1. lo \in Nat /\ hi \in Nat /\ lo > 0 /\ lo <= iv /\ iv <= hi /\ max <= hi
  OBVIOUS
<1>2. n = 0 \/ lo <= min
  BY DEF Between
<1>3. n * max <= n * hi
  BY <1>1, SMTT(30)
<1>4. n * lo <= n * min
  <2>1. CASE n = 0
    BY <1>1, <2>1
  <2>2. CASE n # 0
    <3>1. lo <= min
      BY <1>2, <2>2
    <3>. QED BY <1>1, <3>1, SMTT(30)
  <2>. QED BY <2>1, <2>2
<1>5. (n + 1) * lo = n * lo + lo /\ (n + 1) * hi = n * hi + hi
  BY <1>1, SMTT(30)
<1>6. n * lo \in Nat /\ n * hi \in Nat /\ n * min \in Nat /\ n * max \in Nat
  BY <1>1
<1>7. n * min <= sum /\ sum <= n * max
  BY DEF Between
<1>8. (n + 1) * lo <= sum + iv /\ sum + iv <= (n + 1) * hi
  BY <1>1, <1>3, <1>4, <1>5, <1>6, <1>7
<1>. QED BY <1>1, <1>8 DEF Between

\* What an interval makes of a tally.
Joined(t, iv, m) ==
  /\ m \in Tally /\ Bounded(m) /\ m.count = t.count
  /\ m.gaps = t.gaps + IF iv > RATE_GAP THEN 1 ELSE 0
  /\ m.iv = t.iv + IF iv > RATE_GAP THEN 0 ELSE 1
  /\ iv > RATE_GAP => m.min = t.min /\ m.max = t.max
  /\ ~(iv > RATE_GAP) => /\ m.min <= iv /\ iv <= m.max /\ t.max <= m.max
                         /\ t.iv > 0 => m.min <= t.min

(* rate_note_interval: an interval joins the average or is a gap. *)
LEMMA NoteIntervalAccounts ==
  ASSUME NEW t \in Tally, Bounded(t), NEW iv \in Nat, iv > 0, NEW m, m = NoteInterval(t, iv)
  PROVE  Joined(t, iv, m)
<1>1. /\ t.count \in Nat /\ t.iv \in Nat /\ t.sum \in Nat /\ t.min \in Nat /\ t.max \in Nat
      /\ t.gaps \in Nat
  BY DEF Tally
<1>2. t = [count |-> t.count, iv |-> t.iv, sum |-> t.sum, min |-> t.min, max |-> t.max,
           gaps |-> t.gaps]
  BY DEF Tally
<1>5. m \in Tally
  BY NoteIntervalFacts
<1>3. CASE iv > RATE_GAP
  <2>1. m = [count |-> t.count, iv |-> t.iv, sum |-> t.sum, min |-> t.min,
             max |-> t.max, gaps |-> t.gaps + 1]
    BY <1>2, <1>3 DEF NoteInterval
  <2>2. Bounded(m)
    BY <2>1 DEF Bounded
  <2>. QED BY <1>1, <1>3, <1>5, <2>1, <2>2 DEF Joined
<1>4. CASE ~(iv > RATE_GAP)
  <2>. PICK lo : lo = IF t.min = 0 \/ iv < t.min THEN iv ELSE t.min
    OBVIOUS
  <2>. PICK hi : hi = IF iv > t.max THEN iv ELSE t.max
    OBVIOUS
  <2>1. m = [t EXCEPT !.iv = t.iv + 1, !.sum = t.sum + iv, !.min = lo, !.max = hi]
    BY <1>4, Zenon DEF NoteInterval
  <2>2. Between(t.iv, t.sum, t.min, t.max)
    BY DEF Bounded
  <2>3. Between(t.iv + 1, t.sum + iv, lo, hi)
    BY <1>1, <2>2, Extremes
  <2>4. hi <= RATE_GAP
    BY <1>4, <1>1, RateAssumption DEF Bounded, RateAssumption
  <2>5. m = [count |-> t.count, iv |-> t.iv + 1, sum |-> t.sum + iv, min |-> lo,
             max |-> hi, gaps |-> t.gaps]
    BY <1>2, <2>1
  <2>6. Bounded(m)
    BY <2>3, <2>4, <2>5 DEF Bounded
  <2>7. lo <= iv /\ iv <= hi /\ t.max <= hi
    BY <1>1
  <2>8. t.iv > 0 => lo <= t.min
    BY <1>1, <2>2 DEF Between
  <2>. QED BY <1>1, <1>4, <1>5, <2>5, <2>6, <2>7, <2>8 DEF Joined
<1>. QED BY <1>3, <1>4

(* rate_on_in: a report is counted, with its interval to the report before; *)
(* a failed transfer changes neither.                                      *)
LEMMA RateOnInAccounts ==
  ASSUME NEW s \in Slot, NEW ok \in BOOLEAN, NEW ts \in Times, NEW q \in Seq(Times), NEW r,
         r = IF ok THEN Append(q, ts) ELSE q, Accounted(s, q)
  PROVE  Accounted(RateOnIn(s, ok, ts), r)
<1>1. s.total \in Tally /\ s.last_ts \in Nat /\ Bounded(s.total) /\ Counts(s.total, q)
  BY DEF Slot, Accounted
<1>2. PICK t : t = s.total
  OBVIOUS
<1>3. CASE ~ok
  <2>1. /\ RateOnIn(s, ok, ts).total = s.total /\ RateOnIn(s, ok, ts).last_ts = s.last_ts
    BY <1>3 DEF RateOnIn, Slot
  <2>. QED BY <1>3, <2>1 DEF Accounted
<1>4. CASE ok
  <2>1. PICK u : u = RateOnIn(s, ok, ts)
    OBVIOUS
  <2>2. u.total = Noted(s, t, ts) /\ u.last_ts = ts
    BY <1>2, <1>4, <2>1 DEF RateOnIn, Slot
  <2>3. PICK n : n = Len(q)
    OBVIOUS
  <2>4. n \in Nat /\ (q = << >> <=> n = 0)
    BY <2>3, LenProperties, EmptySeq
  <2>5. r = Append(q, ts)
    BY <1>4
  <2>6. r # << >> /\ r[Len(r)] = ts /\ Len(r) = n + 1
    BY <2>3, <2>4, <2>5, AppendProperties
  <2>7. /\ Cardinality(Gaps(q)) \in Nat /\ Cardinality(Steady(q)) \in Nat
        /\ \A j \in Steady(q) : Interval(r, j) = Interval(q, j)
        /\ n = 0 => Gaps(r) = {} /\ Steady(r) = {} /\ Gaps(q) = {} /\ Steady(q) = {}
        /\ n # 0 =>
             /\ q[n] \in Times /\ Interval(r, n) = ts - q[n]
             /\ Cardinality(Gaps(r)) =
                  Cardinality(Gaps(q)) + IF ts - q[n] > RATE_GAP THEN 1 ELSE 0
             /\ Cardinality(Steady(r)) =
                  Cardinality(Steady(q)) + IF ts - q[n] \in 1 .. RATE_GAP THEN 1 ELSE 0
             /\ Steady(r) = Steady(q) \cup IF ts - q[n] \in 1 .. RATE_GAP THEN {n} ELSE {}
    <3>1. OneMore(q, ts, r, n)
      BY <2>3, <2>5, OneMoreReport
    <3>. QED BY <3>1 DEF OneMore
  <2>8. /\ t \in Tally /\ t.count \in Nat /\ t.iv \in Nat /\ t.gaps \in Nat
        /\ t.min \in Nat /\ t.max \in Nat /\ Bounded(t)
    BY <1>1, <1>2 DEF Tally
  <2>9. /\ t.count = n /\ t.gaps = Cardinality(Gaps(q)) /\ t.iv = Cardinality(Steady(q))
        /\ \A j \in Steady(q) : t.min <= Interval(q, j) /\ Interval(q, j) <= t.max
    BY <1>1, <1>2, <2>3 DEF Counts
  <2>10. s.last_ts = IF n = 0 THEN 0 ELSE q[n]
    BY <2>3, <2>4 DEF Accounted
  <2>11. PICK v : v = Noted(s, t, ts)
    OBVIOUS
  <2>12. RATE_GAP \in Nat
    BY RateAssumption DEF RateAssumption
  <2>13. CASE n # 0 /\ ts > q[n]
    <3>1. PICK iv : iv = ts - q[n]
      OBVIOUS
    <3>2. iv \in Nat /\ iv > 0 /\ s.last_ts = q[n] /\ s.last_ts # 0
      BY <2>7, <2>10, <2>13, <3>1 DEF Times
    <3>3. PICK m : m = NoteInterval(t, iv)
      OBVIOUS
    <3>4. /\ m \in Tally /\ Bounded(m) /\ m.count = t.count
          /\ m.gaps = t.gaps + IF iv > RATE_GAP THEN 1 ELSE 0
          /\ m.iv = t.iv + IF iv > RATE_GAP THEN 0 ELSE 1
          /\ iv > RATE_GAP => m.min = t.min /\ m.max = t.max
          /\ ~(iv > RATE_GAP) => /\ m.min <= iv /\ iv <= m.max /\ t.max <= m.max
                                 /\ t.iv > 0 => m.min <= t.min
      <4>1. Joined(t, iv, m)
        BY <2>8, <3>2, <3>3, NoteIntervalAccounts
      <4>. QED BY <4>1 DEF Joined
    <3>5. v = [m EXCEPT !.count = @ + 1]
      BY <2>11, <2>13, <3>1, <3>2, <3>3 DEF Noted
    <3>6. /\ v.count = m.count + 1 /\ v.iv = m.iv /\ v.gaps = m.gaps /\ v.sum = m.sum
          /\ v.min = m.min /\ v.max = m.max
      BY <3>4, <3>5 DEF Tally
    <3>7. Bounded(v)
      BY <3>4, <3>6 DEF Bounded
    <3>8. v.count = Len(r)
      BY <2>6, <2>9, <3>4, <3>6
    <3>9. iv \in 1 .. RATE_GAP <=> ~(iv > RATE_GAP)
      BY <2>12, <3>2
    <3>10. v.gaps = Cardinality(Gaps(r)) /\ v.iv = Cardinality(Steady(r))
      BY <2>7, <2>9, <2>13, <3>1, <3>4, <3>6, <3>9
    <3>11. \A j \in Steady(r) : v.min <= Interval(r, j) /\ Interval(r, j) <= v.max
      <4>. SUFFICES ASSUME NEW j \in Steady(r)
                    PROVE  v.min <= Interval(r, j) /\ Interval(r, j) <= v.max
        OBVIOUS
      <4>1. CASE j \in Steady(q)
        <5>1. Interval(r, j) = Interval(q, j) /\ Interval(q, j) \in Int
          BY <2>7, <4>1 DEF Steady
        <5>2. t.min <= Interval(q, j) /\ Interval(q, j) <= t.max
          BY <2>9, <4>1
        <5>3. t.iv > 0
          <6>1. IsFiniteSet(Steady(q))
            <7>1. PICK below : below = 1 .. n - 1
              OBVIOUS
            <7>2. Steady(q) \in SUBSET below
              BY <2>3, <7>1 DEF Steady
            <7>3. IsFiniteSet(below)
              BY <2>4, <7>1, FS_Interval
            <7>. QED BY <7>2, <7>3, FS_Subset
          <6>2. Cardinality(Steady(q)) # 0
            BY <4>1, <6>1, FS_EmptySet
          <6>. QED BY <2>8, <2>9, <6>2
        <5>4. v.min <= t.min /\ t.max <= v.max
          BY <2>8, <3>4, <3>6, <5>3
        <5>5. v.min \in Nat /\ v.max \in Nat
          BY <3>4, <3>6 DEF Tally
        <5>. QED BY <2>8, <5>1, <5>2, <5>4, <5>5
      <4>2. CASE j \notin Steady(q)
        <5>1. j = n /\ iv \in 1 .. RATE_GAP
          BY <2>7, <2>13, <3>1, <4>2
        <5>. QED BY <2>7, <2>13, <3>1, <3>4, <3>6, <3>9, <5>1
      <4>. QED BY <4>1, <4>2
    <3>12. Counts(v, r)
      BY <3>8, <3>10, <3>11 DEF Counts
    <3>. QED BY <2>1, <2>2, <2>6, <2>11, <3>7, <3>12 DEF Accounted
  <2>14. CASE ~(n # 0 /\ ts > q[n])
    <3>1. ~(s.last_ts # 0 /\ ts > s.last_ts)
      BY <2>10, <2>14
    <3>2. v = [t EXCEPT !.count = @ + 1]
      BY <2>11, <3>1 DEF Noted
    <3>3. /\ v.count = t.count + 1 /\ v.iv = t.iv /\ v.gaps = t.gaps /\ v.sum = t.sum
          /\ v.min = t.min /\ v.max = t.max
      BY <2>8, <3>2 DEF Tally
    <3>4. Bounded(v)
      BY <2>8, <3>3 DEF Bounded
    <3>5. /\ Cardinality(Gaps(r)) = Cardinality(Gaps(q))
          /\ Cardinality(Steady(r)) = Cardinality(Steady(q)) /\ Steady(r) = Steady(q)
      <4>1. CASE n = 0
        BY <2>7, <4>1
      <4>2. CASE n # 0
        <5>1. q[n] \in Nat /\ ts \in Nat /\ ~(ts > q[n])
          BY <2>7, <2>14, <4>2 DEF Times
        <5>2. ~(ts - q[n] > RATE_GAP) /\ ts - q[n] \notin 1 .. RATE_GAP
          BY <2>12, <5>1
        <5>3. /\ Cardinality(Gaps(r)) = Cardinality(Gaps(q)) + 0
              /\ Cardinality(Steady(r)) = Cardinality(Steady(q)) + 0
          BY <2>7, <4>2, <5>2
        <5>4. Steady(r) = Steady(q)
          BY <2>7, <4>2, <5>2
        <5>. QED BY <2>7, <5>3, <5>4
      <4>. QED BY <4>1, <4>2
    <3>6. Counts(v, r)
      BY <2>6, <2>7, <2>9, <3>3, <3>5 DEF Counts
    <3>. QED BY <2>1, <2>2, <2>6, <2>11, <3>4, <3>6 DEF Accounted
  <2>. QED BY <2>13, <2>14
<1>. QED BY <1>3, <1>4

(* A slot is accounted for by its total and its last time stamp alone. *)
LEMMA AccountedAlike ==
  ASSUME NEW s, NEW t, NEW q, s.total = t.total, s.last_ts = t.last_ts, Accounted(t, q)
  PROVE  Accounted(s, q)
BY DEF Accounted

(* A rated record. *)
LEMMA RatedIntervals ==
  ASSUME HidInv, IntervalsInv, NEW e \in Endpoints, NEW in \in BOOLEAN, NEW ok \in BOOLEAN,
         NEW ts \in 1 .. MaxTs, HidOnEvent(e, in, ok, ts), Rated(e, in, ok, ts)
  PROVE  IntervalsInv'
<1>. DEFINE ss == SlotGet(e)
<1>1. PICK i \in DOMAIN ss : SlotsAfter(ss, i, e, ok, ts)
  BY RatedStep
<1>2. GoodSlots(slots) /\ (SlotOf(e) # {} \/ Len(slots) < RATE_SLOTS) /\ in
  BY DEF HidInv, HidTypeOK, GoodSlots, Rated
<1>3. /\ GoodSlots(ss) /\ DOMAIN slots \subseteq DOMAIN ss
      /\ \A j \in DOMAIN slots : ss[j] = slots[j]
      /\ \A j \in DOMAIN ss \ DOMAIN slots : SlotOf(e) = {} /\ ss[j] = NewSlot(e)
  BY <1>2, SlotGetFacts, RateAssumption
<1>. HIDE DEF ss
<1>4. heard \in [Endpoints -> Seq(Times)] /\ ts \in Times
  BY RateAssumption DEF HidInv, HistoriesOK, RateAssumption, Times
<1>5. \A j \in DOMAIN ss : ss[j] \in Slot /\ ss[j].ep \in Endpoints
  <2>1. \A j \in DOMAIN ss : ss[j] \in Slot
    BY <1>3, ElementOfSeq, LenProperties DEF GoodSlots
  <2>. QED BY <2>1 DEF Slot
<1>6. ASSUME NEW j \in DOMAIN ss PROVE Accounted(ss[j], heard[ss[j].ep])
  <2>1. CASE j \in DOMAIN slots
    BY <1>3, <2>1 DEF IntervalsInv
  <2>2. CASE j \notin DOMAIN slots
    <3>1. ss[j] = NewSlot(e) /\ SlotOf(e) = {}
      BY <1>3, <2>2
    <3>2. ss[j].ep = e /\ ss[j].total = NoTally /\ ss[j].last_ts = 0
      BY <3>1 DEF NewSlot
    <3>3. Bounded(NoTally)
      BY RateAssumption DEF Bounded, Between, NoTally, RateAssumption
    <3>4. heard[e] = << >>
      <4>1. Len(slots) # RATE_SLOTS
        BY <1>2, <3>1, LenProperties, RateAssumption DEF GoodSlots, RateAssumption, HidInv, HidTypeOK
      <4>. QED BY <3>1, <4>1 DEF HidInv, EveryReportInOneWindow
    <3>5. Gaps(<< >>) = {} /\ Steady(<< >>) = {}
      BY EmptySeq DEF Gaps, Steady
    <3>6. Counts(NoTally, << >>)
      BY <3>5, EmptySeq, FS_EmptySet DEF Counts, NoTally
    <3>. QED BY <3>2, <3>3, <3>4, <3>6 DEF Accounted
  <2>. QED BY <2>1, <2>2
<1>8. heard'[e] = IF ok THEN Append(heard[e], ts) ELSE heard[e]
  BY <1>2, HeardMore
<1>9. \A x \in Endpoints : x # e => heard'[x] = heard[x]
  BY HeardMore
<1>10. ss[i].ep = e
  BY <1>1 DEF SlotsAfter
<1>11. ASSUME NEW j \in DOMAIN ss PROVE Accounted(slots'[j], heard'[slots'[j].ep])
  <2>1. CASE j = i
    <3>1. PICK s \in Slot : s = ss[i]
      BY <1>5
    <3>2. PICK q \in Seq(Times) : q = heard[e]
      BY <1>4
    <3>3. PICK r : r = heard'[e]
      OBVIOUS
    <3>4. Accounted(s, q) /\ r = IF ok THEN Append(q, ts) ELSE q
      BY <1>6, <1>8, <1>10, <3>1, <3>2, <3>3
    <3>5. Accounted(RateOnIn(s, ok, ts), r)
      BY <1>4, <3>4, RateOnInAccounts
    <3>6. /\ slots'[j].ep = e /\ slots'[j].total = RateOnIn(s, ok, ts).total
          /\ slots'[j].last_ts = RateOnIn(s, ok, ts).last_ts
      BY <1>1, <1>10, <2>1, <3>1 DEF SlotsAfter
    <3>. QED BY <3>3, <3>5, <3>6, AccountedAlike
  <2>2. CASE j # i
    <3>1. /\ slots'[j].ep = ss[j].ep /\ slots'[j].total = ss[j].total
          /\ slots'[j].last_ts = ss[j].last_ts
      BY <1>1, <2>2 DEF SlotsAfter
    <3>2. ss[j].ep # e
      BY <1>3, <1>10, <2>2 DEF GoodSlots
    <3>3. heard'[ss[j].ep] = heard[ss[j].ep]
      BY <1>5, <1>9, <3>2
    <3>. QED BY <1>6, <3>1, <3>3, AccountedAlike
  <2>. QED BY <2>1, <2>2
<1>13. DOMAIN slots' = DOMAIN ss
  BY <1>1 DEF SlotsAfter
<1>. QED BY <1>11, <1>13 DEF IntervalsInv

(* Every record and the end of the session account for every interval. *)
LEMMA IntervalsStep == HidInv /\ IntervalsInv /\ [HidNext]_hidVars => IntervalsInv'
<1>. SUFFICES ASSUME HidInv, IntervalsInv, [HidNext]_hidVars PROVE IntervalsInv'
  OBVIOUS
<1>1. CASE UNCHANGED <<slots, heard>>
  BY <1>1 DEF IntervalsInv
<1>2. ASSUME NEW e \in Endpoints, NEW in \in BOOLEAN, NEW ok \in BOOLEAN, NEW ts \in 1 .. MaxTs,
             HidOnEvent(e, in, ok, ts)
      PROVE  IntervalsInv'
  <2>1. Unrated(e, in, ok, ts) \/ Rated(e, in, ok, ts)
    BY <1>2 DEF HidOnEvent
  <2>2. CASE Unrated(e, in, ok, ts)
    <3>1. slots' = slots
      BY <2>2 DEF Unrated
    <3>2. \A i \in DOMAIN slots : heard'[slots[i].ep] = heard[slots[i].ep]
      <4>. SUFFICES ASSUME NEW i \in DOMAIN slots PROVE heard'[slots[i].ep] = heard[slots[i].ep]
        OBVIOUS
      <4>1. slots[i] \in Slot
        BY ElementOfSeq, LenProperties DEF HidInv, HidTypeOK
      <4>2. slots[i].ep \in Endpoints
        BY <4>1 DEF Slot
      <4>3. in => slots[i].ep # e
        BY <2>2 DEF Unrated, SlotOf
      <4>. QED BY <1>2, <4>2, <4>3, HeardMore
    <3>. QED BY <3>1, <3>2 DEF IntervalsInv
  <2>3. CASE Rated(e, in, ok, ts)
    BY <1>2, <2>3, RatedIntervals
  <2>. QED BY <2>1, <2>2, <2>3
<1>3. CASE HidOnStop
  <2>1. /\ heard' = heard /\ DOMAIN slots' = DOMAIN slots
        /\ \A i \in DOMAIN slots :
             /\ slots'[i].ep = slots[i].ep
             /\ slots'[i].total = slots[i].total /\ slots'[i].last_ts = slots[i].last_ts
    BY <1>3, StopStep
  <2>2. \A i \in DOMAIN slots : Accounted(slots'[i], heard[slots[i].ep])
    BY <2>1, AccountedAlike DEF IntervalsInv
  <2>. QED BY <2>1, <2>2 DEF IntervalsInv
<1>4. CASE UNCHANGED hidVars
  BY <1>1, <1>4 DEF hidVars
<1>. QED BY <1>2, <1>3, <1>4 DEF HidNext

(* hid.c: the totals of an endpoint's slot are those of the times between   *)
(* its successive successful reports, for every gap limit, every window,    *)
(* every order of the records and whatever transfers failed in between.    *)
THEOREM IntervalsAccounted == HidSpec => []EveryIntervalAccounted
<1>1. HidInit => IntervalsInv
  BY EmptySeq DEF HidInit, IntervalsInv
<1>2. HidInv /\ IntervalsInv => EveryIntervalAccounted
  BY DEF IntervalsInv, Accounted, Counts, Bounded, Between, EveryIntervalAccounted
<1>. QED BY <1>1, <1>2, HidInvariant, IntervalsStep, PTL DEF HidSpec

(***************************************************************************)
(* Drop causes and sequence gaps (UvcDriver).                              *)
(***************************************************************************)

Distinct(q) == \A i, j \in DOMAIN q : q[i] = q[j] => i = j

\* A buffer is in the driver's queue once, or its data is copied, or neither.
BuffersOnce ==
  /\ irqqueue \in Seq(Buffers) /\ Distinct(irqqueue)
  /\ copying \subseteq Buffers /\ IsFiniteSet(copying)
  /\ copying \cap Range(irqqueue) = {}

\* A frame that was received is still copied before it is dropped.
DroppedWasReceived ==
  /\ drvstats \in [received: Nat, dropped: Nat]
  /\ drvstats.dropped + Cardinality(copying) <= drvstats.received

CauseOK ==
  /\ drv_drop_cause \subseteq Buffers /\ IsFiniteSet(drv_drop_cause)
  /\ Cardinality(drv_drop_cause) <= CAUSE_ENTRIES

\* A tag comes from a loss or is stale; a loss of the buffer's own left its tag or
\* found the map full.
TagsExplained ==
  \A b \in Buffers :
    /\ b \in drv_drop_cause => blame[b] \cap {"own", "spilled", "stale"} # {}
    /\ "own" \in blame[b] => b \in drv_drop_cause \/ "full" \in blame[b]

\* What made a frame erroneous; only a frame that has ended is short.
ErrorsExplained ==
  \A b \in Buffers :
    /\ buf[b].error => \/ blame[b] \cap {"own", "other", "inherited"} # {}
                       \/ buf[b].short /\ ~camera.compressed
    /\ buf[b].short => b \in copying

Camera == [dropping: BOOLEAN, compressed: BOOLEAN, frames: Nat, faults: Nat, streams: Nat,
           on: BOOLEAN]

Numbers ==
  /\ sequence \in Nat
  /\ buf \in [Buffers -> [seq: Nat, error: BOOLEAN, short: BOOLEAN]]
  /\ blame \in [Buffers -> SUBSET Blames]
  /\ camera \in Camera
  /\ last_sequence \in Nat \cup {NoSeq}

\* What has been seen of a stream begins with a number that was noted.
SeenIsNoted ==
  /\ seq_gaps \in {0, 1}
  /\ seen \in [first: Nat \cup {NoSeq}, accounted: SUBSET Nat]
  /\ seen.first # NoSeq => last_sequence # NoSeq

DriverInv ==
  /\ BuffersOnce /\ DroppedWasReceived /\ CauseOK /\ TagsExplained /\ ErrorsExplained
  /\ Numbers /\ SeenIsNoted /\ NoGapMeansNoLoss /\ DropBlamesTheLoss

-----------------------------------------------------------------------------
(* The queue. *)

\* Taking the head off leaves the others, in their order.
LEMMA TailFacts ==
  ASSUME BuffersOnce, irqqueue # << >>
  PROVE  /\ irqqueue[1] \in Buffers /\ irqqueue[1] \in Range(irqqueue)
         /\ Tail(irqqueue) \in Seq(Buffers) /\ Distinct(Tail(irqqueue))
         /\ Range(Tail(irqqueue)) \subseteq Range(irqqueue) \ {irqqueue[1]}
<1>. DEFINE q == irqqueue
            t == Tail(irqqueue)
<1>1. q \in Seq(Buffers) /\ Distinct(q)
  BY DEF BuffersOnce
<1>2. Len(q) \in Nat \ {0} /\ DOMAIN q = 1 .. Len(q)
  BY <1>1, EmptySeq, LenProperties
<1>3. t \in Seq(Buffers) /\ Len(t) = Len(q) - 1 /\ \A i \in 1 .. Len(t) : t[i] = q[i + 1]
  BY <1>1, HeadTailProperties
<1>4. DOMAIN t = 1 .. Len(q) - 1
  BY <1>3, LenProperties
<1>5. \A i \in DOMAIN t : t[i] = q[i + 1] /\ i + 1 \in DOMAIN q /\ i + 1 # 1 /\ i \in Int
  BY <1>2, <1>3, <1>4
<1>6. 1 \in DOMAIN q
  BY <1>2
<1>7. q[1] \in Buffers
  BY <1>1, <1>2, <1>6, ElementOfSeq
<1>8. Distinct(t)
  <2>. SUFFICES ASSUME NEW i \in DOMAIN t, NEW j \in DOMAIN t, t[i] = t[j] PROVE i = j
    BY DEF Distinct
  <2>1. i + 1 = j + 1
    BY <1>1, <1>5 DEF Distinct
  <2>. QED BY <1>5, <2>1
<1>9. Range(t) \subseteq Range(q) \ {q[1]}
  <2>. SUFFICES ASSUME NEW i \in DOMAIN t PROVE t[i] \in Range(q) /\ t[i] # q[1]
    BY DEF Range
  <2>. QED BY <1>1, <1>5, <1>6 DEF Range, Distinct
<1>. QED BY <1>3, <1>6, <1>7, <1>8, <1>9 DEF Range

\* Queueing a buffer that is not there.
LEMMA AppendFacts ==
  ASSUME BuffersOnce, NEW b \in Buffers, b \notin Range(irqqueue)
  PROVE  /\ Append(irqqueue, b) \in Seq(Buffers) /\ Distinct(Append(irqqueue, b))
         /\ Range(Append(irqqueue, b)) = Range(irqqueue) \cup {b}
<1>. DEFINE q == irqqueue
            a == Append(irqqueue, b)
<1>1. q \in Seq(Buffers) /\ Distinct(q)
  BY DEF BuffersOnce
<1>2. Len(q) \in Nat /\ DOMAIN q = 1 .. Len(q)
  BY <1>1, LenProperties
<1>3. a \in Seq(Buffers) /\ Len(a) = Len(q) + 1
      /\ a[Len(q) + 1] = b /\ \A i \in 1 .. Len(q) : a[i] = q[i]
  BY <1>1, AppendProperties
<1>4. DOMAIN a = DOMAIN q \cup {Len(q) + 1} /\ Len(q) + 1 \notin DOMAIN q
  <2>1. DOMAIN a = 1 .. Len(q) + 1
    BY <1>3, LenProperties
  <2>. QED BY <1>2, <2>1
<1>5. \A i \in DOMAIN q : q[i] # b
  BY DEF Range
<1>6. Distinct(a)
  BY <1>1, <1>2, <1>3, <1>4, <1>5 DEF Distinct
<1>7. Range(a) = Range(q) \cup {b}
  BY <1>2, <1>3, <1>4 DEF Range
<1>. QED BY <1>3, <1>6, <1>7

\* A queue without repetition has as many buffers as entries.
LEMMA DistinctCount ==
  ASSUME NEW q \in Seq(Buffers), Distinct(q)
  PROVE  Cardinality(Range(q)) = Len(q)
<1>1. Len(q) \in Nat /\ DOMAIN q = 1 .. Len(q) /\ q \in [1 .. Len(q) -> Buffers]
  BY LenProperties
<1>2. q \in [1 .. Len(q) -> Range(q)]
  BY <1>1 DEF Range
<1>3. q \in Bijection(1 .. Len(q), Range(q))
  BY <1>1, <1>2 DEF Range, Distinct, Bijection, Injection, Surjection, IsInjective
<1>4. ExistsBijection(1 .. Len(q), Range(q))
  BY <1>3 DEF ExistsBijection
<1>. QED BY <1>1, <1>4, FS_CountingElements

-----------------------------------------------------------------------------
(* The tags and the sequence numbers. *)

\* Frames, faults and streams are counted, and the stream goes on and off; the
\* format stays.
SameFormat(c) == c \in Camera /\ c.compressed = camera.compressed

\* None of the driver's steps changes the format.
LEMMA CameraFacts ==
  ASSUME camera \in Camera, NEW i \in Nat, NEW j \in Nat, NEW on \in BOOLEAN
  PROVE  /\ SameFormat([camera EXCEPT !.faults = j])
         /\ SameFormat([camera EXCEPT !.frames = i, !.faults = j])
         /\ SameFormat([camera EXCEPT !.on = on])
         /\ SameFormat([camera EXCEPT !.on = on, !.streams = i])
<1>. DEFINE R(f, t, s, o) == [dropping |-> camera.dropping, compressed |-> camera.compressed,
                              frames |-> f, faults |-> t, streams |-> s, on |-> o]
<1>1. /\ camera = R(camera.frames, camera.faults, camera.streams, camera.on)
      /\ camera.dropping \in BOOLEAN /\ camera.compressed \in BOOLEAN /\ camera.on \in BOOLEAN
      /\ camera.frames \in Nat /\ camera.faults \in Nat /\ camera.streams \in Nat
  BY DEF Camera
<1>2. \A f, t, s \in Nat, o \in BOOLEAN : SameFormat(R(f, t, s, o))
  BY <1>1 DEF SameFormat, Camera
<1>3. [camera EXCEPT !.faults = j] = R(camera.frames, j, camera.streams, camera.on)
  BY <1>1
<1>4. [camera EXCEPT !.frames = i, !.faults = j] = R(i, j, camera.streams, camera.on)
  <2>1. [camera EXCEPT !.frames = i] = R(i, camera.faults, camera.streams, camera.on)
    BY <1>1
  <2>2. [R(i, camera.faults, camera.streams, camera.on) EXCEPT !.faults = j]
          = R(i, j, camera.streams, camera.on)
    OBVIOUS
  <2>3. [camera EXCEPT !.frames = i, !.faults = j] = [[camera EXCEPT !.frames = i] EXCEPT !.faults = j]
    <3>1. DOMAIN camera = DOMAIN [camera EXCEPT !.frames = i]
      OBVIOUS
    <3>. QED BY <3>1, Zenon
  <2>. HIDE DEF R
  <2>. QED BY <2>1, <2>2, <2>3
<1>5. [camera EXCEPT !.on = on] = R(camera.frames, camera.faults, camera.streams, on)
  BY <1>1
<1>6. [camera EXCEPT !.on = on, !.streams = i] = R(camera.frames, camera.faults, i, on)
  <2>1. [camera EXCEPT !.on = on] = R(camera.frames, camera.faults, camera.streams, on)
    BY <1>5
  <2>2. [R(camera.frames, camera.faults, camera.streams, on) EXCEPT !.streams = i]
          = R(camera.frames, camera.faults, i, on)
    OBVIOUS
  <2>3. [camera EXCEPT !.on = on, !.streams = i] = [[camera EXCEPT !.on = on] EXCEPT !.streams = i]
    OBVIOUS
  <2>. HIDE DEF R
  <2>. QED BY <2>1, <2>2, <2>3
<1>. HIDE DEF R
<1>. QED BY <1>1, <1>2, <1>3, <1>4, <1>5, <1>6

\* A decoded URB tags its buffer when it lost a packet and there is room.
LEMMA TagFacts ==
  ASSUME CauseOK, NEW b \in Buffers, NEW faults, TagIfLost(b, faults)
  PROVE  /\ CauseOK'
         /\ drv_drop_cause \subseteq drv_drop_cause'
         /\ drv_drop_cause' \subseteq drv_drop_cause \cup {b}
         /\ "loss" \notin faults => drv_drop_cause' = drv_drop_cause
         /\ "loss" \in faults => b \in drv_drop_cause' \/ "full" \in NoRoom(b, faults)
<1>1. drv_drop_cause' = IF "loss" \in faults THEN CauseAdd(b) ELSE drv_drop_cause
  BY DEF TagIfLost
<1>2. /\ drv_drop_cause \subseteq CauseAdd(b) /\ CauseAdd(b) \subseteq drv_drop_cause \cup {b}
      /\ IsFiniteSet(CauseAdd(b)) /\ Cardinality(CauseAdd(b)) <= CAUSE_ENTRIES
  <2>1. CASE Cardinality(drv_drop_cause) < CAUSE_ENTRIES
    <3>. DEFINE n == Cardinality(drv_drop_cause)
    <3>3. IsFiniteSet(drv_drop_cause) /\ n \in Nat
      BY FS_CardinalityType DEF CauseOK
    <3>4. /\ IsFiniteSet(drv_drop_cause \cup {b})
          /\ Cardinality(drv_drop_cause \cup {b}) = IF b \in drv_drop_cause THEN n ELSE n + 1
      BY <3>3, FS_AddElement
    <3>1. IsFiniteSet(drv_drop_cause \cup {b}) /\ Cardinality(drv_drop_cause \cup {b}) <= n + 1
      <4>. HIDE DEF n
      <4>. QED BY <3>3, <3>4
    <3>2. Cardinality(drv_drop_cause \cup {b}) \in Nat
      BY <3>1, FS_CardinalityType
    <3>. QED BY <2>1, <3>1, <3>2, <3>3, DriverAssumption DEF CauseAdd, DriverAssumption
  <2>2. CASE ~(Cardinality(drv_drop_cause) < CAUSE_ENTRIES)
    BY <2>2 DEF CauseAdd, CauseOK
  <2>. QED BY <2>1, <2>2
<1>3. CauseOK'
  BY <1>1, <1>2 DEF CauseOK
<1>4. "loss" \in faults => b \in drv_drop_cause' \/ "full" \in NoRoom(b, faults)
  BY <1>1 DEF NoRoom
<1>. QED BY <1>1, <1>2, <1>3, <1>4

\* A URB brings at most a loss and another fault.
LEMMA FaultsFinite == \A f \in SUBSET Faults : Cardinality(f) \in Nat
<1>1. IsFiniteSet({"loss"})
  BY FS_EmptySet, FS_Singleton
<1>2. IsFiniteSet({"loss"} \cup {"other"})
  BY <1>1, FS_AddElement
<1>3. IsFiniteSet(Faults)
  <2>1. Faults = {"loss"} \cup {"other"}
    BY DEF Faults
  <2>. QED BY <1>2, <2>1
<1>. QED BY <1>3, FS_Subset, FS_CardinalityType

\* What the history keeps of the faults of a URB.
LEMMA ChargedFacts ==
  ASSUME NEW faults \in SUBSET Faults, NEW loss \in {"own", "spilled", "inherited"}
  PROVE  /\ Charged(faults, loss) \subseteq {"other", loss}
         /\ loss \in Charged(faults, loss) <=> "loss" \in faults
         /\ faults # {} => Charged(faults, loss) # {}
<1>1. CASE "loss" \in faults
  BY <1>1 DEF Charged, Faults
<1>2. CASE "loss" \notin faults
  BY <1>2 DEF Charged, Faults
<1>. QED BY <1>1, <1>2

\* The tag of a buffer whose data is copied goes with it.
LEMMA UntaggedFacts ==
  ASSUME CauseOK, TagsExplained, Numbers, BuffersOnce, NEW b \in copying, Untagged(b)
  PROVE  /\ CauseOK' /\ TagsExplained'
         /\ blame' \in [Buffers -> SUBSET Blames]
         /\ \A c \in Buffers : c # b => blame'[c] = blame[c]
         /\ copying' = copying \ {b} /\ IsFiniteSet(copying')
         /\ Cardinality(copying') = Cardinality(copying) - 1
<1>1. /\ drv_drop_cause' = drv_drop_cause \ {b} /\ copying' = copying \ {b}
      /\ blame' = [blame EXCEPT ![b] = {}]
  BY DEF Untagged, CauseTaken
<1>2. b \in Buffers
  BY DEF BuffersOnce
<1>3. CauseOK'
  <2>1. IsFiniteSet(drv_drop_cause') /\ Cardinality(drv_drop_cause') <= Cardinality(drv_drop_cause)
    BY <1>1, FS_Subset DEF CauseOK
  <2>2. Cardinality(drv_drop_cause') \in Nat /\ Cardinality(drv_drop_cause) \in Nat
    BY <2>1, FS_CardinalityType DEF CauseOK
  <2>. QED BY <1>1, <2>1, <2>2, DriverAssumption DEF CauseOK, DriverAssumption
<1>4. TagsExplained' /\ blame' \in [Buffers -> SUBSET Blames]
      /\ \A c \in Buffers : c # b => blame'[c] = blame[c]
  <2>1. \A c \in Buffers : blame'[c] = IF c = b THEN {} ELSE blame[c]
    BY <1>1, <1>2 DEF Numbers
  <2>2. blame' \in [Buffers -> SUBSET Blames]
    BY <1>1, <1>2 DEF Numbers
  <2>3. \A c \in Buffers : c \in drv_drop_cause' => c \in drv_drop_cause /\ c # b
    BY <1>1
  <2>4. \A c \in Buffers : c # b => (c \in drv_drop_cause' <=> c \in drv_drop_cause)
    BY <1>1
  <2>. QED BY <2>1, <2>2, <2>3, <2>4 DEF TagsExplained
<1>5. IsFiniteSet(copying') /\ Cardinality(copying') = Cardinality(copying) - 1
  BY <1>1, FS_RemoveElement DEF BuffersOnce
<1>. QED BY <1>1, <1>3, <1>4, <1>5

\* vb2_seq_gap and the tally: a number noted without a gap continues the stream.
LEMMA VbDoneFacts ==
  ASSUME SeenIsNoted, NoGapMeansNoLoss, Numbers,
         NEW b \in Buffers, NEW ignored \in BOOLEAN, VbDone(b, ignored)
  PROVE  SeenIsNoted' /\ NoGapMeansNoLoss' /\ last_sequence' \in Nat \cup {NoSeq}
<1>. DEFINE seq == buf[b].seq
            gap == ~ignored /\ last_sequence # NoSeq /\ SeqGap(last_sequence, seq)
<1>1. seq \in Nat
  BY DEF Numbers
<1>2. /\ last_sequence' = IF ignored THEN last_sequence ELSE seq
      /\ seq_gaps' = IF gap THEN 1 ELSE seq_gaps
      /\ seen' = IF seq_gaps' > 0 THEN NothingSeen
                 ELSE [first |-> IF seen.first = NoSeq /\ ~ignored THEN seq ELSE seen.first,
                       accounted |-> seen.accounted \cup {seq}]
  BY DEF VbDone, TallyVb2
<1>3. seq_gaps' \in {0, 1} /\ last_sequence' \in Nat \cup {NoSeq}
  BY <1>1, <1>2 DEF SeenIsNoted, Numbers
<1>4. CASE seq_gaps' > 0
  BY <1>2, <1>3, <1>4 DEF SeenIsNoted, NoGapMeansNoLoss, NothingSeen
<1>5. CASE ~(seq_gaps' > 0)
  <2>1. seq_gaps' = 0 /\ seq_gaps = 0 /\ ~gap
    BY <1>2, <1>3, <1>5 DEF SeenIsNoted
  <2>2. /\ seen'.first = IF seen.first = NoSeq /\ ~ignored THEN seq ELSE seen.first
        /\ seen'.accounted = seen.accounted \cup {seq}
        /\ seen' \in [first: Nat \cup {NoSeq}, accounted: SUBSET Nat]
    BY <1>1, <1>2, <1>5 DEF SeenIsNoted
  <2>3. seen.first \in Nat \cup {NoSeq} /\ last_sequence \in Nat \cup {NoSeq}
    BY DEF SeenIsNoted, Numbers
  <2>4. seen'.first # NoSeq => last_sequence' # NoSeq
    BY <1>1, <1>2, <2>2 DEF SeenIsNoted, NoSeq
  <2>5. seen'.first # NoSeq => seen'.first .. last_sequence' \subseteq seen'.accounted
    <3>1. CASE ignored
      BY <1>2, <2>1, <2>2, <3>1 DEF NoGapMeansNoLoss
    <3>2. CASE ~ignored /\ seen.first = NoSeq
      BY <1>1, <1>2, <2>2, <3>2
    <3>3. CASE ~ignored /\ seen.first # NoSeq
      <4>1. last_sequence \in Nat /\ seen.first \in Nat
        BY <2>3, <3>3 DEF SeenIsNoted
      <4>2. seq = last_sequence \/ seq = last_sequence + 1
        BY <2>1, <3>3, <4>1 DEF SeqGap, NoSeq
      <4>3. seen.first .. last_sequence \subseteq seen.accounted
        BY <2>1, <3>3 DEF NoGapMeansNoLoss
      <4>4. seen.first .. seq \subseteq (seen.first .. last_sequence) \cup {seq}
        BY <4>1, <4>2
      <4>5. seen'.first = seen.first /\ last_sequence' = seq
        BY <1>2, <2>2, <3>3
      <4>. QED BY <2>2, <4>3, <4>4, <4>5
    <3>. QED BY <3>1, <3>2, <3>3
  <2>. QED BY <1>3, <2>1, <2>2, <2>4, <2>5 DEF SeenIsNoted, NoGapMeansNoLoss
<1>. QED BY <1>3, <1>4, <1>5

-----------------------------------------------------------------------------
(* The inductive invariant. *)

(* Every session of the driver starts in the invariant. *)
THEOREM DriverStart == DriverInit => DriverInv
<1>. SUFFICES ASSUME DriverInit PROVE DriverInv
  OBVIOUS
<1>1. BuffersOnce /\ DroppedWasReceived /\ CauseOK
  BY EmptySeq, FS_EmptySet, DriverAssumption
     DEF DriverInit, BuffersOnce, DroppedWasReceived, CauseOK, Distinct, Range, DriverAssumption
<1>2. TagsExplained /\ ErrorsExplained /\ Numbers
  <2>1. camera \in Camera
    <3>1. camera \in [dropping: BOOLEAN, compressed: BOOLEAN, frames: {0}, faults: {0},
                      streams: {1}, on: {TRUE}]
      BY DEF DriverInit
    <3>2. PICK d, c \in BOOLEAN :
            camera = [dropping |-> d, compressed |-> c, frames |-> 0, faults |-> 0,
                      streams |-> 1, on |-> TRUE]
      BY <3>1
    <3>. QED BY <3>2 DEF Camera
  <2>2. /\ sequence = 0 /\ buf = [b \in Buffers |-> Empty] /\ drv_drop_cause = {}
        /\ last_sequence = NoSeq /\ blame = [b \in Buffers |-> {}]
    BY DEF DriverInit
  <2>. QED BY <2>1, <2>2 DEF TagsExplained, ErrorsExplained, Numbers, Empty, Blames
<1>3. SeenIsNoted /\ NoGapMeansNoLoss /\ DropBlamesTheLoss
  BY DEF DriverInit, SeenIsNoted, NoGapMeansNoLoss, DropBlamesTheLoss, NothingSeen
<1>. QED BY <1>1, <1>2, <1>3 DEF DriverInv

\* A URB that ends no frame.
LEMMA DecodePartStep ==
  ASSUME DriverInv, last_sequence' = last_sequence, NEW faults \in SUBSET Faults,
         DecodePart(faults)
  PROVE  /\ BuffersOnce' /\ DroppedWasReceived' /\ CauseOK' /\ TagsExplained'
         /\ ErrorsExplained' /\ Numbers'
<1>. DEFINE b == irqqueue[1]
            e == buf[b].error \/ faults # {}
            more == Charged(faults, "own") \cup NoRoom(b, faults)
<1>1. /\ irqqueue # << >> /\ TagIfLost(b, faults)
      /\ camera' = [camera EXCEPT !.faults = @ + Cardinality(faults)]
      /\ buf' = [buf EXCEPT ![b].error = @ \/ faults # {}, ![b].seq = sequence]
      /\ blame' = [blame EXCEPT ![b] = @ \cup Charged(faults, "own") \cup NoRoom(b, faults)]
      /\ UNCHANGED <<irqqueue, copying, sequence, drvstats>>
  BY DEF DecodePart
<1>2. b \in Buffers
  BY <1>1, TailFacts DEF DriverInv
<1>3. /\ CauseOK' /\ drv_drop_cause \subseteq drv_drop_cause'
      /\ drv_drop_cause' \subseteq drv_drop_cause \cup {b}
      /\ "loss" \notin faults => drv_drop_cause' = drv_drop_cause
      /\ "loss" \in faults => b \in drv_drop_cause' \/ "full" \in NoRoom(b, faults)
  <2>. HIDE DEF b
  <2>. QED BY <1>1, <1>2, TagFacts DEF DriverInv
<1>4. /\ Charged(faults, "own") \subseteq {"other", "own"}
      /\ "own" \in Charged(faults, "own") <=> "loss" \in faults
      /\ faults # {} => Charged(faults, "own") # {}
  BY ChargedFacts
<1>5. NoRoom(b, faults) \subseteq {"full"}
  BY DEF NoRoom
<1>6. Cardinality(faults) \in Nat
  BY FaultsFinite
<1>7. camera' \in Camera /\ camera'.compressed = camera.compressed
  <2>1. camera \in Camera /\ camera.frames \in Nat /\ camera.faults \in Nat
    BY DEF DriverInv, Numbers, Camera
  <2>2. PICK j \in Nat : j = camera.faults + Cardinality(faults)
    BY <1>6, <2>1
  <2>3. camera' = [camera EXCEPT !.faults = j]
    BY <1>1, <2>2
  <2>. QED BY <2>1, <2>3, CameraFacts DEF SameFormat
<1>8. \A c \in Buffers : blame'[c] = IF c = b THEN blame[b] \cup more ELSE blame[c]
  <2>1. blame' = [blame EXCEPT ![b] = blame[b] \cup more]
    BY <1>1
  <2>. HIDE DEF b, more
  <2>. QED BY <1>2, <2>1 DEF DriverInv, Numbers
<1>9. blame' \in [Buffers -> SUBSET Blames]
  <2>1. blame' = [blame EXCEPT ![b] = blame[b] \cup more]
    BY <1>1
  <2>2. more \subseteq Blames
    BY <1>4, <1>5 DEF Blames
  <2>. HIDE DEF b, more
  <2>. QED BY <1>2, <2>1, <2>2 DEF DriverInv, Numbers
<1>10. /\ buf' \in [Buffers -> [seq: Nat, error: BOOLEAN, short: BOOLEAN]]
       /\ \A c \in Buffers : /\ buf'[c].short = buf[c].short
                             /\ c = b => (buf'[c].error <=> e)
                             /\ c # b => buf'[c] = buf[c]
  <2>1. e \in BOOLEAN /\ buf[b] \in [seq: Nat, error: BOOLEAN, short: BOOLEAN] /\ sequence \in Nat
    BY <1>2 DEF DriverInv, Numbers
  <2>2. buf' = [buf EXCEPT ![b] = [buf[b] EXCEPT !.error = e, !.seq = sequence]]
    BY <1>1, <1>2 DEF DriverInv, Numbers
  <2>. HIDE DEF e
  <2>3. /\ [buf[b] EXCEPT !.error = e, !.seq = sequence] \in [seq: Nat, error: BOOLEAN, short: BOOLEAN]
        /\ [buf[b] EXCEPT !.error = e, !.seq = sequence].error = e
        /\ [buf[b] EXCEPT !.error = e, !.seq = sequence].short = buf[b].short
    BY <2>1
  <2>. HIDE DEF b
  <2>. QED BY <1>2, <2>2, <2>3 DEF DriverInv, Numbers
<1>. HIDE DEF b
<1>11. TagsExplained'
  <2>. SUFFICES ASSUME NEW c \in Buffers
                PROVE  /\ c \in drv_drop_cause' => blame'[c] \cap {"own", "spilled", "stale"} # {}
                       /\ "own" \in blame'[c] => c \in drv_drop_cause' \/ "full" \in blame'[c]
    BY DEF TagsExplained
  <2>1. /\ c \in drv_drop_cause => blame[c] \cap {"own", "spilled", "stale"} # {}
        /\ "own" \in blame[c] => c \in drv_drop_cause \/ "full" \in blame[c]
    BY DEF DriverInv, TagsExplained
  <2>2. CASE c # b
    BY <1>3, <1>8, <2>1, <2>2
  <2>3. CASE c = b
    <3>1. CASE "loss" \in faults
      BY <1>3, <1>4, <1>8, <2>3, <3>1
    <3>2. CASE "loss" \notin faults
      BY <1>3, <1>4, <1>5, <1>8, <2>1, <2>3, <3>2
    <3>. QED BY <3>1, <3>2
  <2>. QED BY <2>2, <2>3
<1>12. ErrorsExplained'
  <2>. SUFFICES ASSUME NEW c \in Buffers
                PROVE  /\ buf'[c].error => \/ blame'[c] \cap {"own", "other", "inherited"} # {}
                                           \/ buf'[c].short /\ ~camera'.compressed
                       /\ buf'[c].short => c \in copying'
    BY DEF ErrorsExplained
  <2>1. /\ buf[c].error => \/ blame[c] \cap {"own", "other", "inherited"} # {}
                           \/ buf[c].short /\ ~camera.compressed
        /\ buf[c].short => c \in copying
    BY DEF DriverInv, ErrorsExplained
  <2>2. blame[c] \subseteq blame'[c]
    BY <1>8
  <2>3. buf'[c].short => c \in copying'
    BY <1>1, <1>10, <2>1
  <2>4. CASE c # b
    BY <1>7, <1>10, <2>1, <2>2, <2>3, <2>4
  <2>5. CASE c = b
    <3>1. CASE faults # {}
      <4>1. blame'[c] \cap {"own", "other", "inherited"} # {}
        BY <1>4, <1>8, <2>5, <3>1
      <4>. QED BY <2>3, <4>1
    <3>2. CASE faults = {}
      <4>1. buf'[c].error <=> buf[c].error
        BY <1>10, <2>5, <3>2
      <4>. QED BY <1>7, <1>10, <2>1, <2>2, <2>3, <4>1
    <3>. QED BY <3>1, <3>2
  <2>. QED BY <2>4, <2>5
<1>13. Numbers'
  BY <1>1, <1>7, <1>9, <1>10 DEF DriverInv, Numbers
<1>. QED BY <1>1, <1>3, <1>11, <1>12, <1>13 DEF DriverInv, BuffersOnce, DroppedWasReceived

\* A URB that ends the frame: its buffer leaves the queue to be copied.
LEMMA DecodeEndStep ==
  ASSUME DriverInv, last_sequence' = last_sequence,
         NEW head \in SUBSET Faults, NEW tail \in SUBSET Faults, NEW short \in BOOLEAN,
         DecodeEnd(head, tail, short)
  PROVE  /\ BuffersOnce' /\ DroppedWasReceived' /\ CauseOK' /\ TagsExplained'
         /\ ErrorsExplained' /\ Numbers'
<1>. DEFINE b      == irqqueue[1]
            next   == {irqqueue[i] : i \in DOMAIN irqqueue \cap {2}}
            n      == Cardinality(head) + Cardinality(tail)
            failed == buf[b].error \/ head # {} \/ (short /\ ~camera.compressed)
            filled == [seq |-> sequence, error |-> failed, short |-> short]
            mine   == Charged(head, "own") \cup Charged(tail \ {"other"}, "spilled")
                        \cup NoRoom(b, head \cup tail)
            theirs == Charged(tail, "inherited")
<1>1. /\ irqqueue # << >> /\ TagIfLost(b, head \cup tail)
      /\ buf' = [q \in Buffers |-> IF q = b THEN filled
                                   ELSE [buf[q] EXCEPT !.error = @ \/ (tail # {} /\ q \in next)]]
      /\ blame' = [q \in Buffers |-> blame[q] \cup
                     IF q = b THEN mine ELSE IF q \in next THEN theirs ELSE {}]
      /\ irqqueue' = Tail(irqqueue) /\ copying' = copying \cup {b}
      /\ sequence' = sequence + 1
      /\ camera' = [camera EXCEPT !.frames = @ + 1, !.faults = @ + n]
      /\ drvstats' = [drvstats EXCEPT !["received"] = @ + 1]
  BY DEF DecodeEnd, FrameOver, TallyDrv
<1>2. /\ b \in Buffers /\ b \in Range(irqqueue)
      /\ Tail(irqqueue) \in Seq(Buffers) /\ Distinct(Tail(irqqueue))
      /\ Range(Tail(irqqueue)) \subseteq Range(irqqueue) \ {b}
  BY <1>1, TailFacts DEF DriverInv
<1>3. head \cup tail \in SUBSET Faults /\ tail \ {"other"} \in SUBSET Faults
  OBVIOUS
<1>4. /\ CauseOK' /\ drv_drop_cause \subseteq drv_drop_cause'
      /\ drv_drop_cause' \subseteq drv_drop_cause \cup {b}
      /\ "loss" \notin head \cup tail => drv_drop_cause' = drv_drop_cause
      /\ "loss" \in head \cup tail => b \in drv_drop_cause' \/ "full" \in NoRoom(b, head \cup tail)
  <2>. HIDE DEF b
  <2>. QED BY <1>1, <1>2, TagFacts DEF DriverInv
<1>5. /\ mine \subseteq {"other", "own", "spilled", "full"}
      /\ "own" \in mine <=> "loss" \in head
      /\ "loss" \in tail => "spilled" \in mine
      /\ head # {} => mine \cap {"own", "other"} # {}
      /\ NoRoom(b, head \cup tail) \subseteq mine
  <2>1. /\ Charged(head, "own") \subseteq {"other", "own"}
        /\ "own" \in Charged(head, "own") <=> "loss" \in head
        /\ head # {} => Charged(head, "own") # {}
    BY ChargedFacts
  <2>2. /\ Charged(tail \ {"other"}, "spilled") \subseteq {"other", "spilled"}
        /\ "spilled" \in Charged(tail \ {"other"}, "spilled") <=> "loss" \in tail \ {"other"}
    BY <1>3, ChargedFacts
  <2>3. NoRoom(b, head \cup tail) \subseteq {"full"}
    BY DEF NoRoom
  <2>. QED BY <2>1, <2>2, <2>3
<1>6. /\ theirs \subseteq {"other", "inherited"}
      /\ tail # {} => theirs # {}
  BY ChargedFacts
<1>7. n \in Nat
  <2>1. Cardinality(head) \in Nat /\ Cardinality(tail) \in Nat
    BY FaultsFinite
  <2>. QED BY <2>1
<1>8. failed \in BOOLEAN
  OBVIOUS
<1>9. camera' \in Camera /\ camera'.compressed = camera.compressed
  <2>. HIDE DEF n
  <2>1. camera \in Camera /\ camera.frames \in Nat /\ camera.faults \in Nat
    BY DEF DriverInv, Numbers, Camera
  <2>2. PICK i \in Nat, j \in Nat : i = camera.frames + 1 /\ j = camera.faults + n
    BY <1>7, <2>1
  <2>3. camera' = [camera EXCEPT !.frames = i, !.faults = j]
    BY <1>1, <2>2
  <2>. QED BY <2>1, <2>3, CameraFacts DEF SameFormat
<1>10. /\ blame' \in [Buffers -> SUBSET Blames]
       /\ \A c \in Buffers : /\ c = b => blame'[c] = blame[c] \cup mine
                             /\ c # b /\ c \in next => blame'[c] = blame[c] \cup theirs
                             /\ c # b /\ c \notin next => blame'[c] = blame[c]
  <2>1. mine \subseteq Blames /\ theirs \subseteq Blames
    BY <1>5, <1>6 DEF Blames
  <2>. HIDE DEF b, next, mine, theirs
  <2>2. \A c \in Buffers : blame[c] \subseteq Blames
    BY DEF DriverInv, Numbers
  <2>. QED BY <1>1, <2>1, <2>2
<1>11. /\ buf' \in [Buffers -> [seq: Nat, error: BOOLEAN, short: BOOLEAN]]
       /\ \A c \in Buffers : /\ c = b => (buf'[c].error <=> failed) /\ (buf'[c].short <=> short)
                             /\ c # b => /\ buf'[c].error <=> buf[c].error \/ (tail # {} /\ c \in next)
                                         /\ buf'[c].short <=> buf[c].short
  <2>1. \A q \in Buffers : LET r == [buf[q] EXCEPT !.error = @ \/ (tail # {} /\ q \in next)]
                           IN  /\ r \in [seq: Nat, error: BOOLEAN, short: BOOLEAN]
                               /\ r.error <=> buf[q].error \/ (tail # {} /\ q \in next)
                               /\ r.short <=> buf[q].short
    <3>. SUFFICES ASSUME NEW q \in Buffers
                  PROVE  LET r == [buf[q] EXCEPT !.error = @ \/ (tail # {} /\ q \in next)]
                         IN  /\ r \in [seq: Nat, error: BOOLEAN, short: BOOLEAN]
                             /\ r.error <=> buf[q].error \/ (tail # {} /\ q \in next)
                             /\ r.short <=> buf[q].short
      OBVIOUS
    <3>. DEFINE e == buf[q].error \/ (tail # {} /\ q \in next)
    <3>1. e \in BOOLEAN /\ buf[q] \in [seq: Nat, error: BOOLEAN, short: BOOLEAN]
      BY DEF DriverInv, Numbers
    <3>. HIDE DEF e
    <3>2. /\ [buf[q] EXCEPT !.error = e] \in [seq: Nat, error: BOOLEAN, short: BOOLEAN]
          /\ [buf[q] EXCEPT !.error = e].error = e
          /\ [buf[q] EXCEPT !.error = e].short = buf[q].short
      BY <3>1
    <3>. QED BY <3>2 DEF e
  <2>. HIDE DEF failed
  <2>2. /\ filled \in [seq: Nat, error: BOOLEAN, short: BOOLEAN]
        /\ filled.error = failed /\ filled.short = short
    BY <1>8 DEF DriverInv, Numbers
  <2>. HIDE DEF filled, b, next
  <2>. QED BY <1>1, <2>1, <2>2
<1>. HIDE DEF b, next, failed, mine, theirs, n
<1>12. TagsExplained'
  <2>. SUFFICES ASSUME NEW c \in Buffers
                PROVE  /\ c \in drv_drop_cause' => blame'[c] \cap {"own", "spilled", "stale"} # {}
                       /\ "own" \in blame'[c] => c \in drv_drop_cause' \/ "full" \in blame'[c]
    BY DEF TagsExplained
  <2>1. /\ c \in drv_drop_cause => blame[c] \cap {"own", "spilled", "stale"} # {}
        /\ "own" \in blame[c] => c \in drv_drop_cause \/ "full" \in blame[c]
    BY DEF DriverInv, TagsExplained
  <2>2. CASE c # b /\ c \in next
    <3>1. blame'[c] = blame[c] \cup theirs /\ "own" \notin theirs
      BY <1>6, <1>10, <2>2
    <3>2. c \in drv_drop_cause' <=> c \in drv_drop_cause
      BY <1>4, <2>2
    <3>. QED BY <2>1, <3>1, <3>2
  <2>3. CASE c # b /\ c \notin next
    BY <1>4, <1>10, <2>1, <2>3
  <2>4. CASE c = b
    <3>0. blame'[c] = blame[c] \cup mine
      BY <1>10, <2>4
    <3>1. CASE "loss" \in head \cup tail
      <4>1. "own" \in mine \/ "spilled" \in mine
        BY <1>5, <3>1
      <4>2. c \in drv_drop_cause' \/ "full" \in mine
        BY <1>4, <1>5, <2>4, <3>1
      <4>. QED BY <3>0, <4>1, <4>2
    <3>2. CASE "loss" \notin head \cup tail
      <4>1. "own" \notin mine /\ drv_drop_cause' = drv_drop_cause
        BY <1>4, <1>5, <3>2
      <4>. QED BY <2>1, <3>0, <4>1
    <3>. QED BY <3>1, <3>2
  <2>. QED BY <2>2, <2>3, <2>4
<1>13. ErrorsExplained'
  <2>. SUFFICES ASSUME NEW c \in Buffers
                PROVE  /\ buf'[c].error => \/ blame'[c] \cap {"own", "other", "inherited"} # {}
                                           \/ buf'[c].short /\ ~camera'.compressed
                       /\ buf'[c].short => c \in copying'
    BY DEF ErrorsExplained
  <2>1. /\ buf[c].error => \/ blame[c] \cap {"own", "other", "inherited"} # {}
                           \/ buf[c].short /\ ~camera.compressed
        /\ buf[c].short => c \in copying
    BY DEF DriverInv, ErrorsExplained
  <2>2. blame[c] \subseteq blame'[c]
    BY <1>10
  <2>3. CASE c = b
    <3>1. ~buf[c].short /\ c \in copying'
      BY <1>1, <1>2, <2>1, <2>3 DEF DriverInv, BuffersOnce
    <3>2. /\ buf'[c].error <=> buf[c].error \/ head # {} \/ (short /\ ~camera.compressed)
          /\ buf'[c].short <=> short
      BY <1>11, <2>3 DEF failed
    <3>3. head # {} => blame'[c] \cap {"own", "other", "inherited"} # {}
      BY <1>5, <1>10, <2>3
    <3>. QED BY <1>9, <2>1, <2>2, <3>1, <3>2, <3>3
  <2>4. CASE c # b
    <3>1. buf'[c].short <=> buf[c].short
      BY <1>11, <2>4
    <3>2. c \in copying' <=> c \in copying
      BY <1>1, <2>4
    <3>3. CASE tail # {} /\ c \in next
      <4>1. blame'[c] \cap {"own", "other", "inherited"} # {}
        BY <1>6, <1>10, <2>4, <3>3
      <4>. QED BY <2>1, <3>1, <3>2, <4>1
    <3>4. CASE ~(tail # {} /\ c \in next)
      <4>1. buf'[c].error <=> buf[c].error
        BY <1>11, <2>4, <3>4
      <4>. QED BY <1>9, <2>1, <2>2, <3>1, <3>2, <4>1
    <3>. QED BY <3>3, <3>4
  <2>. QED BY <2>3, <2>4
<1>14. Numbers'
  BY <1>1, <1>9, <1>10, <1>11 DEF DriverInv, Numbers
<1>15. b \notin copying /\ IsFiniteSet(copying') /\ Cardinality(copying') = Cardinality(copying) + 1
  <2>1. b \notin copying
    BY <1>2 DEF DriverInv, BuffersOnce
  <2>. QED BY <1>1, <2>1, FS_AddElement DEF DriverInv, BuffersOnce
<1>16. BuffersOnce'
  BY <1>1, <1>2, <1>15 DEF DriverInv, BuffersOnce
<1>17. DroppedWasReceived'
  <2>1. Cardinality(copying) \in Nat
    BY FS_CardinalityType DEF DriverInv, BuffersOnce
  <2>2. drvstats'.received = drvstats.received + 1 /\ drvstats'.dropped = drvstats.dropped
        /\ drvstats' \in [received: Nat, dropped: Nat]
    BY <1>1 DEF DriverInv, DroppedWasReceived
  <2>. QED BY <1>15, <2>1, <2>2 DEF DriverInv, DroppedWasReceived
<1>. QED BY <1>4, <1>12, <1>13, <1>14, <1>16, <1>17

\* Decoding, queueing and a frame without a buffer.
LEMMA FillingStep ==
  ASSUME DriverInv, Filling
  PROVE  DriverInv'
<1>1. verdict' = NoVerdict /\ last_sequence' = last_sequence
      /\ seq_gaps' = seq_gaps /\ seen' = seen
  BY DEF Filling
<1>2. SeenIsNoted' /\ NoGapMeansNoLoss' /\ DropBlamesTheLoss'
  BY <1>1 DEF DriverInv, SeenIsNoted, NoGapMeansNoLoss, DropBlamesTheLoss
<1>3. /\ BuffersOnce' /\ DroppedWasReceived' /\ CauseOK' /\ TagsExplained'
      /\ ErrorsExplained' /\ Numbers'
  <2>1. ASSUME NEW faults \in SUBSET Faults, DecodePart(faults)
        PROVE  /\ BuffersOnce' /\ DroppedWasReceived' /\ CauseOK' /\ TagsExplained'
               /\ ErrorsExplained' /\ Numbers'
    BY <1>1, <2>1, DecodePartStep
  <2>2. ASSUME NEW head \in SUBSET Faults, NEW tail \in SUBSET Faults, NEW short \in BOOLEAN,
               DecodeEnd(head, tail, short)
        PROVE  /\ BuffersOnce' /\ DroppedWasReceived' /\ CauseOK' /\ TagsExplained'
               /\ ErrorsExplained' /\ Numbers'
    BY <1>1, <2>2, DecodeEndStep
  <2>3. ASSUME FrameWithoutBuffer
        PROVE  /\ BuffersOnce' /\ DroppedWasReceived' /\ CauseOK' /\ TagsExplained'
               /\ ErrorsExplained' /\ Numbers'
    <3>1. /\ UNCHANGED <<irqqueue, copying, buf, drv_drop_cause, drvstats, blame>>
          /\ sequence' = sequence + 1
          /\ camera' = [camera EXCEPT !.frames = @ + 1, !.faults = @ + 0]
      BY <2>3 DEF FrameWithoutBuffer, FrameOver
    <3>2. camera' \in Camera /\ camera'.compressed = camera.compressed
      <4>1. camera \in Camera /\ camera.frames \in Nat /\ camera.faults \in Nat
        BY DEF DriverInv, Numbers, Camera
      <4>2. PICK i \in Nat, j \in Nat : i = camera.frames + 1 /\ j = camera.faults + 0
        BY <4>1
      <4>3. camera' = [camera EXCEPT !.frames = i, !.faults = j]
        BY <3>1, <4>2
      <4>. QED BY <4>1, <4>3, CameraFacts DEF SameFormat
    <3>3. ErrorsExplained'
      BY <3>1, <3>2 DEF DriverInv, ErrorsExplained
    <3>. QED BY <1>1, <3>1, <3>2, <3>3 DEF DriverInv, BuffersOnce, DroppedWasReceived, CauseOK,
                                           TagsExplained, Numbers
  <2>4. ASSUME NEW b \in Buffers, QueueBuffer(b)
        PROVE  /\ BuffersOnce' /\ DroppedWasReceived' /\ CauseOK' /\ TagsExplained'
               /\ ErrorsExplained' /\ Numbers'
    <3>1. /\ b \notin Range(irqqueue) /\ b \notin copying
          /\ irqqueue' = Append(irqqueue, b)
          /\ UNCHANGED <<camera, copying, buf, sequence, drv_drop_cause, drvstats, blame>>
      BY <2>4 DEF QueueBuffer
    <3>2. /\ irqqueue' \in Seq(Buffers) /\ Distinct(irqqueue')
          /\ Range(irqqueue') = Range(irqqueue) \cup {b}
      BY <3>1, AppendFacts DEF DriverInv
    <3>3. BuffersOnce'
      BY <3>1, <3>2 DEF DriverInv, BuffersOnce
    <3>4. Numbers' /\ ErrorsExplained'
      BY <1>1, <3>1 DEF DriverInv, Numbers, ErrorsExplained
    <3>. QED BY <3>1, <3>3, <3>4 DEF DriverInv, DroppedWasReceived, CauseOK, TagsExplained
  <2>. QED BY <2>1, <2>2, <2>3, <2>4 DEF Filling
<1>. QED BY <1>2, <1>3 DEF DriverInv

\* A corrupted frame: its buffer is filled again, and the verdict says why.
LEMMA DropStep ==
  ASSUME DriverInv, NEW b \in Buffers, Drop(b)
  PROVE  DriverInv'
<1>1. /\ b \in copying /\ buf[b].error /\ Untagged(b) /\ irqqueue' = Append(irqqueue, b)
      /\ buf' = [buf EXCEPT ![b].error = FALSE, ![b].short = FALSE]
      /\ drvstats' = [drvstats EXCEPT !["dropped"] = @ + 1]
      /\ verdict' = [reason |-> Reason(b), blame |-> blame[b]]
      /\ UNCHANGED <<camera, sequence, last_sequence, seq_gaps, seen>>
  BY DEF Drop, TallyDrv
<1>2. /\ CauseOK' /\ TagsExplained'
      /\ blame' \in [Buffers -> SUBSET Blames]
      /\ \A c \in Buffers : c # b => blame'[c] = blame[c]
      /\ copying' = copying \ {b} /\ IsFiniteSet(copying')
      /\ Cardinality(copying') = Cardinality(copying) - 1
  BY <1>1, UntaggedFacts DEF DriverInv
<1>3. BuffersOnce'
  <2>1. b \notin Range(irqqueue)
    BY <1>1 DEF DriverInv, BuffersOnce
  <2>2. /\ irqqueue' \in Seq(Buffers) /\ Distinct(irqqueue')
        /\ Range(irqqueue') = Range(irqqueue) \cup {b}
    BY <1>1, <2>1, AppendFacts DEF DriverInv
  <2>. QED BY <1>2, <2>2 DEF DriverInv, BuffersOnce
<1>4. DroppedWasReceived'
  <2>1. Cardinality(copying) \in Nat /\ Cardinality(copying') \in Nat
    BY <1>2, FS_CardinalityType DEF DriverInv, BuffersOnce
  <2>2. drvstats'.dropped = drvstats.dropped + 1 /\ drvstats'.received = drvstats.received
        /\ drvstats' \in [received: Nat, dropped: Nat]
    BY <1>1 DEF DriverInv, DroppedWasReceived
  <2>. QED BY <1>2, <2>1, <2>2 DEF DriverInv, DroppedWasReceived
<1>5. Numbers' /\ ErrorsExplained'
  <2>1. /\ buf' \in [Buffers -> [seq: Nat, error: BOOLEAN, short: BOOLEAN]]
        /\ ~buf'[b].error /\ ~buf'[b].short
        /\ \A c \in Buffers : c # b => buf'[c] = buf[c]
    <3>1. buf[b] \in [seq: Nat, error: BOOLEAN, short: BOOLEAN]
      BY DEF DriverInv, Numbers
    <3>2. buf' = [buf EXCEPT ![b] = [buf[b] EXCEPT !.error = FALSE, !.short = FALSE]]
      BY <1>1 DEF DriverInv, Numbers
    <3>. QED BY <3>1, <3>2 DEF DriverInv, Numbers
  <2>2. Numbers'
    BY <1>1, <1>2, <2>1 DEF DriverInv, Numbers
  <2>3. \A c \in Buffers : c # b => (c \in copying' <=> c \in copying)
    BY <1>2
  <2>4. ErrorsExplained'
    BY <1>1, <1>2, <2>1, <2>3 DEF DriverInv, ErrorsExplained
  <2>. QED BY <2>2, <2>4
<1>6. SeenIsNoted' /\ NoGapMeansNoLoss'
  BY <1>1 DEF DriverInv, SeenIsNoted, NoGapMeansNoLoss
<1>7. DropBlamesTheLoss'
  <2>1. /\ "drop_iso" \in Reason(b) <=> b \in drv_drop_cause
        /\ "drop_other" \in Reason(b) => b \notin drv_drop_cause
                                         /\ ~(buf[b].short /\ ~camera.compressed)
    BY DEF Reason
  <2>2. verdict'.reason = Reason(b) /\ verdict'.blame = blame[b]
    BY <1>1
  <2>3. /\ b \in drv_drop_cause => blame[b] \cap {"own", "spilled", "stale"} # {}
        /\ "own" \in blame[b] => b \in drv_drop_cause \/ "full" \in blame[b]
    BY DEF DriverInv, TagsExplained
  <2>4. \/ blame[b] \cap {"own", "other", "inherited"} # {}
        \/ buf[b].short /\ ~camera.compressed
    BY <1>1 DEF DriverInv, ErrorsExplained
  <2>. QED BY <2>1, <2>2, <2>3, <2>4 DEF DropBlamesTheLoss
<1>. QED BY <1>2, <1>3, <1>4, <1>5, <1>6, <1>7 DEF DriverInv

\* A delivered frame.
LEMMA DeliverStep ==
  ASSUME DriverInv, NEW b \in Buffers, NEW ignored \in BOOLEAN, Deliver(b, ignored)
  PROVE  DriverInv'
<1>1. /\ b \in copying /\ Untagged(b) /\ VbDone(b, ignored) /\ verdict' = NoVerdict
      /\ buf' = [buf EXCEPT ![b] = Empty]
      /\ UNCHANGED <<camera, irqqueue, sequence, drvstats>>
  BY DEF Deliver
<1>2. /\ CauseOK' /\ TagsExplained'
      /\ blame' \in [Buffers -> SUBSET Blames]
      /\ \A c \in Buffers : c # b => blame'[c] = blame[c]
      /\ copying' = copying \ {b} /\ IsFiniteSet(copying')
      /\ Cardinality(copying') = Cardinality(copying) - 1
  BY <1>1, UntaggedFacts DEF DriverInv
<1>3. SeenIsNoted' /\ NoGapMeansNoLoss' /\ last_sequence' \in Nat \cup {NoSeq}
  BY <1>1, VbDoneFacts DEF DriverInv
<1>4. BuffersOnce'
  BY <1>1, <1>2 DEF DriverInv, BuffersOnce
<1>5. DroppedWasReceived'
  <2>1. Cardinality(copying) \in Nat /\ Cardinality(copying') \in Nat
    BY <1>2, FS_CardinalityType DEF DriverInv, BuffersOnce
  <2>. QED BY <1>1, <1>2, <2>1 DEF DriverInv, DroppedWasReceived
<1>6. Numbers' /\ ErrorsExplained'
  <2>1. /\ buf' \in [Buffers -> [seq: Nat, error: BOOLEAN, short: BOOLEAN]]
        /\ ~buf'[b].error /\ ~buf'[b].short
        /\ \A c \in Buffers : c # b => buf'[c] = buf[c]
    BY <1>1 DEF DriverInv, Numbers, Empty
  <2>2. Numbers'
    BY <1>1, <1>2, <1>3, <2>1 DEF DriverInv, Numbers
  <2>3. \A c \in Buffers : c # b => (c \in copying' <=> c \in copying)
    BY <1>2
  <2>4. ErrorsExplained'
    BY <1>1, <1>2, <2>1, <2>3 DEF DriverInv, ErrorsExplained
  <2>. QED BY <2>2, <2>4
<1>7. DropBlamesTheLoss'
  BY <1>1 DEF DropBlamesTheLoss
<1>. QED BY <1>2, <1>3, <1>4, <1>5, <1>6, <1>7 DEF DriverInv

\* A buffer of a stopped stream keeps its tag, which is stale from then on.
LEMMA CancelStep ==
  ASSUME DriverInv, NEW ignored \in BOOLEAN, Cancel(ignored)
  PROVE  DriverInv'
<1>. DEFINE b == irqqueue[1]
<1>1. /\ irqqueue # << >> /\ irqqueue' = Tail(irqqueue)
      /\ VbDone(b, ignored) /\ verdict' = NoVerdict
      /\ buf' = [buf EXCEPT ![b] = Empty]
      /\ blame' = [blame EXCEPT ![b] = IF b \in drv_drop_cause THEN {"stale"} ELSE {}]
      /\ UNCHANGED <<camera, copying, sequence, drv_drop_cause, drvstats>>
  BY DEF Cancel
<1>2. /\ b \in Buffers /\ irqqueue' \in Seq(Buffers) /\ Distinct(irqqueue')
      /\ Range(irqqueue') \subseteq Range(irqqueue)
  BY <1>1, TailFacts DEF DriverInv
<1>. HIDE DEF b
<1>3. SeenIsNoted' /\ NoGapMeansNoLoss' /\ last_sequence' \in Nat \cup {NoSeq}
  BY <1>1, <1>2, VbDoneFacts DEF DriverInv
<1>4. BuffersOnce' /\ DroppedWasReceived' /\ CauseOK'
  BY <1>1, <1>2 DEF DriverInv, BuffersOnce, DroppedWasReceived, CauseOK
<1>5. /\ blame' \in [Buffers -> SUBSET Blames]
      /\ \A c \in Buffers : /\ c # b => blame'[c] = blame[c]
                            /\ c = b => blame'[c] = IF b \in drv_drop_cause THEN {"stale"} ELSE {}
  BY <1>1, <1>2 DEF DriverInv, Numbers, Blames
<1>6. TagsExplained'
  <2>. SUFFICES ASSUME NEW c \in Buffers
                PROVE  /\ c \in drv_drop_cause => blame'[c] \cap {"own", "spilled", "stale"} # {}
                       /\ "own" \in blame'[c] => c \in drv_drop_cause \/ "full" \in blame'[c]
    BY <1>1 DEF TagsExplained
  <2>1. CASE c = b
    BY <1>5, <2>1
  <2>2. CASE c # b
    BY <1>5, <2>2 DEF DriverInv, TagsExplained
  <2>. QED BY <2>1, <2>2
<1>7. Numbers' /\ ErrorsExplained'
  <2>1. /\ buf' \in [Buffers -> [seq: Nat, error: BOOLEAN, short: BOOLEAN]]
        /\ ~buf'[b].error /\ ~buf'[b].short
        /\ \A c \in Buffers : c # b => buf'[c] = buf[c]
    BY <1>1, <1>2 DEF DriverInv, Numbers, Empty
  <2>2. Numbers'
    BY <1>1, <1>3, <1>5, <2>1 DEF DriverInv, Numbers
  <2>3. ErrorsExplained'
    BY <1>1, <1>5, <2>1 DEF DriverInv, ErrorsExplained
  <2>. QED BY <2>2, <2>3
<1>8. DropBlamesTheLoss'
  BY <1>1 DEF DropBlamesTheLoss
<1>. QED BY <1>3, <1>4, <1>6, <1>7, <1>8 DEF DriverInv

(* Every step of the driver, its hooks and the application keeps the       *)
(* invariant.                                                              *)
THEOREM DriverStep == DriverInv /\ [DriverNext]_driverVars => DriverInv'
<1>. SUFFICES ASSUME DriverInv, [DriverNext]_driverVars PROVE DriverInv'
  OBVIOUS
<1>1. CASE Filling
  BY <1>1, FillingStep
<1>2. ASSUME NEW b \in Buffers, Drop(b) PROVE DriverInv'
  BY <1>2, DropStep
<1>3. ASSUME NEW ignored \in BOOLEAN, Cancel(ignored) PROVE DriverInv'
  BY <1>3, CancelStep
<1>4. ASSUME NEW ignored \in BOOLEAN, NEW b \in Buffers, Deliver(b, ignored) PROVE DriverInv'
  BY <1>4, DeliverStep
<1>5. CASE StopStream
  <2>1. /\ camera' = [camera EXCEPT !.on = FALSE] /\ verdict' = NoVerdict
        /\ UNCHANGED <<irqqueue, copying, buf, sequence, drv_drop_cause, last_sequence, drvstats,
                       seq_gaps, blame, seen>>
    BY <1>5 DEF StopStream
  <2>2. camera' \in Camera /\ camera'.compressed = camera.compressed
    <3>1. camera \in Camera
      BY DEF DriverInv, Numbers
    <3>. QED BY <2>1, <3>1, CameraFacts DEF SameFormat
  <2>3. /\ BuffersOnce' /\ DroppedWasReceived' /\ CauseOK' /\ TagsExplained'
        /\ ErrorsExplained' /\ Numbers'
    BY <2>1, <2>2 DEF DriverInv, BuffersOnce, DroppedWasReceived, CauseOK, TagsExplained,
                      ErrorsExplained, Numbers
  <2>4. SeenIsNoted' /\ NoGapMeansNoLoss' /\ DropBlamesTheLoss'
    BY <2>1 DEF DriverInv, SeenIsNoted, NoGapMeansNoLoss, DropBlamesTheLoss
  <2>. QED BY <2>3, <2>4 DEF DriverInv
<1>6. CASE StartStream
  <2>1. /\ sequence' = 0 /\ seen' = NothingSeen /\ verdict' = NoVerdict
        /\ camera' = [camera EXCEPT !.on = TRUE, !.streams = @ + 1]
        /\ UNCHANGED <<irqqueue, copying, buf, drv_drop_cause, last_sequence, drvstats,
                       seq_gaps, blame>>
    BY <1>6 DEF StartStream
  <2>2. camera' \in Camera /\ camera'.compressed = camera.compressed
    <3>1. camera \in Camera /\ camera.streams \in Nat
      BY DEF DriverInv, Numbers, Camera
    <3>2. PICK k \in Nat : k = camera.streams + 1
      BY <3>1
    <3>3. camera' = [camera EXCEPT !.on = TRUE, !.streams = k]
      BY <2>1, <3>2
    <3>. QED BY <3>1, <3>3, CameraFacts DEF SameFormat
  <2>3. /\ BuffersOnce' /\ DroppedWasReceived' /\ CauseOK' /\ TagsExplained'
        /\ ErrorsExplained' /\ Numbers'
    BY <2>1, <2>2 DEF DriverInv, BuffersOnce, DroppedWasReceived, CauseOK, TagsExplained,
                      ErrorsExplained, Numbers
  <2>4. SeenIsNoted' /\ NoGapMeansNoLoss' /\ DropBlamesTheLoss'
    BY <2>1 DEF DriverInv, SeenIsNoted, NoGapMeansNoLoss, DropBlamesTheLoss, NothingSeen
  <2>. QED BY <2>3, <2>4 DEF DriverInv
<1>7. CASE UNCHANGED driverVars
  BY <1>7 DEF driverVars, DriverInv, BuffersOnce, DroppedWasReceived, CauseOK, TagsExplained,
              ErrorsExplained, Numbers, SeenIsNoted, NoGapMeansNoLoss, DropBlamesTheLoss
<1>. QED BY <1>1, <1>2, <1>3, <1>4, <1>5, <1>6, <1>7 DEF DriverNext

-----------------------------------------------------------------------------

(* uvc.bpf.c and uvc.c: the invariant behind the three theorems below. *)
THEOREM DriverInvariant == DriverSpec => []DriverInv
<1>. QED BY DriverStart, DriverStep, PTL DEF DriverSpec

(* uvcvideo holds a buffer once, and drv_drop_cause and the counters of    *)
(* dropped frames stay in their bounds, for every number of buffers.       *)
THEOREM DriverTypes == DriverSpec => []DriverTypeOK
<1>1. DriverInv => DriverTypeOK
  <2>. SUFFICES ASSUME DriverInv PROVE DriverTypeOK
    OBVIOUS
  <2>1. Range(irqqueue) \subseteq Buffers
    <3>1. irqqueue \in [1 .. Len(irqqueue) -> Buffers] /\ DOMAIN irqqueue = 1 .. Len(irqqueue)
      BY LenProperties DEF DriverInv, BuffersOnce
    <3>. QED BY <3>1 DEF Range
  <2>2. Cardinality(Range(irqqueue)) = Len(irqqueue)
    BY DistinctCount DEF DriverInv, BuffersOnce
  <2>3. drvstats.dropped <= drvstats.received
    <3>1. Cardinality(copying) \in Nat
      BY FS_CardinalityType DEF DriverInv, BuffersOnce
    <3>. QED BY <3>1 DEF DriverInv, DroppedWasReceived
  <2>. QED BY <2>1, <2>2, <2>3 DEF DriverTypeOK, DriverInv, BuffersOnce, CauseOK
<1>. QED BY <1>1, DriverInvariant, PTL

(* on_queue_complete: for any number of buffers, size of the map and course *)
(* of the URBs, a drop put down to lost packets had one in a URB that began *)
(* in its buffer or a stale tag, and is put down to them if its own frame   *)
(* lost one there; a drop called "other" had another fault, a full map, or  *)
(* a loss that came with the URB of the frame before.                       *)
THEOREM DropsAreExplained == DriverSpec => []DropBlamesTheLoss
<1>1. DriverInv => DropBlamesTheLoss
  BY DEF DriverInv
<1>. QED BY <1>1, DriverInvariant, PTL

(* uvc_emit_vb2_done: as long as no gap is counted, no frame between the   *)
(* first and the last number was lost, for streams of any length.          *)
THEOREM GaplessIsComplete == DriverSpec => []NoGapMeansNoLoss
<1>1. DriverInv => NoGapMeansNoLoss
  BY DEF DriverInv
<1>. QED BY <1>1, DriverInvariant, PTL
=============================================================================
