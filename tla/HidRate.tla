------------------------------- MODULE HidRate -------------------------------
(***************************************************************************)
(* The report-rate meter of `usbtrace hid' (hid.c) with the transfer tally *)
(* it shares with the other class modules (class_stream.c).  Every record  *)
(* of a completed interrupt URB passes rate_on_in and                      *)
(* class_stream_on_event; Ctrl-C runs hid_on_stop.                         *)
(*                                                                         *)
(* Records reach the callback up to Skew older than the newest one before  *)
(* (per-CPU buffers).  Roles and printing are left out.                    *)
(***************************************************************************)
EXTENDS Integers, Sequences, FiniteSets

CONSTANTS
  Endpoints,     \* (bus, device, endpoint) triples of the session
  RATE_SLOTS,    \* HID_RATE_SLOTS (16)
  RATE_WINDOW,   \* rate_window_ns() (--interval)
  RATE_GAP,      \* HID_RATE_GAP_NS (50 ms)
  RATE_SKEW,     \* how late a record may be
  MaxUrbs,       \* bound: records of a session
  MaxTs          \* bound: time stamps

ASSUME RateAssumption ==
  /\ RATE_SLOTS \in Nat /\ RATE_WINDOW \in Nat \ {0} /\ RATE_GAP \in Nat \ {0}
  /\ RATE_SKEW \in Nat /\ MaxUrbs \in Nat /\ MaxTs \in Nat

VARIABLES
  slots,       \* g_slots[0 .. g_nslots - 1], in the order they were taken
  win_start,   \* g_window_start_ns, 0 = no report yet
  stats,       \* struct class_stats: transfers, and those with an error status
  newest,      \* the newest time stamp delivered
  heard,       \* history: the times of each endpoint's successful IN completions
  printed,     \* history: reports in the rate lines of each endpoint
  span         \* history: the last window printed, its length and whether final

hidVars == <<slots, win_start, stats, newest, heard, printed, span>>

-----------------------------------------------------------------------------
(* One slot: a window and the session, tallied alike. *)

NoTally == [count |-> 0, iv |-> 0, sum |-> 0, min |-> 0, max |-> 0, gaps |-> 0]
NewSlot(e) == [ep |-> e, last_ts |-> 0, win |-> NoTally, total |-> NoTally, err_urbs |-> 0]

\* g_nslots only grows: a slot is never given back
SlotOf(e) == {i \in DOMAIN slots : slots[i].ep = e}
SlotGet(e) ==
  IF SlotOf(e) = {} /\ Len(slots) < RATE_SLOTS THEN Append(slots, NewSlot(e)) ELSE slots

\* An interval above the gap limit breaks the stream and is not averaged.
NoteInterval(t, iv) ==
  IF iv > RATE_GAP THEN [t EXCEPT !.gaps = @ + 1]
  ELSE [t EXCEPT !.iv = @ + 1, !.sum = @ + iv,
                 !.min = IF @ = 0 \/ iv < @ THEN iv ELSE @,
                 !.max = IF iv > @ THEN iv ELSE @]

Noted(s, t, ts) ==
  LET n == IF s.last_ts # 0 /\ ts > s.last_ts THEN NoteInterval(t, ts - s.last_ts) ELSE t
  IN  [n EXCEPT !.count = @ + 1]

\* A variant: a failed transfer leaves its time stamp behind.
RateOnInStamped(s, ok, ts) ==
  IF ~ok THEN [s EXCEPT !.err_urbs = @ + 1, !.last_ts = ts]
  ELSE [s EXCEPT !.win = Noted(s, @, ts), !.total = Noted(s, @, ts), !.last_ts = ts]

\* rate_on_in, once the slot is known: a failed transfer carries no report
RateOnIn(s, ok, ts) ==
  IF ~ok THEN [s EXCEPT !.err_urbs = @ + 1]
  ELSE [s EXCEPT !.win = Noted(s, @, ts), !.total = Noted(s, @, ts), !.last_ts = ts]

-----------------------------------------------------------------------------
(* The window all slots share.  A flush returns the slots, the start of the *)
(* next window and what it printed.                                         *)

Kept(ss) == [slots |-> ss, start |-> win_start, lines |-> {}, span |-> span]

Flushed(ss, start, to, final) ==
  [slots |-> [i \in DOMAIN ss |-> [ss[i] EXCEPT !.win = NoTally]], start |-> to,
   lines |-> {i \in DOMAIN ss : ss[i].win.count > 0},
   span |-> [length |-> to - start, final |-> final]]

\* A variant: a time before the start of the window is not rejected.
FlushWindowBackwards(ss, start, to, final) ==
  IF final /\ 4 * (to - start) < RATE_WINDOW THEN [Kept(ss) EXCEPT !.start = start]
  ELSE Flushed(ss, start, to, final)

\* rate_flush_window; HID_RATE_MIN_WIN_FRAC is a quarter
FlushWindow(ss, start, to, final) ==
  IF to <= start \/ (final /\ 4 * (to - start) < RATE_WINDOW)
  THEN [Kept(ss) EXCEPT !.start = start]
  ELSE Flushed(ss, start, to, final)

\* ts - start >= window, on unsigned numbers: a late record passes
WindowOver(ts, start) == ts < start \/ ts - start >= RATE_WINDOW

\* A variant: the report that closes a window is lost with the flush.
ReportedUncounted(ss, ts) ==
  LET start == IF win_start = 0 THEN ts ELSE win_start
  IN  IF WindowOver(ts, start) THEN FlushWindow(slots, start, ts, FALSE)
      ELSE [Kept(ss) EXCEPT !.start = start]

\* the end of rate_on_in: the first report opens the first window
Reported(ss, ts) ==
  LET start == IF win_start = 0 THEN ts ELSE win_start
  IN  IF WindowOver(ts, start) THEN FlushWindow(ss, start, ts, FALSE)
      ELSE [Kept(ss) EXCEPT !.start = start]

\* what a flush prints goes to the histories
Line(f, ss, e) == {i \in f.lines : ss[i].ep = e}
Printed(f, ss) ==
  /\ slots' = f.slots /\ win_start' = f.start /\ span' = f.span
  /\ printed' = [e \in Endpoints |->
       IF Line(f, ss, e) = {} THEN printed[e]
       ELSE printed[e] + ss[CHOOSE i \in Line(f, ss, e) : TRUE].win.count]

-----------------------------------------------------------------------------

\* class_stream_on_event, after rate_on_in
Tallied(ok) == stats' = [urbs |-> stats.urbs + 1, status_err |-> stats.status_err + (IF ok THEN 0 ELSE 1)]

\* OUT completions, and IN completions of an endpoint without a slot, only
\* count as transfers.
Unrated(e, in, ok, ts) ==
  /\ ~in \/ (SlotOf(e) = {} /\ Len(slots) >= RATE_SLOTS)
  /\ UNCHANGED <<slots, win_start, printed, span>>

Rated(e, in, ok, ts) ==
  LET ss == SlotGet(e)
      i  == CHOOSE j \in DOMAIN ss : ss[j].ep = e
      s2 == [ss EXCEPT ![i] = RateOnIn(ss[i], ok, ts)]
  IN  /\ in /\ (SlotOf(e) # {} \/ Len(slots) < RATE_SLOTS)
      /\ Printed(IF ok THEN Reported(s2, ts) ELSE Kept(s2), s2)

HidOnEvent(e, in, ok, ts) ==
  /\ stats.urbs < MaxUrbs
  /\ Unrated(e, in, ok, ts) \/ Rated(e, in, ok, ts)
  /\ Tallied(ok)
  /\ newest' = IF ts > newest THEN ts ELSE newest
  /\ heard' = IF in /\ ok THEN [heard EXCEPT ![e] = Append(@, ts)] ELSE heard

\* The last window ends with the newest of the slots' last reports.
HidOnStop ==
  \E last \in {slots[i].last_ts : i \in DOMAIN slots} \cup {0} :
    /\ \A i \in DOMAIN slots : slots[i].last_ts <= last
    /\ Printed(IF win_start # 0 /\ last > win_start
               THEN FlushWindow(slots, win_start, last, TRUE) ELSE Kept(slots), slots)
    /\ UNCHANGED <<stats, newest, heard>>

HidInit ==
  /\ slots = << >> /\ win_start = 0 /\ newest = 0
  /\ stats = [urbs |-> 0, status_err |-> 0]
  /\ heard = [e \in Endpoints |-> << >>] /\ printed = [e \in Endpoints |-> 0]
  /\ span = [length |-> RATE_WINDOW, final |-> FALSE]

HidNext ==
  \/ \E e \in Endpoints, in \in BOOLEAN, ok \in BOOLEAN, ts \in 1 .. MaxTs :
       newest <= ts + RATE_SKEW /\ HidOnEvent(e, in, ok, ts)
  \/ HidOnStop

HidSpec == HidInit /\ [][HidNext]_hidVars

-----------------------------------------------------------------------------
(* Properties. *)

Tally == [count: Nat, iv: Nat, sum: Nat, min: Nat, max: Nat, gaps: Nat]
Slot == [ep: Endpoints, last_ts: Nat, win: Tally, total: Tally, err_urbs: Nat]

(* hid.c keeps one slot per endpoint, at most HID_RATE_SLOTS of them. *)
HidTypeOK ==
  /\ slots \in Seq(Slot)
  /\ Len(slots) <= RATE_SLOTS
  /\ \A i, j \in DOMAIN slots : slots[i].ep = slots[j].ep => i = j
  /\ win_start \in Nat /\ newest \in Nat /\ stats \in [urbs: Nat, status_err: Nat]
  /\ stats.status_err <= stats.urbs

(* Every report an endpoint delivered is in exactly one rate line or still  *)
(* in the open window, whatever order the records came in; an endpoint      *)
(* that has no rate found all slots taken.                                  *)
EveryReportInOneWindow ==
  \A e \in Endpoints :
    IF SlotOf(e) = {} THEN heard[e] # << >> => Len(slots) = RATE_SLOTS
    ELSE \A i \in SlotOf(e) : Len(heard[e]) = printed[e] + slots[i].win.count

\* The time from the i-th report of q to the next, and where it counts: a
\* report that is not newer than the one before it makes no interval.
Interval(q, i) == q[i + 1] - q[i]
Gaps(q)  == {i \in 1 .. Len(q) - 1 : Interval(q, i) > RATE_GAP}
Steady(q) == {i \in 1 .. Len(q) - 1 : Interval(q, i) \in 1 .. RATE_GAP}

(* What the summary says of an endpoint is what its successive reports      *)
(* were apart: their number, the gaps, and the intervals averaged with      *)
(* their extremes.  A failed transfer between two reports does not shorten  *)
(* the interval or hide the gap, a late record makes neither.               *)
EveryIntervalAccounted ==
  \A i \in DOMAIN slots : LET t == slots[i].total  q == heard[slots[i].ep] IN
    /\ t.count = Len(q)
    /\ t.gaps = Cardinality(Gaps(q))
    /\ t.iv = Cardinality(Steady(q))
    /\ \A j \in Steady(q) : t.min <= Interval(q, j) /\ Interval(q, j) <= t.max
    /\ t.iv * t.min <= t.sum /\ t.sum <= t.iv * t.max /\ t.max <= RATE_GAP

(* No rate is computed over a span shorter than the interval, or than a     *)
(* quarter of it for the last line: a late record, for which the unsigned   *)
(* window test holds, prints nothing.                                       *)
NoRateOverAShortSpan ==
  IF span.final THEN 4 * span.length >= RATE_WINDOW ELSE span.length >= RATE_WINDOW
=============================================================================
