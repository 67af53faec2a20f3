------------------------------ MODULE DiagEngine ------------------------------
(***************************************************************************)
(* The diag correlation engine (engine.c): a bounded table of device       *)
(* windows, diag_engine_ingest, which appends an event to its device's     *)
(* window and evaluates the event rules it triggers, and diag_engine_tick, *)
(* which evaluates the deadline rules and evicts idle windows.             *)
(*                                                                         *)
(* A window's ring is the newest-first log of BoundedLog; LookbackRing     *)
(* shows that the slot array implements it.  Printing a finding is the     *)
(* history variable `printed' and the summary counter fire_count.          *)
(***************************************************************************)
EXTENDS DiagRules

CONSTANTS
  Device,         \* device keys (bus, dev)
  NoDevice,       \* the key of a zeroed window
  Event,          \* normalized events without their device and time stamp
  WIN_MAX_DEVS,   \* windows in the table (128 in the code)
  EventRule,      \* indices of the rules of type RULE_EVENT
  DeadlineRule,   \* indices of the rules of type RULE_DEADLINE
  Rules,          \* the rules, by index
  RETENTION_NS,   \* a device idle for longer loses its window
  COOLDOWN_NS,    \* least distance of two findings of one (device, rule)
  MaxSkew,        \* how old an event can be when it is ingested
  MaxTime,        \* bound: the clock stops here
  MaxIngest       \* bound: events ingested in one behaviour

VARIABLES
  devs,           \* the windows, by slot
  fire_count,     \* findings per rule, for the summary
  total_fired,    \* findings, for the summary
  now,            \* CLOCK_MONOTONIC, which diag_now_ns and the probes read
  ingested,       \* number of events ingested so far
  out,            \* the findings this step printed, as (device, rule) pairs
  printed,        \* history: when (device, event rule) was last printed, 0 = never
  reported,       \* history: (device, deadline rule) reported this episode
  lost            \* history: when the device's window was last recycled

engineVars == <<devs, fire_count, total_fired>>
historyVars == <<out, printed, reported, lost>>
vars == <<devs, fire_count, total_fired, now, ingested, out, printed, reported, lost>>

Slot  == 1 .. WIN_MAX_DEVS
Rule  == EventRule \cup DeadlineRule
State == 0 .. 8                     \* enum usb_device_state
Time  == Nat                        \* 0 is "not set"

NOTATTACHED == 0

ASSUME EngineAssumption ==
  /\ WIN_MAX_DEVS \in Nat \ {0}
  /\ NoDevice \notin Device
  /\ EventRule \cap DeadlineRule = {}
  /\ IsFiniteSet(EventRule) /\ IsFiniteSet(DeadlineRule) /\ IsFiniteSet(Device)
  /\ RETENTION_NS \in Nat /\ COOLDOWN_NS \in Nat /\ MaxSkew \in Nat
  /\ \A r \in DeadlineRule : Rules[r].timeout \in Nat /\ Rules[r].reached \in Int

\* What makes the time-outs of the engine compatible with each other and with
\* delayed events: an idle window outlives the cooldown and every deadline.
\* Nothing in the code enforces it for the deadlines of a user's rule file.
RetentionSuffices ==
  /\ COOLDOWN_NS + MaxSkew <= RETENTION_NS
  /\ \A r \in DeadlineRule : Rules[r].timeout + MaxSkew <= RETENTION_NS

-----------------------------------------------------------------------------
(* Device windows. *)

ZeroWindow ==
  [used |-> FALSE, key |-> NoDevice, last_seen |-> 0, log |-> << >>,
   seen |-> {}, state_ts |-> [s \in State |-> 0],
   last_fire |-> [r \in EventRule |-> 0], dl_fired |-> {}]

Owned(d) == {s \in Slot : devs[s].used /\ devs[s].key = d}
Free     == {s \in Slot : ~devs[s].used}

\* The first of the windows with the smallest last_seen.
LeastRecent ==
  LET oldest == Smallest({devs[s].last_seen : s \in Slot})
  IN  Smallest({s \in Slot : devs[s].last_seen = oldest})

\* A variant: the scan stops at the first free window, before it has looked
\* at the rest of the table for the device's own.
WinGetEager(d) ==
  IF Free # {} /\ \A s \in Owned(d) : \E f \in Free : f < s
  THEN Smallest(Free)
  ELSE IF Owned(d) # {} THEN Smallest(Owned(d)) ELSE LeastRecent

\* win_get(create): the device's window, else the first free one, else the
\* one of the device seen least recently.
WinGet(d) ==
  IF Owned(d) # {} THEN Smallest(Owned(d))
  ELSE IF Free # {} THEN Smallest(Free) ELSE LeastRecent

\* A variant: the zeroed window is not given its key.
WinOfUnkeyed(d) ==
  LET w == devs[WinGet(d)]
  IN  IF w.used /\ w.key = d THEN w ELSE [ZeroWindow EXCEPT !.used = TRUE]

\* The window win_get returns, zeroed unless it was the device's already.
WinOf(d) ==
  LET w == devs[WinGet(d)]
  IN  IF w.used /\ w.key = d THEN w
      ELSE [ZeroWindow EXCEPT !.used = TRUE, !.key = d]

\* A variant: the latch of the deadline rules survives a re-enumeration.
ResetEnumKeepLatch(w) ==
  [w EXCEPT !.seen = {}, !.state_ts = [s \in State |-> 0]]

\* dev_reset_enum: the deadline rules arm again for the next bring-up.
ResetEnum(w) ==
  [w EXCEPT !.seen = {}, !.state_ts = [s \in State |-> 0], !.dl_fired = {}]

\* Event classes the window's enumeration state depends on.
IsState(e)      == e.kind = "enum" /\ e.step = 0
IsDisconnect(e) == e.kind = "lifecycle" /\ e.action = 1
EndsEpisode(e)  == IsDisconnect(e) \/ (IsState(e) /\ e.new_state = NOTATTACHED)

\* The first time a state is seen since the last reset is kept.
SawState(w, s, ts) ==
  [w EXCEPT !.seen = @ \cup {s},
            !.state_ts[s] = IF @ = 0 THEN ts ELSE @]

Enumerated(w, e) ==
  LET r == IF EndsEpisode(e) THEN ResetEnum(w) ELSE w
  IN  IF IsState(e) /\ e.new_state \in State
      THEN SawState(r, e.new_state, e.ts) ELSE r

\* The window once the event is recorded and before any rule is evaluated.
Recorded(w, e) ==
  Enumerated([w EXCEPT !.last_seen = e.ts, !.log = Pushed(@, e)], e)

-----------------------------------------------------------------------------
(* diag_engine_ingest. *)

\* A variant: the cooldown ends one tick early.
CooldownShort(w, r) == w.last_fire[r] = 0 \/ now - w.last_fire[r] + 1 >= COOLDOWN_NS

CooldownOk(w, r) == w.last_fire[r] = 0 \/ now - w.last_fire[r] >= COOLDOWN_NS

\* The event rules that print a finding for event e in window w.
Firing(w, e) ==
  {r \in EventRule : Fires(Rules[r], w.log, e) /\ CooldownOk(w, r)}

Stamped(e, d, ts) == [dev |-> d, ts |-> ts, kind |-> e.kind, status |-> e.status,
  is_submit |-> e.is_submit, action |-> e.action, step |-> e.step,
  new_state |-> e.new_state]

\* The findings F are printed: emit counts each for the end-of-session report.
Emit(F) ==
  /\ out' = F
  /\ printed' = [d \in Device |-> [r \in EventRule |->
                   IF <<d, r>> \in F THEN now ELSE printed[d][r]]]
  /\ fire_count' = [r \in Rule |->
                      fire_count[r] + Cardinality({f \in F : f[2] = r})]
  /\ total_fired' = total_fired + Cardinality(F)

\* The device whose window the table recycles to make room for d.
Recycles(d) ==
  IF Owned(d) = {} /\ Free = {} THEN {devs[LeastRecent].key} ELSE {}

Ingest(d, ts, e) ==
  LET evt  == Stamped(e, d, ts)
      w    == Recorded(WinOf(d), evt)
      fire == Firing(w, evt)
  IN  /\ ingested < MaxIngest
      /\ devs' = [devs EXCEPT ![WinGet(d)] =
           [w EXCEPT !.last_fire =
              [r \in EventRule |-> IF r \in fire THEN now ELSE @[r]]]]
      /\ Emit({d} \X fire)
      /\ ingested' = ingested + 1
      /\ lost' = [x \in Device |-> IF x \in Recycles(d) THEN now ELSE lost[x]]
      /\ reported' = {p \in reported :
           /\ p[1] \notin Recycles(d)
           /\ p[1] = d => Owned(d) # {} /\ ~EndsEpisode(evt)}
      /\ UNCHANGED now

-----------------------------------------------------------------------------
(* diag_engine_tick. *)

\* A variant: the latch is not consulted.
OverdueUnlatched(w, r) ==
  /\ Rules[r].reached \in State
  /\ Rules[r].reached \in w.seen
  /\ ~(Rules[r].without \in State /\ Rules[r].without \in w.seen)
  /\ now - w.state_ts[Rules[r].reached] >= Rules[r].timeout

\* The device reached one state and not the other within the time-out, and
\* this has not been reported in this episode.
Overdue(w, r) ==
  /\ Rules[r].reached \in State
  /\ Rules[r].reached \in w.seen
  /\ ~(Rules[r].without \in State /\ Rules[r].without \in w.seen)
  /\ now - w.state_ts[Rules[r].reached] >= Rules[r].timeout
  /\ r \notin w.dl_fired

Idle(w) == now - w.last_seen > RETENTION_NS

Due(s) == IF devs[s].used THEN {r \in DeadlineRule : Overdue(devs[s], r)} ELSE {}

\* A window after the tick: what is due is latched, an idle window is freed.
\* Its other fields keep their values until win_get zeroes them.
Ticked(s) ==
  IF devs[s].used
  THEN [devs[s] EXCEPT !.dl_fired = @ \cup Due(s), !.used = ~Idle(devs[s])]
  ELSE devs[s]

\* The findings of a tick, window by window and rule by rule.
TickFindings ==
  {p \in Device \X DeadlineRule : \E s \in Owned(p[1]) : p[2] \in Due(s)}

Tick ==
  /\ devs' = [s \in Slot |-> Ticked(s)]
  /\ Emit(TickFindings)
  /\ reported' = reported \cup TickFindings
  /\ UNCHANGED <<now, ingested, lost>>

\* Time passes; the bound stops the clock, not the engine.
Advance ==
  /\ now < MaxTime
  /\ now' = now + 1
  /\ out' = {}
  /\ UNCHANGED <<devs, fire_count, total_fired, ingested, printed, reported, lost>>

-----------------------------------------------------------------------------

Init ==
  /\ devs = [s \in Slot |-> ZeroWindow]
  /\ fire_count = [r \in Rule |-> 0]
  /\ total_fired = 0
  /\ now = 1
  /\ ingested = 0
  /\ out = {}
  /\ printed = [d \in Device |-> [r \in EventRule |-> 0]]
  /\ reported = {}
  /\ lost = [d \in Device |-> 0]

\* The time stamps an event ingested now can carry: the probe read the clock
\* when the event happened, at most MaxSkew ago.
Stamp == {t \in 1 .. now : now - t <= MaxSkew}

Next ==
  \/ \E d \in Device, e \in Event : \E ts \in Stamp : Ingest(d, ts, e)
  \/ Tick
  \/ Advance

Spec == Init /\ [][Next]_vars

-----------------------------------------------------------------------------
(* Properties. *)

StampedEvent ==
  [dev : Device, ts : Time, kind : {e.kind : e \in Event},
   status : {e.status : e \in Event}, is_submit : {e.is_submit : e \in Event},
   action : {e.action : e \in Event}, step : {e.step : e \in Event},
   new_state : {e.new_state : e \in Event}]

WindowType ==
  [used : BOOLEAN, key : Device \cup {NoDevice}, last_seen : Time,
   log : Seq(StampedEvent), seen : SUBSET State, state_ts : [State -> Time],
   last_fire : [EventRule -> Time], dl_fired : SUBSET DeadlineRule]

(* The types of the engine's state and of its histories.                   *)
TypeOK ==
  /\ devs \in [Slot -> WindowType]
  /\ \A s \in Slot : devs[s].used => devs[s].key \in Device
  /\ fire_count \in [Rule -> Nat]
  /\ total_fired \in Nat
  /\ now \in Nat \ {0}
  /\ ingested \in Nat
  /\ out \subseteq Device \X Rule
  /\ printed \in [Device -> [EventRule -> Time]]
  /\ reported \subseteq Device \X DeadlineRule
  /\ lost \in [Device -> Time]

(* A device never has two windows: its evidence, its cooldown and its      *)
(* latches are in one place, whatever windows were freed or recycled       *)
(* before it (win_get scans the whole table for the key first).            *)
OneWindowPerDevice ==
  \A s, t \in Slot :
    devs[s].used /\ devs[t].used /\ devs[s].key = devs[t].key => s = t

(* "Findings are de-duplicated per (device, rule) with a short cooldown":  *)
(* an event rule prints a second finding for a device within COOLDOWN_NS   *)
(* only if the table was full and recycled the device's window in between. *)
(* Eviction by the tick, however old the events that arrive, never lets a  *)
(* repetition through.                                                     *)
RepeatsOnlyAfterCooldown ==
  [][\A d \in Device, r \in EventRule :
       <<d, r>> \in out' /\ printed[d][r] > 0 =>
         \/ now - printed[d][r] >= COOLDOWN_NS
         \/ lost[d] >= printed[d][r]]_vars

\* The window shows a device that reached a state and not the other.
Stalled(w, r) ==
  /\ Rules[r].reached \in State
  /\ Rules[r].reached \in w.seen
  /\ ~(Rules[r].without \in State /\ Rules[r].without \in w.seen)

(* A deadline rule fires "if a device reached reached_state but not        *)
(* without_state within timeout_ms": the tick never evicts the window of a *)
(* device whose stall in this enumeration it has not reported.             *)
NoStallEvictedUnreported ==
  [][\A s \in Slot :
       devs[s].used /\ ~devs'[s].used =>
         \A r \in DeadlineRule :
           Stalled(devs[s], r) => <<devs[s].key, r>> \in reported']_vars

(* "latch: report once per episode": one enumeration of a device gives at  *)
(* most one finding of a deadline rule.                                    *)
OneReportPerEpisode ==
  [][\A d \in Device, r \in DeadlineRule :
       <<d, r>> \in out' => <<d, r>> \notin reported]_vars

-----------------------------------------------------------------------------
(* The strengthening under which the properties above are inductive. *)

\* No time stamp of a window lies in the future, and none of its state times
\* is newer than its last event by more than the skew of the transports.
WindowTimes ==
  \A s \in Slot : devs[s].used =>
    /\ devs[s].last_seen <= now
    /\ \A st \in State : /\ devs[s].state_ts[st] <= now
                         /\ devs[s].state_ts[st] <= devs[s].last_seen + MaxSkew

\* The latches of a live window are exactly the reports of this episode.
LatchIsReported ==
  \A s \in Slot : devs[s].used =>
    \A r \in DeadlineRule :
      r \in devs[s].dl_fired <=> <<devs[s].key, r>> \in reported

\* While a finding is in its cooldown, the device's window knows of it.
CooldownKept ==
  \A d \in Device, r \in EventRule :
    /\ printed[d][r] <= now
    /\ (printed[d][r] > 0 /\ lost[d] < printed[d][r]
        /\ now - printed[d][r] < COOLDOWN_NS) =>
         \E s \in Owned(d) : /\ devs[s].last_fire[r] = printed[d][r]
                            /\ printed[d][r] <= devs[s].last_seen + MaxSkew

EngineInv ==
  /\ TypeOK
  /\ OneWindowPerDevice
  /\ WindowTimes
  /\ LatchIsReported
  /\ RetentionSuffices => CooldownKept
=============================================================================
