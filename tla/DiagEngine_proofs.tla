--------------------------- MODULE DiagEngine_proofs ---------------------------
(***************************************************************************)
(* Proofs about the diag correlation engine, and about the session of      *)
(* diag_run around it, for any number of devices, windows, rules, events   *)
(* and sources, maps of any size and records that wait in them any time.   *)
(***************************************************************************)
EXTENDS DiagPipeline, TLAPS, FiniteSetTheorems, SequenceTheorems

-----------------------------------------------------------------------------
(* Which window win_get returns. *)

\* The smallest of some numbers is one of them.
LEMMA SmallestIn ==
  ASSUME NEW S \in SUBSET Nat, S # {}
  PROVE  Smallest(S) \in S
<1> DEFINE R == OpToRel(<, Nat)
<1>1. IsWellFoundedOn(R, Nat)
  BY NatLessThanWellFounded
<1>2. \A x, y \in Nat : y < x => <<y, x>> \in R
  BY DEF OpToRel
<1> HIDE DEF R
<1>3. PICK x \in S : \A y \in S : ~ (<<y, x>> \in R)
  BY <1>1, WFMin
<1>4. \A y \in S : y \in Nat /\ x \in Nat
  OBVIOUS
<1>5. \A y \in S : ~ (y < x)
  BY <1>2, <1>3, <1>4
<1>6. \A y \in S : x <= y
  BY <1>4, <1>5, SMT
<1> QED
  BY <1>6 DEF Smallest

\* The eviction scan of win_get ends on a slot of the table.
LEMMA LeastRecentIsASlot ==
  ASSUME TypeOK
  PROVE  LeastRecent \in Slot
<1> USE EngineAssumption DEF Slot
<1> DEFINE seen == {devs[s].last_seen : s \in Slot}
<1>1. seen \in SUBSET Nat /\ seen # {}
  <2>1. \A s \in Slot : devs[s] \in WindowType
    BY DEF TypeOK
  <2>2. \A s \in Slot : devs[s].last_seen \in Nat
    BY <2>1 DEF WindowType, Time
  <2>3. 1 \in Slot
    BY SMT
  <2> QED
    BY <2>2, <2>3
<1>2. Smallest(seen) \in seen
  BY <1>1, SmallestIn
<1> DEFINE late == {s \in Slot : devs[s].last_seen = Smallest(seen)}
<1>3. late \in SUBSET Nat /\ late # {}
  BY <1>2
<1>4. Smallest(late) \in late
  BY <1>3, SmallestIn
<1> QED
  BY <1>4 DEF LeastRecent

\* win_get returns the device's window, else a free one, or one to recycle.
LEMMA WinGetWhere ==
  ASSUME TypeOK, NEW d \in Device
  PROVE  /\ WinGet(d) \in Slot
         /\ Owned(d) # {} => WinGet(d) \in Owned(d)
         /\ Owned(d) = {} /\ Free # {} => WinGet(d) \in Free
         /\ Owned(d) = {} /\ Free = {} => WinGet(d) = LeastRecent
<1>1. Owned(d) \in SUBSET Nat /\ Free \in SUBSET Nat
  BY EngineAssumption DEF Owned, Free, Slot
<1>2. Owned(d) # {} => Smallest(Owned(d)) \in Owned(d)
  BY <1>1, SmallestIn
<1>3. Free # {} => Smallest(Free) \in Free
  BY <1>1, SmallestIn
<1>4. LeastRecent \in Slot
  BY LeastRecentIsASlot
<1>5. Owned(d) \subseteq Slot /\ Free \subseteq Slot
  BY DEF Owned, Free
<1> QED
  BY <1>2, <1>3, <1>4, <1>5 DEF WinGet

-----------------------------------------------------------------------------
(* Operations on one window. *)

\* What win_get's memset leaves is a window.
LEMMA ZeroWindowType == ZeroWindow \in WindowType
<1>1. << >> \in Seq(StampedEvent)
  OBVIOUS
<1> QED
  BY <1>1 DEF ZeroWindow, WindowType, Time

\* win_get zeroes the window unless it is the device's already.
LEMMA WinOfFacts ==
  ASSUME TypeOK, NEW d \in Device
  PROVE  /\ WinOf(d) \in WindowType
         /\ WinOf(d).used
         /\ WinOf(d).key = d
         /\ Owned(d) # {} => WinOf(d) = devs[WinGet(d)]
         /\ Owned(d) = {} => WinOf(d) = [ZeroWindow EXCEPT !.used = TRUE, !.key = d]
<1>1. WinGet(d) \in Slot /\ (Owned(d) # {} => WinGet(d) \in Owned(d))
  BY WinGetWhere
<1>2. devs[WinGet(d)] \in WindowType
  BY <1>1 DEF TypeOK
<1>3. [ZeroWindow EXCEPT !.used = TRUE, !.key = d] \in WindowType
  BY ZeroWindowType DEF WindowType
<1>4. [ZeroWindow EXCEPT !.used = TRUE, !.key = d].used
      /\ [ZeroWindow EXCEPT !.used = TRUE, !.key = d].key = d
  BY DEF ZeroWindow
<1>5. (devs[WinGet(d)].used /\ devs[WinGet(d)].key = d) <=> Owned(d) # {}
  BY <1>1 DEF Owned
<1> QED
  BY <1>2, <1>3, <1>4, <1>5 DEF WinOf

\* A window win_get had to create shows nothing of any device.
LEMMA WinOfZero ==
  ASSUME TypeOK, NEW d \in Device
  PROVE  /\ Owned(d) # {} => WinOf(d) = devs[WinGet(d)]
         /\ Owned(d) = {} => /\ WinOf(d).dl_fired = {} /\ WinOf(d).seen = {}
                             /\ \A st \in State : WinOf(d).state_ts[st] = 0
<1> DEFINE zero == [ZeroWindow EXCEPT !.used = TRUE, !.key = d]
<1>1. zero.dl_fired = {} /\ zero.seen = {} /\ \A st \in State : zero.state_ts[st] = 0
  BY DEF ZeroWindow
<1>2. /\ Owned(d) # {} => WinOf(d) = devs[WinGet(d)]
      /\ Owned(d) = {} => WinOf(d) = zero
  BY WinOfFacts
<1> HIDE DEF zero
<1> QED
  BY <1>1, <1>2

\* win_push keeps the log a bounded sequence of events.
LEMMA PushedType ==
  ASSUME NEW S, NEW log \in Seq(S), NEW e \in S
  PROVE  Pushed(log, e) \in Seq(S)
<1> DEFINE n == IF Len(log) < WIN_MAX_EVENTS THEN Len(log) + 1 ELSE Len(log)
<1>1. Len(log) \in Nat /\ \A i \in 1 .. Len(log) : log[i] \in S
  BY LenProperties, ElementOfSeq
<1>2. n \in Nat /\ n <= Len(log) + 1
  BY <1>1, RingAssumption
<1>3. \A i \in 1 .. n : (IF i = 1 THEN e ELSE log[i - 1]) \in S
  BY <1>1, <1>2
<1>4. [i \in 1 .. n |-> IF i = 1 THEN e ELSE log[i - 1]] \in Seq(S)
  BY <1>2, <1>3, IsASeq
<1> QED
  BY <1>4 DEF Pushed

\* What recording an event changes in a window, and what it keeps.
LEMMA RecordedFacts ==
  ASSUME NEW w \in WindowType, NEW e \in StampedEvent
  PROVE  LET n == Recorded(w, e)
         IN  /\ n \in WindowType
             /\ n.used = w.used /\ n.key = w.key /\ n.last_seen = e.ts
             /\ n.last_fire = w.last_fire
             /\ n.dl_fired = IF EndsEpisode(e) THEN {} ELSE w.dl_fired
             /\ \A s \in State : n.state_ts[s] \in {0, e.ts, w.state_ts[s]}
             /\ n.seen = (IF EndsEpisode(e) THEN {} ELSE w.seen)
                           \cup {s \in State : IsState(e) /\ e.new_state = s}
<1> DEFINE a == [w EXCEPT !.last_seen = e.ts, !.log = Pushed(w.log, e)]
<1> DEFINE b == IF EndsEpisode(e) THEN ResetEnum(a) ELSE a
<1>1. e.ts \in Time /\ w.log \in Seq(StampedEvent)
  BY DEF StampedEvent, WindowType
<1>2. Pushed(w.log, e) \in Seq(StampedEvent)
  BY <1>1, PushedType
<1>3. /\ a \in WindowType
      /\ a.used = w.used /\ a.key = w.key /\ a.last_seen = e.ts
      /\ a.last_fire = w.last_fire /\ a.dl_fired = w.dl_fired
      /\ a.state_ts = w.state_ts /\ a.seen = w.seen
  BY <1>1, <1>2 DEF WindowType
<1> HIDE DEF a
<1>4. /\ b \in WindowType
      /\ b.used = w.used /\ b.key = w.key /\ b.last_seen = e.ts
      /\ b.last_fire = w.last_fire
      /\ b.dl_fired = IF EndsEpisode(e) THEN {} ELSE w.dl_fired
      /\ \A s \in State : b.state_ts[s] \in {0, w.state_ts[s]}
      /\ b.seen = IF EndsEpisode(e) THEN {} ELSE w.seen
  BY <1>3 DEF WindowType, ResetEnum, Time
<1> HIDE DEF b
<1>5. ASSUME NEW s \in State
      PROVE  LET c == SawState(b, s, e.ts)
             IN  /\ c \in WindowType
                 /\ c.used = b.used /\ c.key = b.key /\ c.last_seen = b.last_seen
                 /\ c.last_fire = b.last_fire /\ c.dl_fired = b.dl_fired
                 /\ \A t \in State : c.state_ts[t] \in {e.ts, b.state_ts[t]}
                 /\ c.seen = b.seen \cup {s}
  BY <1>1, <1>4 DEF WindowType, SawState, Time
<1>6. Recorded(w, e) = Enumerated(a, e)
  BY DEF Recorded, a
<1>7. Enumerated(a, e) =
        IF IsState(e) /\ e.new_state \in State THEN SawState(b, e.new_state, e.ts) ELSE b
  BY DEF Enumerated, b
<1>8. CASE IsState(e) /\ e.new_state \in State
  BY <1>4, <1>5, <1>6, <1>7, <1>8
<1>9. CASE ~(IsState(e) /\ e.new_state \in State)
  BY <1>4, <1>6, <1>7, <1>9
<1> QED
  BY <1>8, <1>9

-----------------------------------------------------------------------------
(* The two handlers. *)

\* One step prints finitely many findings, so its counts are numbers.
LEMMA FindingsFinite ==
  ASSUME NEW F \in SUBSET (Device \X Rule)
  PROVE  /\ Cardinality(F) \in Nat
         /\ \A r : Cardinality({f \in F : f[2] = r}) \in Nat
<1>1. IsFiniteSet(Rule) /\ IsFiniteSet(Device)
  BY EngineAssumption, FS_Union DEF Rule
<1>2. IsFiniteSet(Device \X Rule)
  BY <1>1, FS_Product
<1>3. \A G \in SUBSET (Device \X Rule) : Cardinality(G) \in Nat
  BY <1>2, FS_Subset, FS_CardinalityType
<1>4. \A r : {f \in F : f[2] = r} \in SUBSET (Device \X Rule)
  OBVIOUS
<1> QED
  BY <1>3, <1>4

\* Printing findings keeps the counters and the histories typed.
LEMMA EmitType ==
  ASSUME TypeOK, NEW F \in SUBSET (Device \X Rule), Emit(F)
  PROVE  /\ fire_count' \in [Rule -> Nat]
         /\ total_fired' \in Nat
         /\ out' \subseteq Device \X Rule
         /\ printed' \in [Device -> [EventRule -> Time]]
<1>1. Cardinality(F) \in Nat /\ \A r : Cardinality({f \in F : f[2] = r}) \in Nat
  BY FindingsFinite
<1> DEFINE c(r) == Cardinality({f \in F : f[2] = r})
<1>2. \A r \in Rule : c(r) \in Nat
  BY <1>1
<1>3. fire_count' = [r \in Rule |-> fire_count[r] + c(r)] /\ fire_count \in [Rule -> Nat]
  BY DEF Emit, TypeOK
<1> HIDE DEF c
<1>4. fire_count' \in [Rule -> Nat]
  BY <1>2, <1>3
<1>5. total_fired' \in Nat
  BY <1>1 DEF Emit, TypeOK
<1>6. printed' \in [Device -> [EventRule -> Time]]
  BY DEF Emit, TypeOK, Time
<1> QED
  BY <1>4, <1>5, <1>6 DEF Emit

\* What diag_engine_ingest does to the window of its device: nw is the
\* window it leaves, fire are the event rules it prints a finding for.
IngestResult(d, ts, evt, nw, fire) ==
  /\ nw \in WindowType
  /\ devs' = [devs EXCEPT ![WinGet(d)] = nw]
  /\ nw.used /\ nw.key = d /\ nw.last_seen = ts
  /\ fire = Firing(Recorded(WinOf(d), evt), evt)
  /\ \A r \in EventRule :
       nw.last_fire[r] = IF r \in fire THEN now ELSE WinOf(d).last_fire[r]
  /\ nw.dl_fired = IF EndsEpisode(evt) THEN {} ELSE WinOf(d).dl_fired
  /\ \A s \in State : nw.state_ts[s] \in {0, ts, WinOf(d).state_ts[s]}
  /\ nw.seen = (IF EndsEpisode(evt) THEN {} ELSE WinOf(d).seen)
                 \cup {s \in State : IsState(evt) /\ evt.new_state = s}
  /\ Emit({d} \X fire)

(* The handler does to the window of the device what IngestResult says,    *)
(* however old the event is.                                               *)
LEMMA IngestStep ==
  ASSUME TypeOK, NEW d \in Device, NEW e \in Event, NEW ts \in Time, Ingest(d, ts, e)
  PROVE  \E nw, fire : IngestResult(d, ts, Stamped(e, d, ts), nw, fire)
<1> DEFINE evt == Stamped(e, d, ts)
           w   == Recorded(WinOf(d), evt)
           fire == Firing(w, evt)
           nw  == [w EXCEPT !.last_fire =
                     [r \in EventRule |-> IF r \in fire THEN now ELSE w.last_fire[r]]]
<1>1. now \in Time /\ ts \in Time
  BY DEF TypeOK, Time
<1>2. evt \in StampedEvent /\ evt.ts = ts
  BY <1>1 DEF Stamped, StampedEvent
<1>3. WinOf(d) \in WindowType /\ WinOf(d).used /\ WinOf(d).key = d
  BY WinOfFacts
<1> SUFFICES IngestResult(d, ts, evt, nw, fire)
  OBVIOUS
<1> HIDE DEF evt
<1>4. /\ w \in WindowType /\ w.used /\ w.key = d /\ w.last_seen = ts
      /\ w.last_fire = WinOf(d).last_fire
      /\ w.dl_fired = IF EndsEpisode(evt) THEN {} ELSE WinOf(d).dl_fired
      /\ \A s \in State : w.state_ts[s] \in {0, ts, WinOf(d).state_ts[s]}
      /\ w.seen = (IF EndsEpisode(evt) THEN {} ELSE WinOf(d).seen)
                    \cup {s \in State : IsState(evt) /\ evt.new_state = s}
  BY <1>2, <1>3, RecordedFacts
<1>5. devs' = [devs EXCEPT ![WinGet(d)] = nw] /\ Emit({d} \X fire)
  BY DEF Ingest, evt
<1>6. fire = Firing(Recorded(WinOf(d), evt), evt)
  OBVIOUS
<1> HIDE DEF w
<1> HIDE DEF fire
<1>7. /\ nw \in WindowType /\ nw.used /\ nw.key = d /\ nw.last_seen = ts
      /\ nw.dl_fired = w.dl_fired /\ nw.state_ts = w.state_ts /\ nw.seen = w.seen
      /\ \A r \in EventRule :
           nw.last_fire[r] = IF r \in fire THEN now ELSE w.last_fire[r]
  BY <1>1, <1>4 DEF WindowType
<1> HIDE DEF nw
<1> QED
  BY <1>4, <1>5, <1>6, <1>7 DEF IngestResult

\* What diag_engine_tick does to the window in slot s.
LEMMA TickStep ==
  ASSUME TypeOK, NEW s \in Slot
  PROVE  /\ Ticked(s) \in WindowType
         /\ Ticked(s).key = devs[s].key
         /\ Ticked(s).last_seen = devs[s].last_seen
         /\ Ticked(s).state_ts = devs[s].state_ts
         /\ Ticked(s).seen = devs[s].seen
         /\ Ticked(s).last_fire = devs[s].last_fire
         /\ Ticked(s).used <=> devs[s].used /\ ~Idle(devs[s])
         /\ devs[s].used => Ticked(s).dl_fired = devs[s].dl_fired \cup Due(s)
<1>1. devs[s] \in WindowType
  BY DEF TypeOK
<1>2. Due(s) \subseteq DeadlineRule
  BY DEF Due
<1>3. Idle(devs[s]) \in BOOLEAN
  BY DEF Idle
<1> QED
  BY <1>1, <1>2, <1>3 DEF Ticked, WindowType

\* A tick prints findings of deadline rules about devices.
LEMMA TickFindingsType ==
  /\ TickFindings \in SUBSET (Device \X Rule)
  /\ TickFindings \subseteq Device \X DeadlineRule
BY DEF TickFindings, Rule

-----------------------------------------------------------------------------
(* Type correctness. *)

\* Types, action by action.
LEMMA InitType == Init => TypeOK
<1> SUFFICES ASSUME Init PROVE TypeOK
  OBVIOUS
<1>1. devs \in [Slot -> WindowType] /\ \A s \in Slot : devs[s].used => devs[s].key \in Device
  BY ZeroWindowType DEF Init, ZeroWindow
<1> QED
  BY <1>1 DEF Init, TypeOK, Time

\* ... diag_engine_ingest.
LEMMA IngestType ==
  ASSUME TypeOK, NEW d \in Device, NEW e \in Event, NEW ts \in Time, Ingest(d, ts, e)
  PROVE  TypeOK'
<1>1. PICK nw, fire : IngestResult(d, ts, Stamped(e, d, ts), nw, fire)
  BY IngestStep
<1>2. fire \subseteq EventRule
  BY <1>1 DEF IngestResult, Firing
<1>3. {d} \X fire \in SUBSET (Device \X Rule)
  BY <1>2 DEF Rule
<1>4. Emit({d} \X fire)
  BY <1>1 DEF IngestResult
<1>5. /\ fire_count' \in [Rule -> Nat] /\ total_fired' \in Nat
      /\ out' \subseteq Device \X Rule /\ printed' \in [Device -> [EventRule -> Time]]
  BY <1>3, <1>4, EmitType
<1>6. /\ devs' \in [Slot -> WindowType]
      /\ \A s \in Slot : devs'[s].used => devs'[s].key \in Device
  <2>1. /\ nw \in WindowType /\ nw.key = d
        /\ devs' = [devs EXCEPT ![WinGet(d)] = nw]
    BY <1>1 DEF IngestResult
  <2> QED
    BY <2>1 DEF TypeOK
<1>7. lost' \in [Device -> Time] /\ reported' \subseteq reported
      /\ now' = now /\ ingested' = ingested + 1
  BY DEF Ingest, TypeOK, Time
<1> QED
  BY <1>5, <1>6, <1>7 DEF TypeOK

\* ... diag_engine_tick.
LEMMA TickType == TypeOK /\ Tick => TypeOK'
<1> SUFFICES ASSUME TypeOK, Tick PROVE TypeOK'
  OBVIOUS
<1>1. Emit(TickFindings)
  BY DEF Tick
<1>2. /\ fire_count' \in [Rule -> Nat] /\ total_fired' \in Nat
      /\ out' \subseteq Device \X Rule /\ printed' \in [Device -> [EventRule -> Time]]
  BY <1>1, TickFindingsType, EmitType
<1>3. /\ devs' \in [Slot -> WindowType]
      /\ \A s \in Slot : devs'[s].used => devs'[s].key \in Device
  BY TickStep DEF Tick, TypeOK
<1> QED
  BY <1>2, <1>3, TickFindingsType DEF Tick, TypeOK

\* A stamp is a time.
LEMMA StampIsTime == TypeOK => Stamp \subseteq Time
BY DEF TypeOK, Stamp, Time

\* ... the clock.
LEMMA AdvanceType == TypeOK /\ Advance => TypeOK'
BY DEF TypeOK, Advance, Time

\* ... and no step.
LEMMA StutterType == TypeOK /\ UNCHANGED vars => TypeOK'
BY DEF TypeOK, vars

\* The engine's state, its counters and its histories stay well typed,
\* whatever is ingested and however the table is recycled (engine.c).
THEOREM TypeCorrect == Spec => []TypeOK
<1>1. TypeOK /\ [Next]_vars => TypeOK'
  BY IngestType, StampIsTime, TickType, AdvanceType, StutterType DEF Next
<1> QED
  BY <1>1, InitType, PTL DEF Spec

-----------------------------------------------------------------------------
(* The inductive invariant under one ingest. *)

\* The table recycles the window of no device that owns another one.
LEMMA IngestFrame ==
  ASSUME TypeOK, OneWindowPerDevice, NEW d \in Device, NEW s \in Slot,
         s # WinGet(d), devs[s].used
  PROVE  devs[s].key # d /\ devs[s].key \notin Recycles(d)
<1>1. /\ WinGet(d) \in Slot
      /\ Owned(d) # {} => WinGet(d) \in Owned(d)
      /\ Owned(d) = {} /\ Free = {} => WinGet(d) = LeastRecent
  BY WinGetWhere
<1>2. devs[s].key # d
  BY <1>1 DEF OneWindowPerDevice, Owned
<1>3. CASE Owned(d) = {} /\ Free = {}
  <2>1. devs[WinGet(d)].used
    BY <1>1, <1>3 DEF Free
  <2> QED
    BY <1>1, <1>2, <1>3, <2>1 DEF OneWindowPerDevice, Recycles
<1>4. CASE ~(Owned(d) = {} /\ Free = {})
  BY <1>2, <1>4 DEF Recycles
<1> QED
  BY <1>3, <1>4

\* A device whose window an ingest of another device overwrites is recycled.
LEMMA IngestVictim ==
  ASSUME TypeOK, NEW d \in Device, NEW x \in Device, x # d, WinGet(d) \in Owned(x)
  PROVE  x \in Recycles(d)
<1>1. /\ Owned(d) # {} => WinGet(d) \in Owned(d)
      /\ Owned(d) = {} /\ Free # {} => WinGet(d) \in Free
      /\ Owned(d) = {} /\ Free = {} => WinGet(d) = LeastRecent
  BY WinGetWhere
<1> QED
  BY <1>1 DEF Owned, Free, Recycles

(* What an ingest preserves however long the record waited: types, one      *)
(* window per device, and the latch of the deadline rules.                 *)
LEMMA IngestSafe ==
  ASSUME TypeOK, OneWindowPerDevice, LatchIsReported,
         NEW d \in Device, NEW e \in Event, NEW ts \in Time, Ingest(d, ts, e)
  PROVE  TypeOK' /\ OneWindowPerDevice' /\ LatchIsReported'
<1> DEFINE evt == Stamped(e, d, ts)
           g   == WinGet(d)
<1>1. PICK nw, fire : IngestResult(d, ts, evt, nw, fire)
  BY IngestStep
<1>2. /\ g \in Slot
      /\ Owned(d) # {} => g \in Owned(d)
  BY WinGetWhere
<1>3. /\ devs' = [devs EXCEPT ![g] = nw]
      /\ nw \in WindowType /\ nw.used /\ nw.key = d
      /\ nw.dl_fired = IF EndsEpisode(evt) THEN {} ELSE WinOf(d).dl_fired
  BY <1>1 DEF IngestResult
<1>4. reported' = {p \in reported :
           /\ p[1] \notin Recycles(d)
           /\ p[1] = d => Owned(d) # {} /\ ~EndsEpisode(evt)}
  BY DEF Ingest
<1>5. /\ devs'[g] = nw
      /\ \A s \in Slot : s # g => devs'[s] = devs[s]
      /\ devs \in [Slot -> WindowType]
  BY <1>2, <1>3 DEF TypeOK
<1>6. /\ Owned(d) # {} => WinOf(d) = devs[g] /\ devs[g].used /\ devs[g].key = d
      /\ Owned(d) = {} => WinOf(d).dl_fired = {}
  BY WinOfZero, <1>2 DEF Owned
<1>7. \A s \in Slot : s # g /\ devs[s].used => devs[s].key # d /\ devs[s].key \notin Recycles(d)
  BY IngestFrame
<1> HIDE DEF evt, g
<1>8. TypeOK'
  BY IngestType
<1>9. OneWindowPerDevice'
  <2> SUFFICES ASSUME NEW s \in Slot, NEW t \in Slot, devs'[s].used, devs'[t].used,
                      devs'[s].key = devs'[t].key
               PROVE  s = t
    BY DEF OneWindowPerDevice
  <2>1. CASE s = g \/ t = g
    BY <1>3, <1>5, <1>7, <2>1
  <2>2. CASE s # g /\ t # g
    BY <1>5, <2>2 DEF OneWindowPerDevice
  <2> QED
    BY <2>1, <2>2
<1>10. LatchIsReported'
  <2> SUFFICES ASSUME NEW s \in Slot, devs'[s].used, NEW r \in DeadlineRule
               PROVE  r \in devs'[s].dl_fired <=> <<devs'[s].key, r>> \in reported'
    BY DEF LatchIsReported
  <2>1. CASE s # g
    <3>1. r \in devs[s].dl_fired <=> <<devs[s].key, r>> \in reported
      BY <1>5, <2>1 DEF LatchIsReported
    <3> QED
      BY <1>4, <1>5, <1>7, <2>1, <3>1
  <2>2. CASE s = g
    <3>1. Owned(d) # {} => Recycles(d) = {}
      BY DEF Recycles
    <3>2. Owned(d) # {} => (r \in WinOf(d).dl_fired <=> <<d, r>> \in reported)
      BY <1>2, <1>6 DEF LatchIsReported
    <3> QED
      BY <1>3, <1>4, <1>5, <1>6, <2>2, <3>1, <3>2
  <2> QED
    BY <2>1, <2>2
<1> QED
  BY <1>8, <1>9, <1>10

\* The whole invariant needs the bound on how old an ingested event is.
LEMMA IngestInv ==
  ASSUME EngineInv, NEW d \in Device, NEW e \in Event, NEW ts \in Stamp, Ingest(d, ts, e)
  PROVE  EngineInv'
<1> DEFINE evt == Stamped(e, d, ts)
           g   == WinGet(d)
<1>0. /\ TypeOK /\ OneWindowPerDevice /\ WindowTimes /\ LatchIsReported
      /\ RetentionSuffices => CooldownKept
  BY DEF EngineInv
<1>1. PICK nw, fire : IngestResult(d, ts, evt, nw, fire)
  BY <1>0, IngestStep, StampIsTime
<1>2. /\ g \in Slot
      /\ Owned(d) # {} => g \in Owned(d)
  BY <1>0, WinGetWhere
<1>3. /\ devs' = [devs EXCEPT ![g] = nw]
      /\ nw \in WindowType /\ nw.used /\ nw.key = d /\ nw.last_seen = ts
      /\ \A r \in EventRule :
           nw.last_fire[r] = IF r \in fire THEN now ELSE WinOf(d).last_fire[r]
      /\ nw.dl_fired = IF EndsEpisode(evt) THEN {} ELSE WinOf(d).dl_fired
      /\ \A st \in State : nw.state_ts[st] \in {0, ts, WinOf(d).state_ts[st]}
      /\ Emit({d} \X fire)
  BY <1>1 DEF IngestResult
<1>4. /\ now' = now
      /\ lost' = [x \in Device |-> IF x \in Recycles(d) THEN now ELSE lost[x]]
      /\ reported' = {p \in reported :
           /\ p[1] \notin Recycles(d)
           /\ p[1] = d => Owned(d) # {} /\ ~EndsEpisode(evt)}
  BY DEF Ingest
<1>5. now \in Nat /\ ts \in Nat /\ ts <= now /\ now <= ts + MaxSkew /\ MaxSkew \in Nat
  BY <1>0, EngineAssumption DEF TypeOK, Stamp
<1>6. /\ devs'[g] = nw
      /\ \A s \in Slot : s # g => devs'[s] = devs[s]
      /\ devs \in [Slot -> WindowType]
  BY <1>0, <1>2, <1>3 DEF TypeOK
<1>7. /\ Owned(d) # {} => WinOf(d) = devs[g] /\ devs[g].used /\ devs[g].key = d
      /\ Owned(d) = {} => \A st \in State : WinOf(d).state_ts[st] = 0
  BY <1>0, <1>2, WinOfZero DEF Owned
<1>8. \A s \in Slot : s # g /\ devs[s].used => devs[s].key # d /\ devs[s].key \notin Recycles(d)
  BY <1>0, IngestFrame
<1> HIDE DEF evt, g
<1>9. TypeOK' /\ OneWindowPerDevice' /\ LatchIsReported'
  BY <1>0, IngestSafe, StampIsTime
<1>10. WindowTimes'
  <2> SUFFICES ASSUME NEW s \in Slot, devs'[s].used
               PROVE  /\ devs'[s].last_seen <= now
                      /\ \A st \in State :
                           /\ devs'[s].state_ts[st] <= now
                           /\ devs'[s].state_ts[st] <= devs'[s].last_seen + MaxSkew
    BY <1>4 DEF WindowTimes
  <2>1. CASE s # g
    BY <1>0, <1>6, <2>1 DEF WindowTimes
  <2>2. CASE s = g
    <3>1. \A st \in State : nw.state_ts[st] \in Nat /\ nw.state_ts[st] <= now
      <4> SUFFICES ASSUME NEW st \in State
                   PROVE  nw.state_ts[st] \in Nat /\ nw.state_ts[st] <= now
        OBVIOUS
      <4>1. nw.state_ts[st] \in Nat
        BY <1>3 DEF WindowType, Time
      <4>2. Owned(d) # {} => WinOf(d).state_ts[st] <= now
        BY <1>0, <1>2, <1>7 DEF WindowTimes
      <4> QED
        BY <1>3, <1>5, <1>7, <4>1, <4>2
    <3> QED
      BY <1>3, <1>5, <1>6, <2>2, <3>1
  <2> QED
    BY <2>1, <2>2
<1>11. ASSUME RetentionSuffices PROVE CooldownKept'
  <2> SUFFICES ASSUME NEW x \in Device, NEW r \in EventRule
               PROVE  /\ printed'[x][r] <= now
                      /\ (/\ printed'[x][r] > 0
                          /\ lost'[x] < printed'[x][r]
                          /\ now - printed'[x][r] < COOLDOWN_NS) =>
                           \E s \in Owned(x)' :
                             /\ devs'[s].last_fire[r] = printed'[x][r]
                             /\ printed'[x][r] <= devs'[s].last_seen + MaxSkew
    BY <1>4 DEF CooldownKept
  <2>1. /\ printed[x][r] \in Nat /\ printed[x][r] <= now
        /\ lost'[x] = IF x \in Recycles(d) THEN now ELSE lost[x]
        /\ printed'[x][r] = IF x = d /\ r \in fire THEN now ELSE printed[x][r]
    BY <1>0, <1>11, <1>3, <1>4 DEF CooldownKept, TypeOK, Time, Emit
  <2>2. \A s : s \in Owned(x)' <=> s \in Slot /\ devs'[s].used /\ devs'[s].key = x
    BY DEF Owned
  <2>3. CASE x = d /\ r \in fire
    BY <1>2, <1>3, <1>5, <1>6, <2>1, <2>2, <2>3
  <2>4. CASE ~(x = d /\ r \in fire)
    <3> SUFFICES ASSUME printed[x][r] > 0, lost'[x] < printed[x][r],
                        now - printed[x][r] < COOLDOWN_NS
                 PROVE  \E s \in Owned(x)' :
                          /\ devs'[s].last_fire[r] = printed[x][r]
                          /\ printed[x][r] <= devs'[s].last_seen + MaxSkew
      BY <2>1, <2>4
    <3>1. x \notin Recycles(d) /\ lost[x] < printed[x][r]
      BY <1>5, <2>1
    <3>2. PICK s \in Owned(x) : /\ devs[s].last_fire[r] = printed[x][r]
                                /\ printed[x][r] <= devs[s].last_seen + MaxSkew
      BY <1>0, <1>11, <3>1 DEF CooldownKept
    <3>3. s \in Slot /\ devs[s].used /\ devs[s].key = x
      BY <3>2 DEF Owned
    <3>4. CASE x = d
      <4>1. s = g
        BY <1>8, <3>3, <3>4
      <4>2. devs'[g].last_fire[r] = printed[x][r]
        BY <1>3, <1>6, <1>7, <2>4, <3>2, <3>4, <4>1
      <4> QED
        BY <1>2, <1>3, <1>5, <1>6, <2>1, <2>2, <3>4, <4>2
    <3>5. CASE x # d
      <4>1. s # g
        BY <1>0, <3>1, <3>2, <3>5, IngestVictim DEF g
      <4> QED
        BY <1>6, <2>2, <3>2, <3>3, <4>1
    <3> QED
      BY <3>4, <3>5
  <2> QED
    BY <2>3, <2>4
<1> QED
  BY <1>9, <1>10, <1>11 DEF EngineInv

-----------------------------------------------------------------------------
(* The inductive invariant under one tick, and the passing of time. *)

\* What a tick preserves whatever the time stamps in the windows are.
LEMMA TickSafe ==
  ASSUME TypeOK, OneWindowPerDevice, LatchIsReported, Tick
  PROVE  TypeOK' /\ OneWindowPerDevice' /\ LatchIsReported'
<1>1. /\ devs' = [s \in Slot |-> Ticked(s)]
      /\ reported' = reported \cup TickFindings
  BY DEF Tick
<1>2. \A s \in Slot :
        /\ devs'[s].key = devs[s].key
        /\ devs'[s].used <=> devs[s].used /\ ~Idle(devs[s])
        /\ devs[s].used => devs'[s].dl_fired = devs[s].dl_fired \cup Due(s)
  BY <1>1, TickStep
<1>3. TypeOK'
  BY TickType
<1>4. OneWindowPerDevice'
  BY <1>2 DEF OneWindowPerDevice
<1>5. LatchIsReported'
  <2> SUFFICES ASSUME NEW s \in Slot, devs'[s].used, NEW r \in DeadlineRule
               PROVE  r \in devs'[s].dl_fired <=> <<devs'[s].key, r>> \in reported'
    BY DEF LatchIsReported
  <2>1. devs[s].used /\ devs[s].key \in Device
    BY <1>2 DEF TypeOK
  <2>2. r \in devs[s].dl_fired <=> <<devs[s].key, r>> \in reported
    BY <2>1 DEF LatchIsReported
  <2>3. \A t \in Owned(devs[s].key) : t = s
    BY <2>1 DEF Owned, OneWindowPerDevice
  <2>4. s \in Owned(devs[s].key)
    BY <2>1 DEF Owned
  <2>5. r \in Due(s) <=> <<devs[s].key, r>> \in TickFindings
    BY <2>1, <2>3, <2>4 DEF TickFindings
  <2> QED
    BY <1>1, <1>2, <2>1, <2>2, <2>5
<1> QED
  BY <1>3, <1>4, <1>5

\* An eviction keeps the cooldowns: an idle window is older than any of them.
LEMMA TickInv == EngineInv /\ Tick => EngineInv'
<1> SUFFICES ASSUME EngineInv, Tick PROVE EngineInv'
  OBVIOUS
<1>0. /\ TypeOK /\ OneWindowPerDevice /\ WindowTimes /\ LatchIsReported
      /\ RetentionSuffices => CooldownKept
  BY DEF EngineInv
<1>1. /\ devs' = [s \in Slot |-> Ticked(s)]
      /\ Emit(TickFindings) /\ reported' = reported \cup TickFindings
      /\ now' = now /\ lost' = lost
  BY DEF Tick
<1>2. \A s \in Slot :
        /\ devs'[s].key = devs[s].key
        /\ devs'[s].last_seen = devs[s].last_seen
        /\ devs'[s].state_ts = devs[s].state_ts
        /\ devs'[s].last_fire = devs[s].last_fire
        /\ devs'[s].used <=> devs[s].used /\ ~Idle(devs[s])
        /\ devs[s].used => devs'[s].dl_fired = devs[s].dl_fired \cup Due(s)
  BY <1>0, <1>1, TickStep
<1>3. TypeOK' /\ OneWindowPerDevice' /\ LatchIsReported'
  BY <1>0, TickSafe
<1>4. WindowTimes'
  BY <1>0, <1>1, <1>2 DEF WindowTimes
<1>5. ASSUME RetentionSuffices PROVE CooldownKept'
  <2> SUFFICES ASSUME NEW x \in Device, NEW r \in EventRule
               PROVE  /\ printed'[x][r] <= now
                      /\ (/\ printed'[x][r] > 0
                          /\ lost[x] < printed'[x][r]
                          /\ now - printed'[x][r] < COOLDOWN_NS) =>
                           \E s \in Owned(x)' :
                             /\ devs'[s].last_fire[r] = printed'[x][r]
                             /\ printed'[x][r] <= devs'[s].last_seen + MaxSkew
    BY <1>1 DEF CooldownKept
  <2>1. <<x, r>> \notin TickFindings
    BY EngineAssumption DEF TickFindings
  <2>2. printed'[x][r] = printed[x][r]
    BY <1>1, <2>1 DEF Emit
  <2>3. printed[x][r] \in Nat /\ printed[x][r] <= now
    BY <1>0, <1>5 DEF TypeOK, Time, CooldownKept
  <2>4. ASSUME printed[x][r] > 0, lost[x] < printed[x][r],
               now - printed[x][r] < COOLDOWN_NS
        PROVE  \E s \in Owned(x)' :
                 /\ devs'[s].last_fire[r] = printed[x][r]
                 /\ printed[x][r] <= devs'[s].last_seen + MaxSkew
    <3>1. PICK s \in Owned(x) : /\ devs[s].last_fire[r] = printed[x][r]
                                /\ printed[x][r] <= devs[s].last_seen + MaxSkew
      BY <1>0, <1>5, <2>4 DEF CooldownKept
    <3>2. s \in Slot /\ devs[s].used /\ devs[s].key = x
      BY <3>1 DEF Owned
    <3>3. devs[s].last_seen \in Nat /\ now \in Nat
      BY <1>0, <3>2 DEF TypeOK, WindowType, Time
    <3>4. ~Idle(devs[s])
      BY <2>3, <2>4, <3>1, <3>3, <1>5, EngineAssumption DEF Idle, RetentionSuffices
    <3>5. s \in Owned(x)'
      BY <1>2, <3>2, <3>4 DEF Owned
    <3> QED
      BY <1>2, <3>1, <3>2, <3>5
  <2> QED
    BY <2>2, <2>3, <2>4
<1> QED
  BY <1>3, <1>4, <1>5 DEF EngineInv

\* As time passes cooldowns only run out.
LEMMA AdvanceInv == EngineInv /\ Advance => EngineInv'
<1> SUFFICES ASSUME EngineInv, Advance PROVE EngineInv'
  OBVIOUS
<1>0. /\ TypeOK /\ OneWindowPerDevice /\ WindowTimes /\ LatchIsReported
      /\ RetentionSuffices => CooldownKept
  BY DEF EngineInv
<1>1. /\ devs' = devs /\ printed' = printed /\ reported' = reported /\ lost' = lost
      /\ now' = now + 1 /\ now \in Nat /\ COOLDOWN_NS \in Nat
  BY <1>0, EngineAssumption DEF Advance, TypeOK
<1>2. TypeOK'
  BY <1>0, AdvanceType
<1>3. OneWindowPerDevice'
  BY <1>0, <1>1 DEF OneWindowPerDevice
<1>4. WindowTimes'
  <2>1. \A s \in Slot : devs[s].last_seen \in Nat /\ \A st \in State : devs[s].state_ts[st] \in Nat
    BY <1>0 DEF TypeOK, WindowType, Time
  <2> QED
    BY <1>0, <1>1, <2>1 DEF WindowTimes
<1>5. LatchIsReported'
  BY <1>0, <1>1 DEF LatchIsReported
<1>6. ASSUME RetentionSuffices PROVE CooldownKept'
  <2>0. \A x : Owned(x)' = Owned(x)
    BY <1>1 DEF Owned
  <2> SUFFICES ASSUME NEW x \in Device, NEW r \in EventRule
               PROVE  /\ printed'[x][r] <= now'
                      /\ (/\ printed'[x][r] > 0
                          /\ lost'[x] < printed'[x][r]
                          /\ now' - printed'[x][r] < COOLDOWN_NS) =>
                           \E s \in Owned(x)' :
                             /\ devs'[s].last_fire[r] = printed'[x][r]
                             /\ printed'[x][r] <= devs'[s].last_seen + MaxSkew
    BY DEF CooldownKept
  <2>1. printed[x][r] \in Nat /\ printed[x][r] <= now
    BY <1>0, <1>6 DEF TypeOK, Time, CooldownKept
  <2>2. now + 1 - printed[x][r] < COOLDOWN_NS => now - printed[x][r] < COOLDOWN_NS
    BY <1>1, <2>1
  <2>3. (/\ printed[x][r] > 0
         /\ lost[x] < printed[x][r]
         /\ now - printed[x][r] < COOLDOWN_NS) =>
           \E s \in Owned(x) :
             /\ devs[s].last_fire[r] = printed[x][r]
             /\ printed[x][r] <= devs[s].last_seen + MaxSkew
    BY <1>0, <1>6 DEF CooldownKept
  <2> QED
    BY <1>1, <2>0, <2>1, <2>2, <2>3
<1> QED
  BY <1>2, <1>3, <1>4, <1>5, <1>6 DEF EngineInv

\* No step.
LEMMA StutterInv == EngineInv /\ UNCHANGED vars => EngineInv'
<1> SUFFICES ASSUME EngineInv, UNCHANGED vars PROVE EngineInv'
  OBVIOUS
<1> USE DEF EngineInv, vars
<1>1. TypeOK'
  BY StutterType
<1>2. OneWindowPerDevice'
  BY DEF OneWindowPerDevice
<1>3. WindowTimes'
  BY DEF WindowTimes
<1>4. LatchIsReported'
  BY DEF LatchIsReported
<1>5. ASSUME RetentionSuffices PROVE CooldownKept'
  BY <1>5 DEF CooldownKept, Owned
<1> QED
  BY <1>1, <1>2, <1>3, <1>4, <1>5

\* diag_engine_init: no window is in use.
LEMMA InitInv == Init => EngineInv
<1> SUFFICES ASSUME Init PROVE EngineInv
  OBVIOUS
<1>1. TypeOK
  BY InitType
<1>2. \A s \in Slot : ~devs[s].used
  BY DEF Init, ZeroWindow
<1>3. CooldownKept
  BY DEF Init, CooldownKept
<1> QED
  BY <1>1, <1>2, <1>3 DEF EngineInv, OneWindowPerDevice, WindowTimes, LatchIsReported

\* The engine's inductive invariant: one window per device, window times that
\* trail the clock, latches that are exactly the reports of the episode, and
\* cooldowns the window remembers.
THEOREM Invariant == Spec => []EngineInv
<1>1. EngineInv /\ [Next]_vars => EngineInv'
  BY IngestInv, TickInv, AdvanceInv, StutterInv DEF Next
<1> QED
  BY <1>1, InitInv, PTL DEF Spec

-----------------------------------------------------------------------------
(* What follows from the invariant. *)

\* win_get never gives a device a second window.
THEOREM OneWindow == Spec => []OneWindowPerDevice
BY Invariant, PTL DEF EngineInv

\* A finding is repeated within the cooldown only when the table recycled the
\* device's window: eviction by the tick never forgets a running cooldown.
THEOREM Cooldown ==
  ASSUME RetentionSuffices
  PROVE  Spec => RepeatsOnlyAfterCooldown
<1> DEFINE Step ==
      \A d \in Device, r \in EventRule :
        <<d, r>> \in out' /\ printed[d][r] > 0 =>
          \/ now - printed[d][r] >= COOLDOWN_NS
          \/ lost[d] >= printed[d][r]
<1>1. ASSUME EngineInv, NEW d \in Device, NEW e \in Event, NEW ts \in Stamp,
             Ingest(d, ts, e)
      PROVE  Step
  <2> SUFFICES ASSUME NEW x \in Device, NEW r \in EventRule, <<x, r>> \in out',
                      printed[x][r] > 0,
                      now - printed[x][r] < COOLDOWN_NS, lost[x] < printed[x][r]
               PROVE  FALSE
    <3>1. \A x \in Device, r \in EventRule :
            /\ printed[x][r] \in Nat /\ lost[x] \in Nat /\ now \in Nat
      BY <1>1 DEF EngineInv, TypeOK, Time
    <3> QED
      BY <3>1, EngineAssumption
  <2> DEFINE evt == Stamped(e, d, ts)
             w   == Recorded(WinOf(d), evt)
  <2>1. PICK nw, fire : IngestResult(d, ts, evt, nw, fire)
    BY <1>1, IngestStep, StampIsTime DEF EngineInv
  <2>2. x = d /\ r \in Firing(w, evt)
    BY <2>1 DEF IngestResult, Emit
  <2>3. PICK s \in Owned(d) : devs[s].last_fire[r] = printed[d][r]
    BY <1>1, <2>2 DEF EngineInv, CooldownKept
  <2>4. WinOf(d) = devs[s]
    <3>1. WinGet(d) \in Owned(d)
      BY <1>1, <2>3, WinGetWhere DEF EngineInv
    <3>2. WinGet(d) = s
      BY <1>1, <2>3, <3>1 DEF EngineInv, OneWindowPerDevice, Owned
    <3> QED
      BY <1>1, <3>1, <3>2, WinOfFacts DEF EngineInv
  <2>5. evt \in StampedEvent
    <3>1. ts \in Time
      BY <1>1 DEF EngineInv, TypeOK, Stamp, Time
    <3> QED
      BY <1>1, <3>1 DEF Stamped, StampedEvent
  <2>6. CooldownOk(w, r)
    BY <2>2 DEF Firing
  <2> HIDE DEF evt
  <2>7. w.last_fire = devs[s].last_fire
    <3>1. WinOf(d) \in WindowType
      BY <1>1, WinOfFacts DEF EngineInv
    <3>2. w.last_fire = WinOf(d).last_fire
      BY <2>5, <3>1, RecordedFacts
    <3> QED
      BY <2>4, <3>2
  <2>8. printed[d][r] \in Nat /\ now \in Nat
    BY <1>1, <2>2 DEF EngineInv, TypeOK, Time
  <2> HIDE DEF w
  <2> QED
    BY <2>2, <2>3, <2>6, <2>7, <2>8, EngineAssumption DEF CooldownOk
<1>2. EngineInv /\ [Next]_vars => [Step]_vars
  <2>1. Tick => Step
    BY EngineAssumption DEF Tick, Emit, TickFindings
  <2>2. Advance => Step
    BY DEF Advance
  <2> QED
    BY <1>1, <2>1, <2>2 DEF Next
<1> QED
  BY <1>2, Invariant, PTL DEF Spec, RepeatsOnlyAfterCooldown

\* The latch: a deadline rule reports one enumeration of a device once.
THEOREM OneReport == Spec => OneReportPerEpisode
<1> DEFINE Step ==
      \A d \in Device, r \in DeadlineRule :
        <<d, r>> \in out' => <<d, r>> \notin reported
<1>1. ASSUME EngineInv, NEW d \in Device, NEW e \in Event, NEW ts \in Stamp,
             Ingest(d, ts, e)
      PROVE  Step
  <2>1. PICK nw, fire : IngestResult(d, ts, Stamped(e, d, ts), nw, fire)
    BY <1>1, IngestStep, StampIsTime DEF EngineInv
  <2>2. out' = {d} \X fire /\ fire \subseteq EventRule
    BY <2>1 DEF IngestResult, Emit, Firing
  <2> QED
    BY <2>2, EngineAssumption
<1>2. EngineInv /\ Tick => Step
  <2> SUFFICES ASSUME EngineInv, Tick, NEW d \in Device, NEW r \in DeadlineRule,
                      <<d, r>> \in out'
               PROVE  <<d, r>> \notin reported
    OBVIOUS
  <2>1. PICK s \in Owned(d) : r \in Due(s)
    BY DEF Tick, Emit, TickFindings
  <2>2. r \notin devs[s].dl_fired
    BY <2>1 DEF Due, Overdue
  <2> QED
    BY <2>1, <2>2 DEF EngineInv, LatchIsReported, Owned
<1>3. Advance => Step
  BY DEF Advance
<1>4. EngineInv /\ [Next]_vars => [Step]_vars
  BY <1>1, <1>2, <1>3 DEF Next
<1> QED
  BY <1>4, Invariant, PTL DEF Spec, OneReportPerEpisode

\* Eviction takes no stall with it: when the retention exceeds every deadline
\* by the transports' skew, the stall of an idle device was reported.
THEOREM NoStallLost ==
  ASSUME RetentionSuffices
  PROVE  Spec => NoStallEvictedUnreported
<1> DEFINE Step ==
      \A s \in Slot :
        devs[s].used /\ ~devs'[s].used =>
          \A r \in DeadlineRule :
            Stalled(devs[s], r) => <<devs[s].key, r>> \in reported'
<1>1. ASSUME EngineInv, NEW d \in Device, NEW e \in Event, NEW ts \in Stamp,
             Ingest(d, ts, e)
      PROVE  Step
  <2>1. PICK nw, fire : IngestResult(d, ts, Stamped(e, d, ts), nw, fire)
    BY <1>1, IngestStep, StampIsTime DEF EngineInv
  <2>2. \A s \in Slot : devs[s].used => devs'[s].used
    BY <1>1, <2>1 DEF IngestResult, EngineInv, TypeOK
  <2> QED
    BY <2>2
<1>2. EngineInv /\ Tick => Step
  <2> SUFFICES ASSUME EngineInv, Tick, NEW s \in Slot, devs[s].used, ~devs'[s].used,
                      NEW r \in DeadlineRule, Stalled(devs[s], r)
               PROVE  <<devs[s].key, r>> \in reported'
    OBVIOUS
  <2> DEFINE from == Rules[r].reached
  <2>1. Idle(devs[s])
    BY TickStep DEF EngineInv, Tick
  <2>2. from \in State
    BY DEF Stalled
  <2>3. /\ devs[s].state_ts[from] <= devs[s].last_seen + MaxSkew
        /\ devs[s].state_ts[from] \in Nat /\ devs[s].last_seen \in Nat /\ now \in Nat
    BY <2>2 DEF EngineInv, WindowTimes, TypeOK, WindowType, Time
  <2>4. /\ Rules[r].timeout \in Nat /\ MaxSkew \in Nat /\ RETENTION_NS \in Nat
        /\ Rules[r].timeout + MaxSkew <= RETENTION_NS
    BY EngineAssumption DEF RetentionSuffices
  <2>5. now - devs[s].state_ts[from] >= Rules[r].timeout
    BY <2>1, <2>3, <2>4 DEF Idle
  <2>6. devs[s].key \in Device
    BY DEF EngineInv, TypeOK
  <2>7. CASE r \in devs[s].dl_fired
    BY <2>6, <2>7 DEF EngineInv, LatchIsReported, Tick
  <2>8. CASE r \notin devs[s].dl_fired
    <3>1. r \in Due(s)
      BY <2>5, <2>8 DEF Due, Overdue, Stalled
    <3>2. <<devs[s].key, r>> \in TickFindings
      BY <2>6, <3>1 DEF TickFindings, Owned
    <3> QED
      BY <3>2 DEF Tick
  <2> QED
    BY <2>7, <2>8
<1>3. Advance => Step
  BY DEF Advance
<1>4. EngineInv /\ [Next]_vars => [Step]_vars
  BY <1>1, <1>2, <1>3 DEF Next
<1> QED
  BY <1>4, Invariant, PTL DEF Spec, NoStallEvictedUnreported

-----------------------------------------------------------------------------
(* The loop around the engine: what a window shows of a configured device. *)

\* No window of device d shows the stall of a device that was never
\* configured.
Clear(d) ==
  \A s \in Owned(d), r \in DeadlineRule :
    Rules[r].without = CONFIGURED /\ Rules[r].reached \in devs[s].seen =>
      CONFIGURED \in devs[s].seen

\* A record that tells a configured device, or a new bring-up, clears the
\* window of its device; only one that reaches a state of a deadline rule can
\* unsettle it.
LEMMA IngestClear ==
  ASSUME TypeOK, OneWindowPerDevice,
         NEW d \in Device, NEW e \in Event, NEW ts \in Time, Ingest(d, ts, e),
         NEW x \in Device,
         \/ x = d /\ Configures(e)
         \/ Clear(x) /\ (x = d => ~(Reaches(e) /\ ~Configures(e)))
  PROVE  Clear(x)'
<1> DEFINE evt == Stamped(e, d, ts)
           g   == WinGet(d)
<1>1. PICK nw, fire : IngestResult(d, ts, evt, nw, fire)
  BY IngestStep
<1>2. /\ g \in Slot
      /\ Owned(d) # {} => g \in Owned(d)
  BY WinGetWhere
<1>3. /\ devs' = [devs EXCEPT ![g] = nw]
      /\ nw.key = d
      /\ nw.seen = (IF EndsEpisode(evt) THEN {} ELSE WinOf(d).seen)
                     \cup {s \in State : IsState(evt) /\ evt.new_state = s}
  BY <1>1 DEF IngestResult
<1>4. /\ devs'[g] = nw
      /\ \A s \in Slot : s # g => devs'[s] = devs[s]
  BY <1>2, <1>3 DEF TypeOK
<1>5. \A s \in Slot : s # g /\ devs[s].used => devs[s].key # d
  BY IngestFrame
<1>6. IsState(evt) = IsState(e) /\ evt.new_state = e.new_state
  BY DEF Stamped, IsState
<1> SUFFICES ASSUME NEW s \in Slot, devs'[s].used, devs'[s].key = x,
                    NEW r \in DeadlineRule, Rules[r].without = CONFIGURED,
                    Rules[r].reached \in devs'[s].seen
             PROVE  CONFIGURED \in devs'[s].seen
  BY DEF Clear, Owned
<1> HIDE DEF evt, g
<1>7. CASE s # g
  BY <1>4, <1>5, <1>7 DEF Clear, Owned
<1>8. CASE s = g /\ Configures(e)
  <2>1. CONFIGURED \in State
    BY SMT DEF CONFIGURED, State
  <2> QED
    BY <1>3, <1>4, <1>6, <1>8, <2>1 DEF Configures
<1>9. CASE s = g /\ ~Configures(e)
  <2>1. x = d /\ Clear(d) /\ ~Reaches(e)
    BY <1>3, <1>4, <1>9
  <2>2. ~ (IsState(evt) /\ evt.new_state = Rules[r].reached)
    BY <1>6, <2>1 DEF Reaches
  <2>3. ~EndsEpisode(evt) /\ Rules[r].reached \in WinOf(d).seen
    BY <1>3, <1>4, <1>9, <2>2
  <2>4. Owned(d) # {} /\ WinOf(d) = devs[g]
    BY <2>3, WinOfZero DEF g
  <2>5. CONFIGURED \in WinOf(d).seen
    BY <1>2, <2>1, <2>3, <2>4 DEF Clear
  <2> QED
    BY <1>3, <1>4, <1>9, <2>3, <2>5
<1> QED
  BY <1>7, <1>8, <1>9

\* A tick shows nothing new of a device.
LEMMA TickClear ==
  ASSUME TypeOK, Tick, NEW x \in Device, Clear(x)
  PROVE  Clear(x)'
<1>1. \A s \in Slot : /\ devs'[s].key = devs[s].key
                      /\ devs'[s].seen = devs[s].seen
                      /\ devs'[s].used => devs[s].used
  BY TickStep DEF Tick
<1> QED
  BY <1>1 DEF Clear, Owned

\* Only what changes the table changes what it shows.
LEMMA IdleClear ==
  ASSUME UNCHANGED devs, NEW x, Clear(x)
  PROVE  Clear(x)'
BY DEF Clear, Owned

\* What is not a stall in its window is not reported.
LEMMA TickTellsNoStall ==
  ASSUME Tick, NEW d \in Device, NEW r \in DeadlineRule, Clear(d),
         <<d, r>> \in out', Rules[r].without = CONFIGURED
  PROVE  FALSE
<1>1. PICK s \in Owned(d) : r \in Due(s)
  BY DEF Tick, Emit, TickFindings
<1>2. Overdue(devs[s], r)
  BY <1>1 DEF Due
<1>3. CONFIGURED \in State
  BY SMT DEF CONFIGURED, State
<1> QED
  BY <1>1, <1>2, <1>3 DEF Overdue, Clear

\* An ingest prints findings of event rules only.
LEMMA IngestOut ==
  ASSUME NEW d \in Device, NEW e, NEW ts, Ingest(d, ts, e)
  PROVE  \A x, r : <<x, r>> \in out' => r \in EventRule
BY DEF Ingest, Emit, Firing

-----------------------------------------------------------------------------
(* What the queues tell of a device. *)

Rec == [dev : Device, ts : Time, event : Event]

Queues ==
  {q \in [Buffer -> Seq(Rec)] :
     \A b \in Buffer : \A i \in 1 .. Len(q[b]) : q[b][i].event.kind = b[1]}

\* A record tells a state of device d; there is one buffer with such records.
StateOf(rec, d) == rec.dev = d /\ IsState(rec.event)
Gathered(q, d) ==
  \A b, c \in Buffer : \A i \in 1 .. Len(q[b]), j \in 1 .. Len(q[c]) :
    StateOf(q[b][i], d) /\ StateOf(q[c][j], d) => b = c

\* A record tells that device d is configured, or that a bring-up of it that
\* a deadline rule watches is under way.
Tells(rec, d)     == rec.dev = d /\ Configures(rec.event)
Unsettles(rec, d) == rec.dev = d /\ Reaches(rec.event) /\ ~Configures(rec.event)

\* The first n[s] records of some buffer s tell that device d is configured,
\* and no record after that one unsettles it.
Queued(q, n, d) ==
  \E s \in Buffer : \E k \in 1 .. Len(q[s]) :
    /\ k <= n[s]
    /\ Tells(q[s][k], d)
    /\ \A j \in 1 .. Len(q[s]) : j > k => ~Unsettles(q[s][j], d)

\* No queued record unsettles device d.
Settled(q, d) ==
  \A s \in Buffer : \A j \in 1 .. Len(q[s]) : ~Unsettles(q[s][j], d)

\* The records of a device that can contradict each other come in order.
LEMMA OneBuffer ==
  ASSUME NEW q, NEW d, Gathered(q, d), NEW s \in Buffer, NEW t \in Buffer,
         NEW k, k \in 1 .. Len(q[s]), NEW j, j \in 1 .. Len(q[t]),
         Tells(q[s][k], d), Unsettles(q[t][j], d)
  PROVE  s = t
<1>1. StateOf(q[s][k], d) /\ StateOf(q[t][j], d)
  BY DEF Tells, Unsettles, Configures, Reaches, StateOf
<1> QED
  BY <1>1 DEF Gathered

\* The element a sequence ends with once it is appended, and the others.
LEMMA Appended ==
  ASSUME NEW S, NEW q \in Seq(S), NEW x \in S
  PROVE  /\ Append(q, x) \in Seq(S)
         /\ Len(Append(q, x)) = Len(q) + 1 /\ Len(q) \in Nat
         /\ \A i \in 1 .. Len(q) : Append(q, x)[i] = q[i]
         /\ Append(q, x)[Len(q) + 1] = x
BY AppendProperties

\* The element a sequence starts with, and the others.
LEMMA Popped ==
  ASSUME NEW S, NEW q \in Seq(S), q # << >>
  PROVE  /\ Tail(q) \in Seq(S) /\ Head(q) = q[1] /\ Head(q) \in S
         /\ Len(q) \in Nat /\ Len(q) >= 1 /\ Len(Tail(q)) = Len(q) - 1
         /\ \A i \in 1 .. Len(q) - 1 : Tail(q)[i] = q[i + 1]
BY HeadTailProperties, EmptySeq, LenProperties

\* A record appended to a buffer of its source leaves the buffers typed.
LEMMA AppendQueues ==
  ASSUME NEW q \in Queues, NEW rec \in Rec, NEW s \in Buffer, rec.event.kind = s[1]
  PROVE  [q EXCEPT ![s] = Append(@, rec)] \in Queues
<1>1. q \in [Buffer -> Seq(Rec)]
  BY DEF Queues
<1>2. /\ Append(q[s], rec) \in Seq(Rec)
      /\ Len(Append(q[s], rec)) = Len(q[s]) + 1 /\ Len(q[s]) \in Nat
      /\ \A i \in 1 .. Len(q[s]) : Append(q[s], rec)[i] = q[s][i]
      /\ Append(q[s], rec)[Len(q[s]) + 1] = rec
  BY <1>1, Appended
<1>3. ASSUME NEW i \in 1 .. Len(q[s]) + 1
      PROVE  Append(q[s], rec)[i].event.kind = s[1]
  <2>1. CASE i = Len(q[s]) + 1
    BY <1>2, <2>1
  <2>2. CASE i # Len(q[s]) + 1
    <3>1. i \in 1 .. Len(q[s])
      BY <1>2, <2>2
    <3>2. Append(q[s], rec)[i] = q[s][i]
      BY <1>2, <3>1
    <3> QED
      BY <3>1, <3>2 DEF Queues
  <2> QED
    BY <2>1, <2>2
<1> QED
  BY <1>1, <1>2, <1>3 DEF Queues

\* So does a record taken.
LEMMA TailQueues ==
  ASSUME NEW q \in Queues, NEW s \in Buffer, q[s] # << >>
  PROVE  [q EXCEPT ![s] = Tail(@)] \in Queues
<1>1. q \in [Buffer -> Seq(Rec)]
  BY DEF Queues
<1>2. /\ Tail(q[s]) \in Seq(Rec) /\ Len(q[s]) \in Nat /\ Len(Tail(q[s])) = Len(q[s]) - 1
      /\ \A i \in 1 .. Len(q[s]) - 1 : Tail(q[s])[i] = q[s][i + 1]
  BY <1>1, Popped
<1>3. \A i \in 1 .. Len(q[s]) - 1 : Tail(q[s])[i].event.kind = s[1]
  BY <1>2 DEF Queues
<1> QED
  BY <1>1, <1>2, <1>3 DEF Queues

\* A record that is appended is gathered with the others, if it tells no state
\* of the device or those that do are in the same buffer.
LEMMA AppendGathered ==
  ASSUME NEW q \in Queues, NEW rec \in Rec, NEW s \in Buffer, NEW d, Gathered(q, d),
         StateOf(rec, d) =>
           \A c \in Buffer \ {s} : \A i \in 1 .. Len(q[c]) : ~StateOf(q[c][i], d)
  PROVE  Gathered([q EXCEPT ![s] = Append(@, rec)], d)
<1> DEFINE q2 == [q EXCEPT ![s] = Append(@, rec)]
<1>1. /\ Len(Append(q[s], rec)) = Len(q[s]) + 1 /\ Len(q[s]) \in Nat
      /\ \A i \in 1 .. Len(q[s]) : Append(q[s], rec)[i] = q[s][i]
      /\ Append(q[s], rec)[Len(q[s]) + 1] = rec
  BY Appended DEF Queues
<1>2. /\ q2[s] = Append(q[s], rec)
      /\ \A t \in Buffer : t # s => q2[t] = q[t]
  BY DEF Queues
<1> HIDE DEF q2
<1>3. ASSUME NEW b \in Buffer, NEW i, i \in 1 .. Len(q2[b])
      PROVE  \/ i \in 1 .. Len(q[b]) /\ q2[b][i] = q[b][i]
             \/ b = s /\ q2[b][i] = rec
  <2>1. CASE b # s
    BY <1>2, <1>3, <2>1
  <2>2. CASE b = s
    <3>1. i \in 1 .. Len(q[s]) \/ i = Len(q[s]) + 1
      BY <1>1, <1>2, <1>3, <2>2
    <3> QED
      BY <1>1, <1>2, <2>2, <3>1
  <2> QED
    BY <2>1, <2>2
<1>4. ASSUME NEW b \in Buffer, NEW c \in Buffer,
             NEW i, i \in 1 .. Len(q2[b]), NEW j, j \in 1 .. Len(q2[c]),
             StateOf(q2[b][i], d), StateOf(q2[c][j], d)
      PROVE  b = c
  <2>1. CASE i \in 1 .. Len(q[b]) /\ q2[b][i] = q[b][i] /\ j \in 1 .. Len(q[c]) /\ q2[c][j] = q[c][j]
    BY <1>4, <2>1 DEF Gathered
  <2>2. CASE b = s /\ q2[b][i] = rec /\ j \in 1 .. Len(q[c]) /\ q2[c][j] = q[c][j]
    BY <1>4, <2>2
  <2>3. CASE c = s /\ q2[c][j] = rec /\ i \in 1 .. Len(q[b]) /\ q2[b][i] = q[b][i]
    BY <1>4, <2>3
  <2>4. CASE b = s /\ c = s
    BY <2>4
  <2>5. \/ i \in 1 .. Len(q[b]) /\ q2[b][i] = q[b][i]
        \/ b = s /\ q2[b][i] = rec
    BY <1>3, <1>4
  <2>6. \/ j \in 1 .. Len(q[c]) /\ q2[c][j] = q[c][j]
        \/ c = s /\ q2[c][j] = rec
    BY <1>3, <1>4
  <2> QED
    BY <2>1, <2>2, <2>3, <2>4, <2>5, <2>6
<1>5. Gathered(q2, d)
  BY <1>4 DEF Gathered
<1> QED
  BY <1>5 DEF q2

\* What is left once a record is taken is gathered still.
LEMMA TailGathered ==
  ASSUME NEW q \in Queues, NEW s \in Buffer, q[s] # << >>, NEW d, Gathered(q, d)
  PROVE  Gathered([q EXCEPT ![s] = Tail(@)], d)
<1> DEFINE q2 == [q EXCEPT ![s] = Tail(@)]
<1>1. /\ Len(q[s]) \in Nat /\ Len(q[s]) >= 1 /\ Len(Tail(q[s])) = Len(q[s]) - 1
      /\ \A i \in 1 .. Len(q[s]) - 1 : Tail(q[s])[i] = q[s][i + 1]
  BY Popped DEF Queues
<1>2. /\ q2[s] = Tail(q[s])
      /\ \A t \in Buffer : t # s => q2[t] = q[t]
  BY DEF Queues
<1> HIDE DEF q2
<1>3. ASSUME NEW b \in Buffer, NEW i, i \in 1 .. Len(q2[b])
      PROVE  \E k \in 1 .. Len(q[b]) : q2[b][i] = q[b][k]
  <2>1. CASE b # s
    BY <1>2, <1>3, <2>1
  <2>2. CASE b = s
    <3>1. i \in 1 .. Len(q[s]) - 1
      BY <1>1, <1>2, <1>3, <2>2
    <3>2. i + 1 \in 1 .. Len(q[s]) /\ q2[s][i] = q[s][i + 1]
      BY <1>1, <1>2, <3>1
    <3> QED
      BY <2>2, <3>2
  <2> QED
    BY <2>1, <2>2
<1>4. Gathered(q2, d)
  BY <1>3 DEF Gathered
<1> QED
  BY <1>4 DEF q2

\* A record that does not unsettle the device takes nothing from what the
\* queue tells of it.
LEMMA AppendQueued ==
  ASSUME NEW q \in Queues, NEW rec \in Rec, NEW s \in Buffer, NEW d, ~Unsettles(rec, d),
         NEW n, NEW m,
         \A t \in Buffer : n[t] \in Nat /\ m[t] \in Nat /\ n[t] <= m[t]
  PROVE  LET q2 == [q EXCEPT ![s] = Append(@, rec)]
         IN  /\ Queued(q, n, d) => Queued(q2, m, d)
             /\ Settled(q, d) => Settled(q2, d)
<1> DEFINE q2 == [q EXCEPT ![s] = Append(@, rec)]
<1>1. q \in [Buffer -> Seq(Rec)]
  BY DEF Queues
<1>2. /\ Append(q[s], rec) \in Seq(Rec)
      /\ Len(Append(q[s], rec)) = Len(q[s]) + 1 /\ Len(q[s]) \in Nat
      /\ \A i \in 1 .. Len(q[s]) : Append(q[s], rec)[i] = q[s][i]
      /\ Append(q[s], rec)[Len(q[s]) + 1] = rec
  BY <1>1, Appended
<1>3. /\ q2[s] = Append(q[s], rec)
      /\ \A t \in Buffer : t # s => q2[t] = q[t]
  BY <1>1
<1>4. \A t \in Buffer :
        /\ Len(q[t]) \in Nat
        /\ \A i \in 1 .. Len(q[t]) : i \in 1 .. Len(q2[t]) /\ q2[t][i] = q[t][i]
        /\ \A i \in 1 .. Len(q2[t]) :
             (i \in 1 .. Len(q[t]) /\ q2[t][i] = q[t][i]) \/ (i > Len(q[t]) /\ q2[t][i] = rec)
  <2> SUFFICES ASSUME NEW t \in Buffer
               PROVE  /\ Len(q[t]) \in Nat
                      /\ \A i \in 1 .. Len(q[t]) : i \in 1 .. Len(q2[t]) /\ q2[t][i] = q[t][i]
                      /\ \A i \in 1 .. Len(q2[t]) :
                           (i \in 1 .. Len(q[t]) /\ q2[t][i] = q[t][i])
                             \/ (i > Len(q[t]) /\ q2[t][i] = rec)
    OBVIOUS
  <2>1. Len(q[t]) \in Nat
    BY <1>1, LenProperties
  <2> HIDE DEF q2
  <2>2. CASE t = s
    BY <1>2, <1>3, <2>1, <2>2
  <2>3. CASE t # s
    BY <1>3, <2>1, <2>3
  <2> QED
    BY <2>2, <2>3
<1> HIDE DEF q2
<1>5. ASSUME Queued(q, n, d) PROVE Queued(q2, m, d)
  <2>0. PICK t \in Buffer : \E k \in 1 .. Len(q[t]) :
          /\ k <= n[t] /\ Tells(q[t][k], d)
          /\ \A j \in 1 .. Len(q[t]) : j > k => ~Unsettles(q[t][j], d)
    BY <1>5 DEF Queued
  <2>1. PICK k \in 1 .. Len(q[t]) :
          /\ k <= n[t] /\ Tells(q[t][k], d)
          /\ \A j \in 1 .. Len(q[t]) : j > k => ~Unsettles(q[t][j], d)
    BY <2>0
  <2>2. k \in 1 .. Len(q2[t]) /\ Tells(q2[t][k], d)
    BY <1>4, <2>1
  <2>3. k <= m[t]
    BY <1>4, <2>1
  <2>4. \A j \in 1 .. Len(q2[t]) : j > k => ~Unsettles(q2[t][j], d)
    BY <1>4, <2>1
  <2> QED
    BY <2>2, <2>3, <2>4 DEF Queued
<1>6. ASSUME Settled(q, d) PROVE Settled(q2, d)
  BY <1>4, <1>6 DEF Settled
<1> QED
  BY <1>5, <1>6 DEF q2

\* A record that tells a configured device is the last word of the queue.
LEMMA AppendTells ==
  ASSUME NEW q \in Queues, NEW rec \in Rec, NEW s \in Buffer, NEW d,
         Tells(rec, d), NEW m, m[s] = Len(q[s]) + 1
  PROVE  Queued([q EXCEPT ![s] = Append(@, rec)], m, d)
<1> DEFINE q2 == [q EXCEPT ![s] = Append(@, rec)]
<1>1. q \in [Buffer -> Seq(Rec)]
  BY DEF Queues
<1>2. /\ Len(Append(q[s], rec)) = Len(q[s]) + 1 /\ Len(q[s]) \in Nat
      /\ Append(q[s], rec)[Len(q[s]) + 1] = rec
  BY <1>1, Appended
<1>3. q2[s] = Append(q[s], rec)
  BY <1>1
<1> HIDE DEF q2
<1>4. /\ Len(q[s]) + 1 \in 1 .. Len(q2[s]) /\ Len(q[s]) + 1 <= m[s]
      /\ Tells(q2[s][Len(q[s]) + 1], d)
      /\ \A j \in 1 .. Len(q2[s]) : ~(j > Len(q[s]) + 1)
  BY <1>2, <1>3
<1> QED
  BY <1>4 DEF Queued, q2

\* When the next record is taken, what it told is what the window shows.
LEMMA TailQueued ==
  ASSUME NEW q \in Queues, NEW s \in Buffer, q[s] # << >>, NEW d, Gathered(q, d),
         NEW n, NEW m, \A t \in Buffer : n[t] \in Nat /\ m[t] \in Nat,
         \A t \in Buffer : t # s => m[t] = n[t],
         m[s] >= n[s] - 1
  PROVE  LET q2 == [q EXCEPT ![s] = Tail(@)]
         IN  /\ Queued(q, n, d) =>
                  Queued(q2, m, d) \/ (Tells(Head(q[s]), d) /\ Settled(q2, d))
             /\ Settled(q, d) => Settled(q2, d) /\ ~Unsettles(Head(q[s]), d)
<1> DEFINE q2 == [q EXCEPT ![s] = Tail(@)]
<1>1. q \in [Buffer -> Seq(Rec)]
  BY DEF Queues
<1>2. /\ Head(q[s]) = q[s][1]
      /\ Len(q[s]) \in Nat /\ Len(q[s]) >= 1 /\ Len(Tail(q[s])) = Len(q[s]) - 1
      /\ \A i \in 1 .. Len(q[s]) - 1 : Tail(q[s])[i] = q[s][i + 1]
  BY <1>1, Popped
<1>3. /\ q2[s] = Tail(q[s])
      /\ \A t \in Buffer : t # s => q2[t] = q[t]
  BY <1>1
<1>4. \A i \in 1 .. Len(q2[s]) : i + 1 \in 1 .. Len(q[s]) /\ q2[s][i] = q[s][i + 1]
  <2> HIDE DEF q2
  <2>1. 1 .. Len(q2[s]) = 1 .. Len(q[s]) - 1
    BY <1>2, <1>3
  <2>2. \A i \in 1 .. Len(q[s]) - 1 : i + 1 \in 1 .. Len(q[s])
    BY <1>2
  <2> QED
    BY <1>2, <1>3, <2>1, <2>2
<1>5. \A t \in Buffer : Len(q[t]) \in Nat
  BY <1>1, LenProperties
<1>6. ASSUME Settled(q, d) PROVE Settled(q2, d) /\ ~Unsettles(Head(q[s]), d)
  <2> HIDE DEF q2
  <2>1. ~Unsettles(Head(q[s]), d)
    BY <1>2, <1>6 DEF Settled
  <2>2. ASSUME NEW t \in Buffer, NEW j, j \in 1 .. Len(q2[t]) PROVE ~Unsettles(q2[t][j], d)
    <3>1. CASE t = s
      BY <1>4, <1>6, <2>2, <3>1 DEF Settled
    <3>2. CASE t # s
      BY <1>3, <1>6, <2>2, <3>2 DEF Settled
    <3> QED
      BY <3>1, <3>2
  <2> QED
    BY <2>1, <2>2 DEF Settled
<1>7. ASSUME Queued(q, n, d)
      PROVE  Queued(q2, m, d) \/ (Tells(Head(q[s]), d) /\ Settled(q2, d))
  <2> HIDE DEF q2
  <2>0. PICK t \in Buffer : \E k \in 1 .. Len(q[t]) :
          /\ k <= n[t] /\ Tells(q[t][k], d)
          /\ \A j \in 1 .. Len(q[t]) : j > k => ~Unsettles(q[t][j], d)
    BY <1>7 DEF Queued
  <2>1. PICK k \in 1 .. Len(q[t]) :
          /\ k <= n[t] /\ Tells(q[t][k], d)
          /\ \A j \in 1 .. Len(q[t]) : j > k => ~Unsettles(q[t][j], d)
    BY <2>0
  <2>2. CASE t # s
    <3>1. q2[t] = q[t] /\ k <= m[t]
      BY <1>3, <2>1, <2>2
    <3> QED
      BY <2>1, <3>1 DEF Queued
  <2>3. CASE t = s /\ k > 1
    <3>1. k - 1 \in 1 .. Len(q2[s]) /\ q2[s][k - 1] = q[s][k]
      BY <1>2, <1>3, <2>1, <2>3
    <3>2. k - 1 <= m[s]
      BY <2>1, <2>3
    <3>3. \A j \in 1 .. Len(q2[s]) : j > k - 1 => ~Unsettles(q2[s][j], d)
      <4> SUFFICES ASSUME NEW j \in 1 .. Len(q2[s]), j > k - 1
                   PROVE  ~Unsettles(q2[s][j], d)
        OBVIOUS
      <4>1. j + 1 > k /\ j + 1 \in 1 .. Len(q[s]) /\ q2[s][j] = q[s][j + 1]
        BY <1>4, <2>1
      <4> QED
        BY <2>1, <2>3, <4>1
    <3> QED
      BY <2>1, <2>3, <3>1, <3>2, <3>3 DEF Queued
  <2>4. CASE t = s /\ k = 1
    <3>1. Tells(Head(q[s]), d)
      BY <1>2, <2>1, <2>4
    <3>2. ASSUME NEW u \in Buffer, NEW j, j \in 1 .. Len(q2[u]), Unsettles(q2[u][j], d)
          PROVE  FALSE
      <4>1. CASE u = s
        <5>1. j + 1 > k /\ j + 1 \in 1 .. Len(q[s]) /\ q2[s][j] = q[s][j + 1]
          BY <1>4, <2>4, <3>2, <4>1
        <5> QED
          BY <2>1, <2>4, <3>2, <4>1, <5>1
      <4>2. CASE u # s
        <5>1. q2[u] = q[u]
          BY <1>3, <4>2
        <5>2. u = t
          BY <2>1, <3>2, <5>1, OneBuffer
        <5> QED
          BY <2>4, <4>2, <5>2
      <4> QED
        BY <4>1, <4>2
    <3> QED
      BY <3>1, <3>2 DEF Settled
  <2> QED
    BY <2>1, <2>2, <2>3, <2>4
<1> QED
  BY <1>6, <1>7 DEF q2

-----------------------------------------------------------------------------
(* The inductive invariant of the session. *)

EngineSafe == TypeOK /\ OneWindowPerDevice /\ LatchIsReported

QueueTypeOK ==
  /\ queue \in Queues
  /\ configured \subseteq Device
  /\ atWake \subseteq configured

\* A device whose state records never waited in two buffers has them in one.
GatheredInv == \A d \in Device \ scattered : Gathered(queue, d)

\* The records in each buffer, and those of them that this poll is sure to take.
All  == [b \in Buffer |-> Len(queue[b])]
Left == [b \in Buffer |-> IF b \in todo THEN Len(queue[b])
                          ELSE IF b = cur THEN Rest ELSE 0]

\* That device d is configured is told by the first n records, or else shown
\* by its window, with nothing queued against it.
Known(d, n) == Queued(queue, n, d) \/ (Clear(d) /\ Settled(queue, d))

KnownInv ==
  /\ \A d \in configured \ scattered : Known(d, All)
  /\ pc \in {"drain", "tick"} => \A d \in atWake \ scattered : Known(d, Left)

PipeInv == EngineSafe /\ LoopTypeOK /\ QueueTypeOK /\ GatheredInv /\ KnownInv

\* The session starts with empty buffers.
LEMMA PipeInitInv == PipeInit => PipeInv
<1> SUFFICES ASSUME PipeInit PROVE PipeInv
  OBVIOUS
<1>1. EngineSafe
  BY InitInv DEF PipeInit, EngineSafe, EngineInv
<1>2. \A s \in Buffer : queue[s] = << >> /\ Len(queue[s]) = 0
  BY DEF PipeInit
<1>3. LoopTypeOK
  <2>1. last_tick \in 1 .. now
    BY SMT DEF PipeInit, Init
  <2> QED
    BY <1>2, <2>1, PipeAssumption DEF PipeInit, LoopTypeOK
<1>4. QueueTypeOK
  <2>1. << >> \in Seq(Rec)
    OBVIOUS
  <2>2. queue \in Queues
    BY <1>2, <2>1 DEF PipeInit, Queues
  <2> QED
    BY <2>2 DEF PipeInit, QueueTypeOK
<1>5. GatheredInv
  BY <1>2 DEF GatheredInv, Gathered
<1>6. KnownInv
  BY DEF PipeInit, KnownInv
<1> QED
  BY <1>1, <1>3, <1>4, <1>5, <1>6 DEF PipeInv

\* A step that does not enter the engine.
LEMMA IdleSafe == EngineSafe /\ EngineIdle => EngineSafe'
<1> SUFFICES ASSUME EngineSafe, EngineIdle PROVE EngineSafe'
  OBVIOUS
<1>1. TypeOK'
  BY DEF EngineSafe, EngineIdle, TypeOK
<1>2. OneWindowPerDevice'
  BY DEF EngineSafe, EngineIdle, OneWindowPerDevice
<1>3. LatchIsReported'
  BY DEF EngineSafe, EngineIdle, LatchIsReported
<1> QED
  BY <1>1, <1>2, <1>3 DEF EngineSafe

\* Time touches no window.
LEMMA AdvanceSafe == EngineSafe /\ Advance => EngineSafe'
<1> SUFFICES ASSUME EngineSafe, Advance PROVE EngineSafe'
  OBVIOUS
<1>1. TypeOK'
  BY AdvanceType DEF EngineSafe
<1>2. OneWindowPerDevice'
  BY DEF EngineSafe, Advance, OneWindowPerDevice
<1>3. LatchIsReported'
  BY DEF EngineSafe, Advance, LatchIsReported
<1> QED
  BY <1>1, <1>2, <1>3 DEF EngineSafe

\* No step.
LEMMA StutterSafe == EngineSafe /\ UNCHANGED vars => EngineSafe'
<1> SUFFICES ASSUME EngineSafe, UNCHANGED vars PROVE EngineSafe'
  OBVIOUS
<1>1. TypeOK'
  BY StutterType DEF EngineSafe
<1>2. OneWindowPerDevice'
  BY DEF EngineSafe, vars, OneWindowPerDevice
<1>3. LatchIsReported'
  BY DEF EngineSafe, vars, LatchIsReported
<1> QED
  BY <1>1, <1>2, <1>3 DEF EngineSafe

\* The record the poll hands to the engine is one a probe emitted.
LEMMA DrainIngests ==
  ASSUME QueueTypeOK, LoopTypeOK, Drain
  PROVE  /\ cur \in Buffer /\ queue[cur] # << >> /\ Rest > 0
         /\ Head(queue[cur]) \in Rec
         /\ LET r == Head(queue[cur])
            IN  /\ r.dev \in Device /\ r.ts \in Time /\ r.event \in Event
                /\ Ingest(r.dev, r.ts, r.event)
<1>1. cur \in Buffer /\ queue[cur] # << >> /\ Rest > 0
  BY DEF Drain, LoopTypeOK
<1>2. queue[cur] \in Seq(Rec)
  BY <1>1 DEF QueueTypeOK, Queues
<1>3. Head(queue[cur]) \in Rec
  BY <1>1, <1>2, Popped
<1>4. LET r == Head(queue[cur]) IN Ingest(r.dev, r.ts, r.event)
  BY DEF Drain
<1> QED
  BY <1>1, <1>3, <1>4 DEF Rec

\* The engine is safe under every step of the session.
LEMMA PipeSafe ==
  ASSUME PipeInv, [PipeNext]_pipeVars
  PROVE  EngineSafe'
<1>0. EngineSafe /\ LoopTypeOK /\ QueueTypeOK
  BY DEF PipeInv
<1>1. CASE EngineIdle
  BY <1>0, <1>1, IdleSafe
<1>2. CASE Clock
  BY <1>0, <1>2, AdvanceSafe DEF Clock
<1>3. CASE Drain
  BY <1>0, <1>3, DrainIngests, IngestSafe DEF EngineSafe
<1>4. CASE TickOrNot
  <2>1. Tick \/ EngineIdle
    BY <1>4 DEF TickOrNot
  <2> QED
    BY <1>0, <2>1, IdleSafe, TickSafe DEF EngineSafe
<1>5. CASE UNCHANGED pipeVars
  <2>1. UNCHANGED vars
    BY <1>5 DEF pipeVars
  <2> QED
    BY <1>0, <2>1, StutterSafe
<1>6. \/ EngineIdle \/ Clock \/ Drain \/ TickOrNot \/ UNCHANGED pipeVars
  BY DEF PipeNext, Loop, Probe, Signal, Check, PollReturns,
         PollInterrupted, PollFails, NextBuffer, Drained, Report
<1> QED
  BY <1>1, <1>2, <1>3, <1>4, <1>5, <1>6

-----------------------------------------------------------------------------
(* The loop and its queues under one step. *)

\* What a probe leaves in the buffers: the record, when its buffer has room.
LEMMA ProbeStep ==
  ASSUME PipeInv, NEW d \in Device, NEW e \in Event, NEW cpu \in Cpu, Probe(d, e, cpu)
  PROVE  \E rec \in Rec, b \in Buffer :
           /\ rec.dev = d /\ rec.event = e /\ rec.event.kind = b[1]
           /\ \/ queue' = queue /\ configured' = configured /\ scattered' = scattered
              \/ /\ Len(queue[b]) < RING_MAX
                 /\ queue' = [queue EXCEPT ![b] = Append(@, rec)]
                 /\ configured' = IF Configures(e) THEN configured \cup {d}
                                  ELSE IF Restarts(e) THEN configured \ {d}
                                  ELSE configured
                 /\ scattered' = IF IsState(e) /\ WaitsElsewhere(d, b)
                                 THEN scattered \cup {d} ELSE scattered
           /\ atWake' = atWake \cap configured'
           /\ EngineIdle
           /\ UNCHANGED <<pc, cur, todo, mark, last_tick>>
<1> DEFINE rec == [dev |-> d, ts |-> now, event |-> e]
           b   == <<e.kind, cpu>>
<1>1. now \in Time
  BY DEF PipeInv, EngineSafe, TypeOK, Time
<1>2. b \in Buffer
  BY DEF Buffer, Source
<1>3. rec \in Rec /\ rec.dev = d /\ rec.event = e /\ rec.event.kind = b[1]
  BY <1>1 DEF Rec
<1>4. /\ \/ queue' = queue /\ configured' = configured /\ scattered' = scattered
         \/ /\ Len(queue[b]) < RING_MAX
            /\ queue' = [queue EXCEPT ![b] = Append(@, rec)]
            /\ configured' = IF Configures(e) THEN configured \cup {d}
                             ELSE IF Restarts(e) THEN configured \ {d}
                             ELSE configured
            /\ scattered' = IF IsState(e) /\ WaitsElsewhere(d, b)
                            THEN scattered \cup {d} ELSE scattered
      /\ atWake' = atWake \cap configured'
      /\ EngineIdle
      /\ UNCHANGED <<pc, cur, todo, mark, last_tick>>
  BY DEF Probe, loopVars
<1> HIDE DEF rec, b
<1> QED
  BY <1>2, <1>3, <1>4

\* A record fits its buffer, or it is dropped.
LEMMA ProbeLoop ==
  ASSUME PipeInv, NEW d \in Device, NEW e \in Event, NEW cpu \in Cpu, Probe(d, e, cpu)
  PROVE  LoopTypeOK' /\ QueueTypeOK' /\ GatheredInv'
<1>1. PICK rec \in Rec, b \in Buffer :
        /\ rec.dev = d /\ rec.event = e /\ rec.event.kind = b[1]
        /\ \/ queue' = queue /\ configured' = configured /\ scattered' = scattered
           \/ /\ Len(queue[b]) < RING_MAX
              /\ queue' = [queue EXCEPT ![b] = Append(@, rec)]
              /\ configured' \subseteq configured \cup {d}
              /\ scattered' = IF IsState(e) /\ WaitsElsewhere(d, b)
                              THEN scattered \cup {d} ELSE scattered
        /\ atWake' = atWake \cap configured'
        /\ now' = now
        /\ UNCHANGED <<pc, cur, todo, mark, last_tick>>
  <2>1. PICK rec \in Rec, b \in Buffer :
          /\ rec.dev = d /\ rec.event = e /\ rec.event.kind = b[1]
          /\ \/ queue' = queue /\ configured' = configured /\ scattered' = scattered
             \/ /\ Len(queue[b]) < RING_MAX
                /\ queue' = [queue EXCEPT ![b] = Append(@, rec)]
                /\ configured' = IF Configures(e) THEN configured \cup {d}
                                 ELSE IF Restarts(e) THEN configured \ {d}
                                 ELSE configured
                /\ scattered' = IF IsState(e) /\ WaitsElsewhere(d, b)
                                THEN scattered \cup {d} ELSE scattered
          /\ atWake' = atWake \cap configured'
          /\ EngineIdle
          /\ UNCHANGED <<pc, cur, todo, mark, last_tick>>
    BY ProbeStep
  <2>2. now' = now
    BY <2>1 DEF EngineIdle
  <2> QED
    BY <2>1, <2>2
<1>2. LoopTypeOK /\ queue \in Queues /\ queue \in [Buffer -> Seq(Rec)]
      /\ configured \subseteq Device /\ GatheredInv
  BY DEF PipeInv, QueueTypeOK, Queues
<1>3. /\ queue' \in Queues
      /\ \A s \in Buffer : /\ Len(queue[s]) \in Nat /\ Len(queue'[s]) \in Nat
                           /\ Len(queue'[s]) >= Len(queue[s])
                           /\ Len(queue'[s]) <= RING_MAX
  <2>0. \A s \in Buffer : Len(queue[s]) \in Nat /\ Len(queue[s]) <= RING_MAX
    BY <1>2, LenProperties DEF LoopTypeOK
  <2>1. CASE queue' = queue
    BY <1>2, <2>0, <2>1
  <2>2. CASE Len(queue[b]) < RING_MAX /\ queue' = [queue EXCEPT ![b] = Append(@, rec)]
    <3>1. queue' \in Queues
      BY <1>1, <1>2, <2>2, AppendQueues
    <3>2. queue'[b] = Append(queue[b], rec)
          /\ \A s \in Buffer : s # b => queue'[s] = queue[s]
      BY <1>1, <1>2, <2>2
    <3>3. Len(Append(queue[b], rec)) = Len(queue[b]) + 1
      BY <1>1, <1>2, Appended
    <3> QED
      BY <2>0, <2>2, <3>1, <3>2, <3>3, PipeAssumption
  <2> QED
    BY <1>1, <2>1, <2>2
<1>4. LoopTypeOK'
  <2>1. cur' \in Buffer => mark' <= Len(queue'[cur'])
    BY <1>1, <1>2, <1>3 DEF LoopTypeOK
  <2> QED
    BY <1>1, <1>2, <1>3, <2>1 DEF LoopTypeOK
<1>5. QueueTypeOK'
  BY <1>1, <1>2, <1>3 DEF QueueTypeOK
<1>6. GatheredInv'
  <2> SUFFICES ASSUME NEW x \in Device, x \notin scattered' PROVE Gathered(queue', x)
    BY DEF GatheredInv
  <2>1. CASE queue' = queue /\ scattered' = scattered
    BY <1>2, <2>1 DEF GatheredInv
  <2>2. CASE /\ queue' = [queue EXCEPT ![b] = Append(@, rec)]
             /\ scattered' = IF IsState(e) /\ WaitsElsewhere(d, b)
                             THEN scattered \cup {d} ELSE scattered
    <3>1. Gathered(queue, x)
      BY <1>2, <2>2 DEF GatheredInv
    <3>2. ASSUME StateOf(rec, x), NEW c \in Buffer \ {b}, NEW i, i \in 1 .. Len(queue[c])
          PROVE  ~StateOf(queue[c][i], x)
      <4>1. x = d /\ IsState(e)
        BY <1>1, <3>2 DEF StateOf
      <4>2. ~WaitsElsewhere(d, b)
        BY <2>2, <4>1
      <4> QED
        BY <3>2, <4>1, <4>2 DEF WaitsElsewhere, StateOf
    <3>3. \A c \in Buffer \ {b} : \A i \in 1 .. Len(queue[c]) :
            StateOf(rec, x) => ~StateOf(queue[c][i], x)
      BY <3>2
    <3> QED
      BY <1>1, <1>2, <2>2, <3>1, <3>3, AppendGathered
  <2> QED
    BY <1>1, <2>1, <2>2
<1> QED
  BY <1>4, <1>5, <1>6

\* What a drain leaves in the buffers.
LEMMA DrainLoop ==
  ASSUME PipeInv, Drain
  PROVE  LoopTypeOK' /\ QueueTypeOK' /\ GatheredInv'
<1>1. LoopTypeOK /\ QueueTypeOK /\ queue \in [Buffer -> Seq(Rec)] /\ GatheredInv
  BY DEF PipeInv, QueueTypeOK, Queues
<1>2. cur \in Buffer /\ queue[cur] # << >> /\ Rest > 0
  BY <1>1, DrainIngests
<1>3. /\ queue' = [queue EXCEPT ![cur] = Tail(@)]
      /\ mark' = IF PERF THEN mark - 1 ELSE 0
      /\ UNCHANGED <<pc, cur, todo, last_tick, configured, scattered, atWake, now>>
  BY DEF Drain, Ingest
<1>4. queue' \in Queues
  BY <1>1, <1>2, <1>3, TailQueues DEF QueueTypeOK
<1>5. /\ queue'[cur] = Tail(queue[cur])
      /\ \A s \in Buffer : s # cur => queue'[s] = queue[s]
      /\ Len(queue[cur]) \in Nat /\ Len(queue[cur]) >= 1
      /\ Len(Tail(queue[cur])) = Len(queue[cur]) - 1
  BY <1>1, <1>2, <1>3, Popped
<1>6. mark \in Nat /\ mark <= Len(queue[cur]) /\ (PERF => mark > 0)
  BY <1>1, <1>2 DEF LoopTypeOK, Rest
<1>7. mark' \in Nat /\ mark' <= Len(queue'[cur])
  <2>1. PICK l, k : l = Len(queue[cur]) /\ k = mark
    OBVIOUS
  <2>2. /\ l \in Nat /\ l >= 1 /\ k \in Nat /\ k <= l /\ (PERF => k > 0)
        /\ Len(queue'[cur]) = l - 1 /\ mark' = IF PERF THEN k - 1 ELSE 0
    BY <1>3, <1>5, <1>6, <2>1
  <2> QED
    BY <2>2
<1>8. \A s \in Buffer : Len(queue'[s]) <= RING_MAX
  <2> SUFFICES ASSUME NEW s \in Buffer PROVE Len(queue'[s]) <= RING_MAX
    OBVIOUS
  <2>1. Len(queue[s]) <= RING_MAX
    BY <1>1 DEF LoopTypeOK
  <2>2. CASE s # cur
    BY <1>5, <2>1, <2>2
  <2>3. CASE s = cur
    <3>1. PICK l : l = Len(queue[cur])
      OBVIOUS
    <3>2. l \in Nat /\ l <= RING_MAX /\ Len(queue'[s]) = l - 1
      BY <1>5, <2>1, <2>3, <3>1
    <3> QED
      BY <3>2, PipeAssumption
  <2> QED
    BY <2>2, <2>3
<1>9. LoopTypeOK'
  BY <1>1, <1>3, <1>7, <1>8 DEF LoopTypeOK
<1>10. QueueTypeOK'
  BY <1>1, <1>3, <1>4 DEF QueueTypeOK
<1>11. GatheredInv'
  BY <1>1, <1>2, <1>3, TailGathered DEF GatheredInv, QueueTypeOK
<1> QED
  BY <1>9, <1>10, <1>11

\* The other steps leave the buffers alone.
LEMMA QuietLoop ==
  ASSUME PipeInv,
         \/ Signal \/ Clock \/ PollInterrupted \/ PollFails \/ Check \/ PollReturns
         \/ NextBuffer \/ Drained \/ TickOrNot \/ Report \/ UNCHANGED pipeVars
  PROVE  LoopTypeOK' /\ QueueTypeOK' /\ GatheredInv'
<1>1. /\ LoopTypeOK /\ QueueTypeOK /\ now \in Nat \ {0} /\ last_tick \in 1 .. now
      /\ queue \in [Buffer -> Seq(Rec)] /\ GatheredInv
  BY DEF PipeInv, EngineSafe, TypeOK, LoopTypeOK, QueueTypeOK, Queues
<1>2. UNCHANGED <<queue, configured, scattered>>
  BY DEF Signal, Clock, PollInterrupted, PollFails, Check, PollReturns, NextBuffer,
         Drained, TickOrNot, Report, pipeVars, loopVars, probeVars, GoTo
<1>3. atWake' \in {atWake, configured}
  BY DEF Signal, Clock, PollInterrupted, PollFails, Check, PollReturns, NextBuffer,
         Drained, TickOrNot, Report, pipeVars
<1>4. QueueTypeOK' /\ GatheredInv'
  BY <1>1, <1>2, <1>3 DEF QueueTypeOK, GatheredInv
<1>5. \A s \in Buffer : Len(queue[s]) \in Nat /\ Len(queue'[s]) <= RING_MAX
  BY <1>1, <1>2, LenProperties DEF LoopTypeOK
<1> SUFFICES LoopTypeOK'
  BY <1>4
<1>6. CASE Signal \/ UNCHANGED pipeVars
  <2>1. now' = now /\ UNCHANGED <<pc, cur, todo, mark, last_tick>>
    BY <1>6 DEF Signal, pipeVars, vars, EngineIdle, loopVars
  <2> QED
    BY <1>1, <1>2, <1>5, <2>1 DEF LoopTypeOK
<1>7. CASE Clock
  <2>1. now' = now + 1 /\ UNCHANGED <<pc, cur, todo, mark, last_tick>>
    BY <1>7 DEF Clock, Advance, loopVars
  <2>2. last_tick' \in 1 .. now'
    BY <1>1, <2>1
  <2> QED
    BY <1>1, <1>2, <1>5, <2>1, <2>2 DEF LoopTypeOK
<1>8. CASE PollInterrupted \/ PollFails \/ Check \/ Report
  <2>1. /\ pc # "drain" /\ pc' \in {"check", "poll", "tick", "report", "done"}
        /\ now' = now /\ UNCHANGED <<cur, todo, mark, last_tick>>
    BY <1>8 DEF PollInterrupted, PollFails, Check, Report, GoTo, EngineIdle
  <2> QED
    BY <1>1, <1>2, <1>5, <2>1 DEF LoopTypeOK
<1>9. CASE PollReturns
  <2>1. /\ pc = "poll" /\ pc' = "drain" /\ todo' \subseteq Buffer
        /\ now' = now /\ UNCHANGED <<cur, mark, last_tick>>
    BY <1>9 DEF PollReturns, GoTo, EngineIdle
  <2>2. cur = None
    BY <1>1, <2>1 DEF LoopTypeOK
  <2>3. cur' \notin todo'
    BY <2>1, <2>2, PipeAssumption
  <2> QED
    BY <1>1, <1>2, <1>5, <2>1, <2>3 DEF LoopTypeOK
<1>10. CASE NextBuffer
  <2>1. /\ pc = "drain" /\ now' = now /\ UNCHANGED <<pc, last_tick>>
        /\ \E b \in todo : /\ cur' = b /\ todo' = todo \ {b}
                          /\ mark' = IF PERF THEN Len(queue[b]) ELSE 0
    BY <1>10 DEF NextBuffer, EngineIdle
  <2>2. cur' \in Buffer /\ mark' \in Nat /\ mark' <= Len(queue[cur'])
    BY <1>1, <1>5, <2>1 DEF LoopTypeOK
  <2> QED
    BY <1>1, <1>2, <1>5, <2>1, <2>2 DEF LoopTypeOK
<1>11. CASE Drained
  <2>1. /\ pc' = "tick" /\ cur' = None /\ todo' = {} /\ mark' = mark
        /\ now' = now /\ last_tick' = last_tick
    BY <1>11 DEF Drained, EngineIdle, GoTo
  <2> QED
    BY <1>1, <1>2, <1>5, <2>1, PipeAssumption DEF LoopTypeOK
<1>12. CASE TickOrNot
  <2>1. /\ pc = "tick" /\ pc' = "check" /\ UNCHANGED <<cur, todo, mark>>
        /\ now' = now /\ last_tick' \in {last_tick, now}
    BY <1>12 DEF TickOrNot, EngineIdle, GoTo, Tick
  <2>2. last_tick' \in 1 .. now'
    BY <1>1, <2>1
  <2> QED
    BY <1>1, <1>2, <1>5, <2>1, <2>2 DEF LoopTypeOK
<1> QED
  BY <1>6, <1>7, <1>8, <1>9, <1>10, <1>11, <1>12

\* The loop and its buffers are typed after every step.
LEMMA PipeLoop ==
  ASSUME PipeInv, [PipeNext]_pipeVars
  PROVE  LoopTypeOK' /\ QueueTypeOK' /\ GatheredInv'
BY ProbeLoop, DrainLoop, QuietLoop DEF PipeNext, Loop

-----------------------------------------------------------------------------
(* What is known of a configured device under one step. *)

\* The windows show no less after a step that does not enter the engine.
LEMMA IdleKnown ==
  ASSUME UNCHANGED <<devs, queue>>, NEW d, NEW n, Known(d, n)
  PROVE  Known(d, n)'
BY IdleClear DEF Known

\* A new record tells of a configured device, or is no word against it.
LEMMA ProbeKnown ==
  ASSUME PipeInv, NEW d \in Device, NEW e \in Event, NEW cpu \in Cpu, Probe(d, e, cpu)
  PROVE  KnownInv'
<1>1. PICK rec \in Rec, b \in Buffer :
        /\ rec.dev = d /\ rec.event = e
        /\ \/ queue' = queue /\ configured' = configured /\ scattered' = scattered
           \/ /\ Len(queue[b]) < RING_MAX
              /\ queue' = [queue EXCEPT ![b] = Append(@, rec)]
              /\ configured' = IF Configures(e) THEN configured \cup {d}
                               ELSE IF Restarts(e) THEN configured \ {d}
                               ELSE configured
              /\ scattered \subseteq scattered'
        /\ atWake' = atWake \cap configured'
        /\ devs' = devs
        /\ UNCHANGED <<pc, cur, todo, mark, last_tick>>
  <2>1. PICK rec \in Rec, b \in Buffer :
          /\ rec.dev = d /\ rec.event = e
          /\ \/ queue' = queue /\ configured' = configured /\ scattered' = scattered
             \/ /\ Len(queue[b]) < RING_MAX
                /\ queue' = [queue EXCEPT ![b] = Append(@, rec)]
                /\ configured' = IF Configures(e) THEN configured \cup {d}
                                 ELSE IF Restarts(e) THEN configured \ {d}
                                 ELSE configured
                /\ scattered' = IF IsState(e) /\ WaitsElsewhere(d, b)
                                THEN scattered \cup {d} ELSE scattered
          /\ atWake' = atWake \cap configured'
          /\ EngineIdle
          /\ UNCHANGED <<pc, cur, todo, mark, last_tick>>
    BY ProbeStep
  <2>2. devs' = devs
    BY <2>1 DEF EngineIdle
  <2>3. scattered \subseteq scattered'
    BY <2>1
  <2> QED
    BY <2>1, <2>2, <2>3
<1> DEFINE q2 == [queue EXCEPT ![b] = Append(@, rec)]
<1>2. /\ KnownInv /\ queue \in Queues /\ queue \in [Buffer -> Seq(Rec)]
      /\ atWake \subseteq configured /\ mark \in Nat
  BY DEF PipeInv, QueueTypeOK, Queues, LoopTypeOK
<1>3. \A s \in Buffer : Len(queue[s]) \in Nat
  BY <1>2, LenProperties
<1>4. /\ All' = [s \in Buffer |-> Len(queue'[s])]
      /\ Left' = [s \in Buffer |-> IF s \in todo THEN Len(queue'[s])
                                   ELSE IF s = cur THEN (IF PERF THEN mark ELSE Len(queue'[cur]))
                                   ELSE 0]
  BY <1>1 DEF All, Left, Rest
<1>5. /\ All = [s \in Buffer |-> Len(queue[s])]
      /\ Left = [s \in Buffer |-> IF s \in todo THEN Len(queue[s])
                                  ELSE IF s = cur THEN (IF PERF THEN mark ELSE Len(queue[cur]))
                                  ELSE 0]
  BY DEF All, Left, Rest
<1>6. CASE queue' = queue /\ configured' = configured /\ scattered' = scattered
  <2>1. All' = All /\ Left' = Left
    BY <1>4, <1>5, <1>6
  <2>2. \A x, n : Known(x, n) => Known(x, n)'
    BY <1>1, <1>6, IdleKnown
  <2> QED
    BY <1>1, <1>2, <1>6, <2>1, <2>2 DEF KnownInv
<1>7. CASE /\ queue' = q2
           /\ configured' = IF Configures(e) THEN configured \cup {d}
                            ELSE IF Restarts(e) THEN configured \ {d}
                            ELSE configured
           /\ scattered \subseteq scattered'
  <2>1. \A x \in configured : x \in configured' => ~Unsettles(rec, x)
    BY <1>1, <1>7 DEF Unsettles, Restarts
  <2>2. /\ q2[b] = Append(queue[b], rec)
        /\ \A s \in Buffer : s # b => q2[s] = queue[s]
        /\ Len(Append(queue[b], rec)) = Len(queue[b]) + 1
    BY <1>1, <1>2, Appended
  <2> HIDE DEF q2
  <2>3. \A s \in Buffer : Len(queue'[s]) \in Nat /\ Len(queue[s]) <= Len(queue'[s])
    <3> SUFFICES ASSUME NEW s \in Buffer
                 PROVE  Len(queue'[s]) \in Nat /\ Len(queue[s]) <= Len(queue'[s])
      OBVIOUS
    <3>1. CASE s = b
      BY <1>3, <1>7, <2>2, <3>1
    <3>2. CASE s # b
      BY <1>3, <1>7, <2>2, <3>2
    <3> QED
      BY <3>1, <3>2
  <2>4. \A s \in Buffer : All[s] \in Nat /\ All'[s] \in Nat /\ All[s] <= All'[s]
    BY <1>3, <1>4, <1>5, <2>3
  <2>5. \A s \in Buffer : Left[s] \in Nat /\ Left'[s] \in Nat /\ Left[s] <= Left'[s]
    <3> SUFFICES ASSUME NEW s \in Buffer
                 PROVE  Left[s] \in Nat /\ Left'[s] \in Nat /\ Left[s] <= Left'[s]
      OBVIOUS
    <3>1. CASE s \in todo
      BY <1>3, <1>4, <1>5, <2>3, <3>1
    <3>2. CASE s \notin todo /\ s = cur
      <4>1. /\ Left[s] = IF PERF THEN mark ELSE Len(queue[s])
            /\ Left'[s] = IF PERF THEN mark ELSE Len(queue'[s])
        BY <1>4, <1>5, <3>2
      <4> QED
        BY <1>2, <1>3, <2>3, <4>1
    <3>3. CASE s \notin todo /\ s # cur
      BY <1>4, <1>5, <3>3
    <3> QED
      BY <3>1, <3>2, <3>3
  <2>6. All'[b] = Len(queue[b]) + 1
    BY <1>1, <1>4, <1>7, <2>2
  <2>7. \A x : Clear(x) => Clear(x)'
    BY <1>1, IdleClear
  <2>8. ASSUME NEW x \in configured' \ scattered' PROVE Known(x, All)'
    <3>1. CASE x \in configured
      <4>1. ~Unsettles(rec, x) /\ (Queued(queue, All, x) \/ (Clear(x) /\ Settled(queue, x)))
        BY <1>2, <1>7, <2>1, <2>8, <3>1 DEF KnownInv, Known
      <4>2. /\ Queued(queue, All, x) => Queued(q2, All', x)
            /\ Settled(queue, x) => Settled(q2, x)
        <5>1. PICK n, m : n = All /\ m = All'
          OBVIOUS
        <5> QED
          BY <1>1, <1>2, <2>4, <4>1, <5>1, AppendQueued DEF q2
      <4> QED
        BY <1>7, <2>7, <4>1, <4>2 DEF Known
    <3>2. CASE x \notin configured
      <4>1. x = d /\ Configures(e)
        BY <1>7, <2>8, <3>2
      <4>2. Tells(rec, x)
        BY <1>1, <4>1 DEF Tells
      <4>3. PICK m : m = All'
        OBVIOUS
      <4>4. Queued(q2, m, x)
        BY <1>1, <1>2, <2>6, <4>2, <4>3, AppendTells DEF q2
      <4> QED
        BY <1>7, <4>3, <4>4 DEF Known
    <3> QED
      BY <3>1, <3>2
  <2>9. ASSUME pc \in {"drain", "tick"}, NEW x \in atWake \ scattered', x \in configured'
        PROVE  Known(x, Left)'
    <3>1. ~Unsettles(rec, x) /\ (Queued(queue, Left, x) \/ (Clear(x) /\ Settled(queue, x)))
      BY <1>2, <1>7, <2>1, <2>9 DEF KnownInv, Known
    <3>2. /\ Queued(queue, Left, x) => Queued(q2, Left', x)
          /\ Settled(queue, x) => Settled(q2, x)
      <4>1. PICK n, m : n = Left /\ m = Left'
        OBVIOUS
      <4> QED
        BY <1>1, <1>2, <2>5, <3>1, <4>1, AppendQueued DEF q2
    <3> QED
      BY <1>7, <2>7, <3>1, <3>2 DEF Known
  <2> QED
    BY <1>1, <2>8, <2>9 DEF KnownInv
<1> QED
  BY <1>1, <1>6, <1>7

\* The record that told of the device leaves the map and enters its window.
LEMMA DrainKnown ==
  ASSUME PipeInv, Drain
  PROVE  KnownInv'
<1> DEFINE rec == Head(queue[cur])
           q2  == [queue EXCEPT ![cur] = Tail(@)]
<1>1. /\ KnownInv /\ queue \in Queues /\ queue \in [Buffer -> Seq(Rec)]
      /\ configured \subseteq Device /\ atWake \subseteq configured
      /\ mark \in Nat /\ EngineSafe /\ \A x \in Device \ scattered : Gathered(queue, x)
  BY DEF PipeInv, QueueTypeOK, Queues, LoopTypeOK, GatheredInv
<1>2. /\ cur \in Buffer /\ queue[cur] # << >> /\ Rest > 0
      /\ rec.dev \in Device /\ rec.ts \in Time /\ rec.event \in Event
      /\ Ingest(rec.dev, rec.ts, rec.event)
  BY DrainIngests DEF PipeInv
<1>3. /\ queue' = q2 /\ pc = "drain" /\ cur' = cur /\ todo' = todo
      /\ mark' = IF PERF THEN mark - 1 ELSE 0
      /\ configured' = configured /\ scattered' = scattered /\ atWake' = atWake
  BY DEF Drain
<1>4. \A s \in Buffer : Len(queue[s]) \in Nat
  BY <1>1, LenProperties
<1>5. /\ q2[cur] = Tail(queue[cur])
      /\ \A s \in Buffer : s # cur => q2[s] = queue[s]
      /\ Len(Tail(queue[cur])) = Len(queue[cur]) - 1 /\ Len(queue[cur]) >= 1
  BY <1>1, <1>2, Popped
<1> HIDE DEF rec, q2
<1>6. /\ \A s \in Buffer : All[s] \in Nat /\ All'[s] \in Nat
      /\ \A s \in Buffer : s # cur => All'[s] = All[s]
      /\ All'[cur] >= All[cur] - 1
  <2>1. \A s \in Buffer : All[s] = Len(queue[s]) /\ All'[s] = Len(queue'[s])
    BY DEF All
  <2>2. Len(Tail(queue[cur])) \in Nat
    BY <1>2, <1>4, <1>5
  <2>3. \A s \in Buffer : Len(queue'[s]) \in Nat
    BY <1>3, <1>4, <1>5, <2>2
  <2>4. All'[cur] = All[cur] - 1
    BY <1>2, <1>3, <1>5, <2>1
  <2>5. \A s \in Buffer : s # cur => All'[s] = All[s]
    BY <1>3, <1>5, <2>1
  <2>6. \A s \in Buffer : All[s] \in Nat /\ All'[s] \in Nat
    BY <1>4, <2>1, <2>3
  <2> QED
    BY <1>2, <2>4, <2>5, <2>6
<1>7. /\ \A s \in Buffer : Left[s] \in Nat /\ Left'[s] \in Nat
      /\ \A s \in Buffer : s # cur => Left'[s] = Left[s]
      /\ Left'[cur] >= Left[cur] - 1
  <2>1. /\ Left = [s \in Buffer |-> IF s \in todo THEN Len(queue[s])
                                  ELSE IF s = cur THEN (IF PERF THEN mark ELSE Len(queue[cur]))
                                  ELSE 0]
        /\ Left' = [s \in Buffer |-> IF s \in todo THEN Len(queue'[s])
                                   ELSE IF s = cur THEN (IF PERF THEN mark' ELSE Len(queue'[cur]))
                                   ELSE 0]
        /\ cur \notin todo
    BY <1>3 DEF Left, Rest, PipeInv, LoopTypeOK
  <2>2. /\ Left[cur] = IF PERF THEN mark ELSE Len(queue[cur])
        /\ Left'[cur] = IF PERF THEN mark - 1 ELSE Len(queue[cur]) - 1
    BY <1>2, <1>3, <1>5, <2>1
  <2>3. PERF => mark > 0
    BY <1>2 DEF Rest
  <2>4. Left[cur] \in Nat /\ Left'[cur] \in Nat /\ Left'[cur] >= Left[cur] - 1
    <3>1. PICK l : l = Len(queue[cur])
      OBVIOUS
    <3>2. l \in Nat /\ l >= 1
      BY <1>2, <1>4, <1>5, <3>1
    <3> QED
      BY <1>1, <2>2, <2>3, <3>1, <3>2
  <2>5. \A s \in Buffer : s # cur => Left'[s] = Left[s] /\ Left[s] \in Nat
    BY <1>3, <1>4, <1>5, <2>1
  <2> QED
    BY <2>4, <2>5
<1>8. ASSUME NEW x \in Device, x \notin scattered, NEW n, NEW m,
             \A s \in Buffer : n[s] \in Nat /\ m[s] \in Nat,
             \A s \in Buffer : s # cur => m[s] = n[s],
             m[cur] >= n[cur] - 1,
             Queued(queue, n, x) \/ (Clear(x) /\ Settled(queue, x))
      PROVE  Queued(q2, m, x) \/ (Clear(x)' /\ Settled(q2, x))
  <2>1. PICK c : c = cur
    OBVIOUS
  <2>2. /\ Queued(queue, n, x) =>
             Queued(q2, m, x) \/ (Tells(rec, x) /\ Settled(q2, x))
        /\ Settled(queue, x) => Settled(q2, x) /\ ~Unsettles(rec, x)
    BY <1>1, <1>2, <1>8, <2>1, TailQueued DEF q2, rec
  <2>3. CASE Queued(q2, m, x)
    BY <2>3
  <2>4. CASE Tells(rec, x) /\ Settled(q2, x)
    <3>1. x = rec.dev /\ Configures(rec.event)
      BY <2>4 DEF Tells
    <3>2. Clear(x)'
      BY <1>1, <1>2, <3>1, IngestClear DEF EngineSafe
    <3> QED
      BY <2>4, <3>2
  <2>5. CASE Clear(x) /\ Settled(q2, x) /\ ~Unsettles(rec, x)
    <3>1. x = rec.dev => ~(Reaches(rec.event) /\ ~Configures(rec.event))
      BY <2>5 DEF Unsettles
    <3>2. Clear(x)'
      BY <1>1, <1>2, <2>5, <3>1, IngestClear DEF EngineSafe
    <3> QED
      BY <2>5, <3>2
  <2> QED
    BY <1>8, <2>2, <2>3, <2>4, <2>5
<1>9. ASSUME NEW x \in configured, x \notin scattered PROVE Known(x, All)'
  <2>1. PICK n, m : n = All /\ m = All'
    OBVIOUS
  <2>2. Queued(queue, n, x) \/ (Clear(x) /\ Settled(queue, x))
    BY <1>1, <1>9, <2>1 DEF KnownInv, Known
  <2>3. Queued(q2, m, x) \/ (Clear(x)' /\ Settled(q2, x))
    BY <1>1, <1>6, <1>8, <1>9, <2>1, <2>2
  <2> QED
    BY <1>3, <2>1, <2>3 DEF Known
<1>10. ASSUME NEW x \in atWake, x \notin scattered PROVE Known(x, Left)'
  <2>1. PICK n, m : n = Left /\ m = Left'
    OBVIOUS
  <2>2. Queued(queue, n, x) \/ (Clear(x) /\ Settled(queue, x))
    BY <1>1, <1>3, <1>10, <2>1 DEF KnownInv, Known
  <2>3. Queued(q2, m, x) \/ (Clear(x)' /\ Settled(q2, x))
    BY <1>1, <1>7, <1>8, <1>10, <2>1, <2>2
  <2> QED
    BY <1>3, <2>1, <2>3 DEF Known
<1> QED
  BY <1>3, <1>9, <1>10 DEF KnownInv

\* Nothing tells of a device when there is nothing left to take.
LEMMA NoneLeft ==
  ASSUME NEW d, NEW n, \A s \in Buffer : n[s] = 0, Queued(queue, n, d)
  PROVE  FALSE
BY DEF Queued

\* A poll that returns takes everything queued.
LEMMA PollKnown ==
  ASSUME PipeInv, PollReturns
  PROVE  KnownInv'
<1>1. /\ KnownInv /\ LoopTypeOK /\ queue \in [Buffer -> Seq(Rec)]
      /\ configured \subseteq Device
  BY DEF PipeInv, QueueTypeOK, Queues
<1>2. /\ pc = "poll" /\ cur' = cur /\ mark' = mark /\ atWake' = configured
      /\ todo' = IF PERF THEN Buffer ELSE {b \in Buffer : queue[b] # << >>}
      /\ UNCHANGED <<devs, queue, configured, scattered>>
  BY DEF PollReturns, EngineIdle, GoTo, probeVars
<1>3. cur = None /\ None \notin Buffer
  BY <1>1, <1>2, PipeAssumption DEF LoopTypeOK
<1>4. All' = All
  BY <1>2 DEF All
<1>5. \A x, n : Known(x, n) => Known(x, n)'
  BY <1>2, IdleKnown
<1>6. \A s \in Buffer : queue[s] = << >> => Len(queue[s]) = 0
  OBVIOUS
<1>7. Left' = All
  BY <1>2, <1>3, <1>6 DEF Left, All
<1> QED
  BY <1>1, <1>2, <1>4, <1>5, <1>7 DEF KnownInv

\* The records a poll has to take stay the same when it turns to its next
\* buffer, and there are none when it has drained the last one.
LEMMA TurnKnown ==
  ASSUME PipeInv, NextBuffer \/ Drained
  PROVE  KnownInv'
<1>1. /\ KnownInv /\ LoopTypeOK /\ queue \in [Buffer -> Seq(Rec)]
  BY DEF PipeInv, QueueTypeOK, Queues
<1>2. /\ pc = "drain" /\ BufferDone
      /\ UNCHANGED <<devs, queue, configured, scattered, atWake>>
  BY DEF NextBuffer, Drained, EngineIdle, GoTo, probeVars
<1>3. All' = All
  BY <1>2 DEF All
<1>4. \A x, n : Known(x, n) => Known(x, n)'
  BY <1>2, IdleKnown
<1>5. Left = [s \in Buffer |-> IF s \in todo THEN Len(queue[s]) ELSE 0]
  BY <1>2 DEF Left, BufferDone
<1>6. Left' = Left
  <2>1. CASE NextBuffer
    <3>1. PICK b \in todo : /\ cur' = b /\ todo' = todo \ {b}
                           /\ mark' = IF PERF THEN Len(queue[b]) ELSE 0
      BY <2>1 DEF NextBuffer
    <3>2. Rest' = Len(queue[b]) /\ b \in Buffer
      BY <1>1, <1>2, <3>1 DEF Rest, LoopTypeOK
    <3> QED
      BY <1>2, <1>5, <3>1, <3>2 DEF Left
  <2>2. CASE Drained
    <3>1. cur' = None /\ todo = {} /\ todo' = {}
      BY <2>2 DEF Drained
    <3> QED
      BY <1>5, <3>1, PipeAssumption DEF Left
  <2> QED
    BY <1>2, <2>1, <2>2
<1> QED
  BY <1>1, <1>2, <1>3, <1>4, <1>6 DEF KnownInv

\* A tick shows no window anything new.
LEMMA TickKnown ==
  ASSUME PipeInv, TickOrNot
  PROVE  KnownInv'
<1>1. KnownInv /\ TypeOK /\ configured \subseteq Device
  BY DEF PipeInv, EngineSafe, QueueTypeOK
<1>2. /\ pc' = "check" /\ UNCHANGED <<queue, configured, scattered>>
      /\ Tick \/ UNCHANGED devs
  BY DEF TickOrNot, GoTo, EngineIdle, probeVars
<1>3. \A x \in Device : Clear(x) => Clear(x)'
  BY <1>1, <1>2, TickClear, IdleClear
<1>4. All' = All
  BY <1>2 DEF All
<1>5. \A x \in configured \ scattered : Known(x, All)'
  BY <1>1, <1>2, <1>3, <1>4 DEF KnownInv, Known
<1> QED
  BY <1>2, <1>5 DEF KnownInv

\* The other steps change neither buffers nor windows.
LEMMA QuietKnown ==
  ASSUME PipeInv,
         \/ Signal \/ Clock \/ PollInterrupted \/ PollFails \/ Check \/ Report
         \/ UNCHANGED pipeVars
  PROVE  KnownInv'
<1>1. KnownInv
  BY DEF PipeInv
<1>2. /\ UNCHANGED <<devs, queue, configured, scattered, atWake, mark, cur, todo>>
      /\ pc' \in {"drain", "tick"} => pc' = pc
  BY DEF Signal, Clock, Advance, PollInterrupted, PollFails, Check, Report, GoTo,
         EngineIdle, pipeVars, vars, loopVars, probeVars
<1>3. All' = All /\ Left' = Left
  BY <1>2 DEF All, Left, Rest
<1>4. \A x, n : Known(x, n) => Known(x, n)'
  BY <1>2, IdleKnown
<1> QED
  BY <1>1, <1>2, <1>3, <1>4 DEF KnownInv

\* What is known of a configured device, after every step.
LEMMA PipeKnown ==
  ASSUME PipeInv, [PipeNext]_pipeVars
  PROVE  KnownInv'
BY ProbeKnown, DrainKnown, PollKnown, TurnKnown, TickKnown, QuietKnown
   DEF PipeNext, Loop

\* The invariant of the session is inductive.
LEMMA PipeStep == PipeInv /\ [PipeNext]_pipeVars => PipeInv'
BY PipeSafe, PipeLoop, PipeKnown DEF PipeInv

\* The invariant of the session: the engine is safe, the loop and its buffers
\* are typed, and what a record told of a configured device, out of one buffer,
\* is in a buffer that this poll still drains, or in the device's window.
THEOREM PipeInvariant == PipeSpec => []PipeInv
BY PipeInitInv, PipeStep, PTL DEF PipeSpec

\* The state of the loop of diag_run: what it has left to drain is in the buffers.
THEOREM LoopType == PipeSpec => []LoopTypeOK
BY PipeInvariant, PTL DEF PipeInv

\* win_get gives a device one window, however long its records waited.
THEOREM PipeOneWindow == PipeSpec => []OneWindowPerDevice
BY PipeInvariant, PTL DEF PipeInv, EngineSafe

-----------------------------------------------------------------------------
(* What a tick reports in a session. *)

\* A step of the session prints nothing, or the findings of event rules, or
\* it is a tick.
LEMMA PipePrints ==
  ASSUME PipeInv, [PipeNext]_pipeVars
  PROVE  \/ out' = {} \/ UNCHANGED pipeVars
         \/ \A x, r : <<x, r>> \in out' => r \in EventRule
         \/ Tick /\ pc = "tick"
<1>1. CASE EngineIdle
  BY <1>1 DEF EngineIdle
<1>2. CASE Clock
  BY <1>2 DEF Clock, Advance
<1>3. CASE Drain
  BY <1>3, DrainIngests, IngestOut DEF PipeInv
<1>4. CASE TickOrNot
  BY <1>1, <1>4 DEF TickOrNot, GoTo, EngineIdle
<1>5. CASE UNCHANGED pipeVars
  BY <1>5 DEF pipeVars, vars
<1> QED
  BY <1>1, <1>2, <1>3, <1>4, <1>5
     DEF PipeNext, Loop, Probe, Signal, Check, PollReturns,
         PollInterrupted, PollFails, NextBuffer, Drained, Report

\* "reached ADDRESS but never CONFIGURED" is said of no device whose records,
\* when the poll before the tick woke, told that it was configured, and never
\* waited in the buffers of two CPUs.
THEOREM NoFalseStall == PipeSpec => NoStallReportedAgainstTheQueue
<1> DEFINE Step ==
      \A d \in Device, r \in DeadlineRule :
        <<d, r>> \in out' /\ Rules[r].without = CONFIGURED =>
          d \notin atWake \/ d \in scattered
<1>1. PipeInv /\ [PipeNext]_pipeVars => [Step]_pipeVars
  <2> SUFFICES ASSUME PipeInv, [PipeNext]_pipeVars, ~UNCHANGED pipeVars,
                      NEW d \in Device, NEW r \in DeadlineRule, <<d, r>> \in out',
                      Rules[r].without = CONFIGURED, d \in atWake, d \notin scattered
               PROVE  FALSE
    OBVIOUS
  <2>1. Tick /\ pc = "tick"
    BY PipePrints, EngineAssumption
  <2>2. Known(d, Left) /\ cur = None /\ todo = {}
    BY <2>1 DEF PipeInv, KnownInv, LoopTypeOK
  <2>3. \A s \in Buffer : Left[s] = 0
    BY <2>2, PipeAssumption DEF Left
  <2>4. ~Queued(queue, Left, d)
    <3>1. PICK n : n = Left
      OBVIOUS
    <3> QED
      BY <2>3, <3>1, NoneLeft
  <2>5. Clear(d)
    BY <2>2, <2>4 DEF Known
  <2> QED
    BY <2>1, <2>5, TickTellsNoStall
<1> QED
  BY <1>1, PipeInvariant, PTL DEF PipeSpec, NoStallReportedAgainstTheQueue

\* With the ring buffer the records of a source wait in one buffer.
LEMMA RingGathers ==
  ASSUME ~PERF, PipeInv, scattered = {}, [PipeNext]_pipeVars
  PROVE  scattered' = {}
<1> SUFFICES ASSUME scattered' # {} PROVE FALSE
  OBVIOUS
<1>1. PICK d \in Device, e \in Event, cpu \in Cpu : Probe(d, e, cpu)
  BY DEF PipeNext, Loop, Signal, Clock, Check, PollReturns, PollInterrupted, PollFails,
         NextBuffer, Drain, Drained, TickOrNot, Report, GoTo, probeVars, pipeVars
<1>2. IsState(e) /\ WaitsElsewhere(d, <<e.kind, cpu>>)
  BY <1>1 DEF Probe
<1>3. PICK c \in Buffer \ {<<e.kind, cpu>>} : \E i \in 1 .. Len(queue[c]) :
        queue[c][i].dev = d /\ IsState(queue[c][i].event)
  BY <1>2 DEF WaitsElsewhere
<1>4. c[1] # e.kind
  <2>1. PICK s \in Source, k \in Cpu : c = <<s, k>>
    BY <1>3 DEF Buffer
  <2>2. k = cpu
    BY PipeAssumption
  <2> QED
    BY <1>3, <2>1, <2>2
<1>5. c[1] = "enum"
  BY <1>3 DEF PipeInv, QueueTypeOK, Queues, IsState
<1> QED
  BY <1>2, <1>4, <1>5 DEF IsState

\* For the ring buffer the claim has no exception.
THEOREM NoFalseStallOfTheRing ==
  PipeSpec =>
    [][~PERF => \A d \in Device, r \in DeadlineRule :
         <<d, r>> \in out' /\ Rules[r].without = CONFIGURED => d \notin atWake]_pipeVars
<1> DEFINE Ring == ~PERF => scattered = {}
           Step == \A d \in Device, r \in DeadlineRule :
                     <<d, r>> \in out' /\ Rules[r].without = CONFIGURED =>
                       d \notin atWake \/ d \in scattered
           Bare == ~PERF => \A d \in Device, r \in DeadlineRule :
                     <<d, r>> \in out' /\ Rules[r].without = CONFIGURED => d \notin atWake
<1>1. PipeInit => Ring
  BY DEF PipeInit
<1>2. PipeInv /\ Ring /\ [PipeNext]_pipeVars => Ring'
  BY RingGathers
<1>3. Ring /\ [Step]_pipeVars => [Bare]_pipeVars
  OBVIOUS
<1>4. PipeSpec => [][Step]_pipeVars
  BY NoFalseStall DEF NoStallReportedAgainstTheQueue
<1> HIDE DEF Step, Bare, Ring
<1>5. PipeSpec => [][Bare]_pipeVars
  BY <1>1, <1>2, <1>3, <1>4, PipeInvariant, PTL DEF PipeSpec
<1> QED
  BY <1>5 DEF Bare

\* The latch in a session: one report of a deadline rule per enumeration,
\* though its records come late and from several buffers.
THEOREM PipeOneReport == PipeSpec => OneReportPerEpisode
<1> DEFINE Step ==
      \A d \in Device, r \in DeadlineRule :
        <<d, r>> \in out' => <<d, r>> \notin reported
<1>1. PipeInv /\ [PipeNext]_pipeVars => [Step]_vars
  <2> SUFFICES ASSUME PipeInv, [PipeNext]_pipeVars, ~UNCHANGED vars,
                      NEW d \in Device, NEW r \in DeadlineRule, <<d, r>> \in out'
               PROVE  <<d, r>> \notin reported
    OBVIOUS
  <2>1. Tick
    BY PipePrints, EngineAssumption DEF pipeVars, vars
  <2>2. PICK s \in Owned(d) : r \in Due(s)
    BY <2>1 DEF Tick, Emit, TickFindings
  <2>3. r \notin devs[s].dl_fired
    BY <2>2 DEF Due, Overdue
  <2> QED
    BY <2>2, <2>3 DEF PipeInv, EngineSafe, LatchIsReported, Owned
<1> QED
  BY <1>1, PipeInvariant, PTL DEF PipeSpec, OneReportPerEpisode
=============================================================================
