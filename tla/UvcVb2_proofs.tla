---------------------------- MODULE UvcVb2_proofs ----------------------------
(***************************************************************************)
(* What a vb2 event may be said to be of, for every number of cameras,     *)
(* every size of the maps and every clock.                                 *)
(***************************************************************************)
EXTENDS UvcVb2, FiniteSetTheorems, TLAPS

Finite == IsFiniteSet(DOMAIN vb2_dev_queue) /\ IsFiniteSet(DOMAIN last_starve)

\* A frame program that runs has run just now, and began in this unit of time
\* or the one before.
Programs ==
  /\ now >= 1
  /\ \A c \in Cameras : pc[c] # "idle" => running[c] = now /\ at[c] >= 1 /\ at[c] + 1 >= now

\* Camera d had a frame at the time s or later, or s is out of reach.
Seen(d, s) == running[d] >= s \/ s + WIRE_MAX + 1 < now

\* Who wrote the shared entry: both halves come from frames not older than its
\* time stamp, and an address without a device is just being written.
EntryWritten ==
  /\ corr.of.bus = 0 => corr.ns = 0
  /\ corr.of.bus # 0 => Seen(corr.of.bus, corr.ns)
  /\ corr.of.dev # 0 => Seen(corr.of.dev, corr.ns)
  /\ corr.of.dev # 0 => \A c \in Cameras : pc[c] = "zeroed" => Seen(corr.of.dev, at[c])
  /\ corr.of.bus # 0 /\ corr.of.dev = 0 => pc[corr.of.bus] = "bus_set" /\ mine[corr.of.bus]
  /\ \A c \in Cameras : mine[c] => corr.of.bus # 0

\* A queue bound to the address of a camera, or found starved by its frame, is
\* its own or once had an event near one of its frames.
BindingsExplained ==
  \A c \in Cameras :
    /\ Address(c) \in DOMAIN vb2_dev_queue =>
         vb2_dev_queue[Address(c)] = c \/ <<c, vb2_dev_queue[Address(c)]>> \in mixed
    /\ \A q \in target[c] : q = c \/ <<c, q>> \in mixed

Unmixed(q) == \A c \in Cameras : <<c, q>> \notin mixed

\* Only the frames of its camera look at an unmixed queue: what they announced
\* last is in the map, and what they are about to announce comes a cooldown
\* after it.
CooldownKept ==
  \A q \in Cameras : Unmixed(q) =>
    /\ announced[q] # 0 => q \in DOMAIN last_starve /\ last_starve[q] = announced[q]
    /\ announced[q] = 0 /\ q \in DOMAIN last_starve => last_starve[q] = 0
    /\ pc[q] # "idle" => announced[q] <= at[q]
    /\ q \in target[q] => announced[q] = 0 \/ at[q] - announced[q] >= COOLDOWN

Vb2Inv ==
  /\ TypeOK /\ Finite /\ Programs /\ EntryWritten /\ BindingsExplained /\ CooldownKept
  /\ MisattributedOnlyByOverlap /\ StarvationBlamesItsCamera /\ StarvedOncePerCooldown

-----------------------------------------------------------------------------
(* What an update of a map of limited size leaves of it.                    *)
LEMMA PutFacts ==
  ASSUME NEW map, NEW key, NEW value,
         IsFiniteSet(DOMAIN map), Cardinality(DOMAIN map) <= MAP_ENTRIES
  PROVE  LET new == Put(map, key, value)
         IN  /\ IsFiniteSet(DOMAIN new) /\ Cardinality(DOMAIN new) <= MAP_ENTRIES
             /\ DOMAIN map \subseteq DOMAIN new
             /\ DOMAIN new \subseteq DOMAIN map \cup {key}
             /\ \A k \in DOMAIN new : k # key => k \in DOMAIN map /\ new[k] = map[k]
             /\ key \in DOMAIN new => new[key] = value
<1> USE Vb2Assumption
<1>1. CASE key \in DOMAIN map
  <2>1. DOMAIN map \cup {key} = DOMAIN map BY <1>1
  <2> QED BY <1>1, <2>1 DEF Put
<1>2. CASE key \notin DOMAIN map /\ Cardinality(DOMAIN map) < MAP_ENTRIES
  <2>1. IsFiniteSet(DOMAIN map \cup {key})
        /\ Cardinality(DOMAIN map \cup {key}) = Cardinality(DOMAIN map) + 1
    BY <1>2, FS_AddElement
  <2>2. Cardinality(DOMAIN map) \in Nat BY FS_CardinalityType
  <2> QED BY <1>2, <2>1, <2>2 DEF Put
<1>3. CASE key \notin DOMAIN map /\ ~(Cardinality(DOMAIN map) < MAP_ENTRIES)
  BY <1>3 DEF Put
<1> QED BY <1>1, <1>2, <1>3

\* A device in the entry that is not the camera's own has had a frame near the
\* event: the camera sees it among the others.
LEMMA OtherSeen ==
  ASSUME TypeOK, Programs, NEW cam \in Cameras, NEW d \in Cameras, d # cam,
         NEW t \in 1 .. now, t + 1 >= now,
         Seen(d, corr.ns), corr.ns # 0, Within(t, corr.ns, WIRE_MAX)
  PROVE  d \in {c \in Cameras \ {cam} : running[c] # 0 /\ running[c] + WIRE_MAX >= t}
<1>1. corr.ns \in Nat /\ running[d] \in 0 .. now /\ WIRE_MAX \in Nat /\ now \in Nat
  BY Vb2Assumption DEF TypeOK
<1>2. running[d] >= corr.ns
  BY <1>1 DEF Seen, Within
<1> QED BY <1>1, <1>2 DEF Within

\* The device an event names is its camera's, or the camera is writing the
\* entry, or whoever is named had a frame near it.
LEMMA NamedFacts ==
  ASSUME TypeOK, Programs, EntryWritten, NEW cam \in Cameras, NEW t \in 1 .. now, t + 1 >= now,
         NEW others, others = {c \in Cameras \ {cam} : running[c] # 0 /\ running[c] + WIRE_MAX >= t},
         NEW dev, dev = DeviceNamed(t)
  PROVE  /\ dev \in Device
         /\ dev \in {NoDevice, Address(cam)} \/ others # {} \/ pc[cam] = "bus_set"
         /\ \A c \in Cameras : dev = Address(c) => c = cam \/ c \in others
<1>1. CASE corr.ns # 0 /\ Within(t, corr.ns, WIRE_MAX)
  <2>1. dev = corr.of /\ corr.of \in Device
    BY <1>1 DEF DeviceNamed, TypeOK
  <2>2. dev.bus \in Cameras /\ dev.dev \in Cameras \cup {0} /\ dev = [bus |-> dev.bus, dev |-> dev.dev]
    BY <2>1, <1>1 DEF EntryWritten, Device
  <2>3. dev.bus # cam => dev.bus \in others
    BY <1>1, <2>1, <2>2, OtherSeen, Vb2Assumption DEF EntryWritten
  <2>4. dev.dev \notin {0, cam} => dev.dev \in others
    BY <1>1, <2>1, <2>2, OtherSeen DEF EntryWritten
  <2>5. dev.bus = cam /\ dev.dev = 0 => pc[cam] = "bus_set"
    BY <2>1, <2>2, Vb2Assumption DEF EntryWritten
  <2>6. dev.bus = cam /\ dev.dev = cam => dev = Address(cam)
    BY <2>2 DEF Address
  <2>7. \A c \in Cameras : dev = Address(c) => dev.bus = c
    BY DEF Address
  <2>8. dev \in {NoDevice, Address(cam)} \/ others # {} \/ pc[cam] = "bus_set"
    BY <2>3, <2>4, <2>5, <2>6
  <2> QED BY <2>1, <2>3, <2>7, <2>8
<1>2. CASE ~(corr.ns # 0 /\ Within(t, corr.ns, WIRE_MAX))
  <2>1. dev = NoDevice BY <1>2 DEF DeviceNamed
  <2>2. NoDevice \in Device BY DEF NoDevice, Device
  <2>3. \A c \in Cameras : NoDevice # Address(c)
    BY Vb2Assumption DEF NoDevice, Address
  <2> QED BY <2>1, <2>2, <2>3
<1> QED BY <1>1, <1>2

Explained(map, mix) ==
  \A c \in Cameras : Address(c) \in DOMAIN map =>
    map[Address(c)] = c \/ <<c, map[Address(c)]>> \in mix

MapsType(map) ==
  /\ DOMAIN map \subseteq Device \ {NoDevice}
  /\ IsFiniteSet(DOMAIN map) /\ Cardinality(DOMAIN map) <= MAP_ENTRIES
  /\ \A k \in DOMAIN map : map[k] \in Cameras

\* What a vb2 event does to the bindings and to the history, and what it may
\* say: all that the actions that send one need to know of it.
LEMMA SubmitFacts ==
  ASSUME Vb2Inv, NEW starved \in BOOLEAN, NEW cam \in Cameras, NEW q \in Cameras,
         NEW t \in 1 .. now, t + 1 >= now, q = cam \/ <<cam, q>> \in mixed,
         Submit(starved, cam, q, t)
  PROVE  /\ MapsType(vb2_dev_queue') /\ Explained(vb2_dev_queue', mixed')
         /\ mixed \subseteq mixed' /\ mixed' \subseteq Cameras \X Cameras
         /\ announced' = IF starved THEN [announced EXCEPT ![q] = t] ELSE announced
         /\ ev' \in Event /\ MisattributedOnlyByOverlap'
         /\ ev'.queue = q /\ ev'.cam = cam
         /\ ev'.early => starved /\ announced[q] # 0 /\ t - announced[q] < COOLDOWN
<1> DEFINE dev    == DeviceNamed(t)
           others == {c \in Cameras \ {cam} : running[c] # 0 /\ running[c] + WIRE_MAX >= t}
           early  == starved /\ announced[q] # 0 /\ t - announced[q] < COOLDOWN
           crowd  == others # {}
           half   == pc[cam] = "bus_set"
<1>1. /\ vb2_dev_queue' = BindDev(q, dev)
      /\ mixed' = mixed \cup {<<c, q>> : c \in others \ {q}}
      /\ announced' = IF starved THEN [announced EXCEPT ![q] = t] ELSE announced
      /\ ev' = [starved |-> starved, cam |-> cam, queue |-> q, dev |-> dev,
                early |-> early, others |-> crowd, half |-> half]
  BY DEF Submit
<1>2. /\ dev \in Device
      /\ dev \in {NoDevice, Address(cam)} \/ crowd \/ half
      /\ \A c \in Cameras : dev = Address(c) => c = cam \/ c \in others
  BY NamedFacts DEF Vb2Inv
<1>3. early \in BOOLEAN /\ crowd \in BOOLEAN /\ half \in BOOLEAN
  OBVIOUS
<1>4. others \subseteq Cameras
  OBVIOUS
<1>5. early => starved /\ announced[q] # 0 /\ t - announced[q] < COOLDOWN
  OBVIOUS
<1> HIDE DEF dev, others, early, crowd, half
<1>6. mixed \subseteq mixed' /\ mixed' \subseteq Cameras \X Cameras
  BY <1>1, <1>4 DEF Vb2Inv, TypeOK
<1>7. MapsType(vb2_dev_queue) /\ Explained(vb2_dev_queue, mixed)
  BY DEF Vb2Inv, TypeOK, Finite, BindingsExplained, MapsType, Explained
<1>8. MapsType(vb2_dev_queue') /\ Explained(vb2_dev_queue', mixed')
  <2>1. CASE dev = NoDevice
    <3>1. vb2_dev_queue' = vb2_dev_queue BY <1>1, <2>1 DEF BindDev
    <3> QED BY <3>1, <1>6, <1>7 DEF MapsType, Explained
  <2>2. CASE dev # NoDevice
    <3>1. vb2_dev_queue' = Put(vb2_dev_queue, dev, q) BY <1>1, <2>2 DEF BindDev
    <3>2. /\ IsFiniteSet(DOMAIN vb2_dev_queue') /\ Cardinality(DOMAIN vb2_dev_queue') <= MAP_ENTRIES
          /\ DOMAIN vb2_dev_queue' \subseteq DOMAIN vb2_dev_queue \cup {dev}
          /\ \A k \in DOMAIN vb2_dev_queue' : k # dev => k \in DOMAIN vb2_dev_queue
                                                     /\ vb2_dev_queue'[k] = vb2_dev_queue[k]
          /\ dev \in DOMAIN vb2_dev_queue' => vb2_dev_queue'[dev] = q
      BY <3>1, <1>7, PutFacts DEF MapsType
    <3>3. MapsType(vb2_dev_queue')
      BY <3>2, <2>2, <1>2, <1>7 DEF MapsType
    <3>4. ASSUME NEW c \in Cameras, Address(c) \in DOMAIN vb2_dev_queue'
          PROVE  vb2_dev_queue'[Address(c)] = c \/ <<c, vb2_dev_queue'[Address(c)]>> \in mixed'
      <4>1. CASE Address(c) = dev
        <5>1. vb2_dev_queue'[Address(c)] = q BY <3>2, <3>4, <4>1
        <5>2. c # cam => c \in others BY <4>1, <1>2
        <5> QED BY <5>1, <5>2, <1>1
      <4>2. CASE Address(c) # dev
        BY <3>2, <3>4, <4>2, <1>6, <1>7 DEF Explained
      <4> QED BY <4>1, <4>2
    <3> QED BY <3>3, <3>4 DEF Explained
  <2> QED BY <2>1, <2>2
<1>9. ev' \in Event
  BY <1>1, <1>2, <1>3 DEF Event
<1>10. /\ ev'.queue = q /\ ev'.cam = cam /\ ev'.dev = dev
       /\ ev'.early = early /\ ev'.others = crowd /\ ev'.half = half
  BY <1>1
<1>11. MisattributedOnlyByOverlap'
  BY <1>10, <1>2 DEF MisattributedOnlyByOverlap
<1> QED BY <1>1, <1>5, <1>6, <1>8, <1>9, <1>10, <1>11

-----------------------------------------------------------------------------
(* The initial state. *)

\* No queue and no starvation is known yet.
LEMMA InitHolds == Init => Vb2Inv
<1> SUFFICES ASSUME Init PROVE Vb2Inv
  OBVIOUS
<1> USE Vb2Assumption
<1>1. DOMAIN vb2_dev_queue = {} /\ DOMAIN last_starve = {}
  BY DEF Init
<1>2. Finite /\ Cardinality({}) = 0
  BY <1>1, FS_EmptySet DEF Finite
<1>3. corr \in [ns: Nat, of: Device] /\ corr.ns = 0 /\ corr.of.bus = 0 /\ corr.of.dev = 0
  BY DEF Init, ZeroEntry, NoDevice, Device
<1>4. \A c \in Cameras : target[c] = {} /\ Cardinality(target[c]) <= 1
  BY <1>2 DEF Init
<1>5. TypeOK
  BY <1>1, <1>2, <1>3, <1>4 DEF Init, TypeOK
<1>6. Programs
  BY DEF Init, Programs
<1>7. EntryWritten
  BY <1>3 DEF Init, EntryWritten
<1>8. BindingsExplained /\ CooldownKept
  BY <1>1, <1>4 DEF Init, BindingsExplained, CooldownKept
<1>9. MisattributedOnlyByOverlap /\ StarvationBlamesItsCamera /\ StarvedOncePerCooldown
  BY DEF Init, MisattributedOnlyByOverlap, StarvationBlamesItsCamera, StarvedOncePerCooldown
<1> QED BY <1>2, <1>5, <1>6, <1>7, <1>8, <1>9 DEF Vb2Inv

-----------------------------------------------------------------------------
(* The steps without an event. *)

\* Nothing is said, bound or announced: what is left to show of such a step.
Untold ==
  /\ TypeOK' /\ IsFiniteSet(DOMAIN last_starve)' /\ Programs' /\ EntryWritten'
  /\ \A c \in Cameras : \A q \in target'[c] : q = c \/ <<c, q>> \in mixed
  /\ CooldownKept'

\* The steps that touch neither map nor history.
LEMMA QuietKeeps ==
  ASSUME Vb2Inv, Quiet, Untold
  PROVE  Vb2Inv'
<1>1. Finite'
  BY DEF Vb2Inv, Finite, Quiet, Untold
<1>2. BindingsExplained'
  BY DEF Vb2Inv, BindingsExplained, Quiet, Untold
<1>3. (MisattributedOnlyByOverlap /\ StarvationBlamesItsCamera /\ StarvedOncePerCooldown)'
  BY DEF Quiet, MisattributedOnlyByOverlap, StarvationBlamesItsCamera, StarvedOncePerCooldown
<1> QED BY <1>1, <1>2, <1>3 DEF Vb2Inv, Untold

\* The time stamp of the entry is not ahead of the clock.
LEMMA StampedBefore ==
  ASSUME TypeOK, EntryWritten
  PROVE  corr.ns <= now /\ corr.ns \in Nat /\ corr.of \in Device /\ now \in Nat
<1>1. corr.ns \in Nat /\ now \in Nat /\ corr.of.bus \in Cameras \cup {0} /\ WIRE_MAX \in Nat
      /\ corr.of \in Device
  BY Vb2Assumption DEF TypeOK, Device
<1>2. corr.of.bus # 0 => running[corr.of.bus] \in 0 .. now
  BY <1>1 DEF TypeOK
<1> QED BY <1>1, <1>2 DEF EntryWritten, Seen

\* The clock advances only past programs that began in its unit of time, and
\* forgets a camera no sooner than its entry has.
LEMMA TickKeeps ==
  ASSUME Vb2Inv, Tick
  PROVE  Vb2Inv'
<1> USE Vb2Assumption DEF Vb2Inv
<1>1. Quiet
  BY DEF Tick
<1>2. now \in Nat /\ WIRE_MAX \in Nat /\ now' = now + 1
  BY DEF Tick, TypeOK
<1>3. \A c \in Cameras :
        /\ running[c] \in 0 .. now
        /\ running'[c] = IF pc[c] # "idle" THEN now + 1
                         ELSE IF running[c] + WIRE_MAX < now THEN 0 ELSE running[c]
  BY DEF Tick, TypeOK
<1>4. TypeOK'
  <2>1. running' \in [Cameras -> 0 .. now']
    BY <1>2, <1>3 DEF Tick
  <2>2. at' \in [Cameras -> 0 .. now'] /\ announced' \in [Cameras -> 0 .. now']
    BY <1>2 DEF Tick, Quiet, TypeOK
  <2> QED BY <1>2, <2>1, <2>2 DEF Tick, Quiet, TypeOK
<1>5. Programs'
  <2>1. \A c \in Cameras : pc[c] # "idle" => at[c] = now
    BY DEF Tick
  <2> QED BY <1>2, <1>3, <2>1 DEF Tick, Programs
<1>6. \A d \in Cameras, s \in Nat : Seen(d, s) => Seen(d, s)'
  BY <1>2, <1>3 DEF Seen
<1>7. EntryWritten'
  <2>1. corr.ns \in Nat /\ corr.of.bus \in Cameras \cup {0} /\ corr.of.dev \in Cameras \cup {0}
    BY DEF TypeOK, Device
  <2>2. \A c \in Cameras : at[c] \in Nat
    BY DEF TypeOK
  <2>3. corr' = corr /\ pc' = pc /\ at' = at /\ mine' = mine
    BY DEF Tick
  <2>4. /\ corr.of.bus # 0 => Seen(corr.of.bus, corr.ns)'
        /\ corr.of.dev # 0 => Seen(corr.of.dev, corr.ns)'
        /\ corr.of.dev # 0 => \A c \in Cameras : pc[c] = "zeroed" => Seen(corr.of.dev, at[c])'
    BY <1>6, <2>1, <2>2, <2>3 DEF EntryWritten, Seen
  <2> QED BY <2>3, <2>4 DEF EntryWritten, Seen
<1>8. Untold
  BY <1>2, <1>4, <1>5, <1>7 DEF Tick, Quiet, Untold, Finite, BindingsExplained, CooldownKept, Unmixed
<1> QED BY <1>1, <1>8, QuietKeeps

\* The program of a camera has run now; what was seen before is still seen.
LEMMA StepToFacts ==
  ASSUME Vb2Inv, NEW c \in Cameras, NEW from, NEW to, StepTo(c, from, to),
         to \in {"idle", "zeroed", "bus_set", "stored", "starving"}
  PROVE  /\ now \in Nat /\ now' = now /\ queued' = queued /\ pc[c] = from
         /\ pc' \in [Cameras -> {"idle", "zeroed", "bus_set", "stored", "starving"}]
         /\ running' \in [Cameras -> 0 .. now'] /\ running'[c] = now
         /\ \A d \in Cameras : /\ pc'[d] = IF d = c THEN to ELSE pc[d]
                               /\ d # c => running'[d] = running[d]
                               /\ \A s \in Nat : Seen(d, s) => Seen(d, s)'
<1>1. now \in Nat /\ WIRE_MAX \in Nat /\ \A d \in Cameras : running[d] \in 0 .. now
  BY Vb2Assumption DEF Vb2Inv, TypeOK
<1>2. \A d \in Cameras : running'[d] = IF d = c THEN now ELSE running[d]
  BY DEF StepTo, Vb2Inv, TypeOK
<1>3. now' = now /\ queued' = queued /\ pc[c] = from
      /\ \A d \in Cameras : pc'[d] = IF d = c THEN to ELSE pc[d]
  BY DEF StepTo, Vb2Inv, TypeOK
<1>4. pc' \in [Cameras -> {"idle", "zeroed", "bus_set", "stored", "starving"}]
      /\ running' \in [Cameras -> 0 .. now']
  BY <1>1, <1>3 DEF StepTo, Vb2Inv, TypeOK
<1>5. \A d \in Cameras, s \in Nat : Seen(d, s) => Seen(d, s)'
  BY <1>1, <1>2, <1>3 DEF Seen
<1> QED BY <1>1, <1>2, <1>3, <1>4, <1>5

\* The zeroed element names nobody.
LEMMA FrameEndKeeps ==
  ASSUME Vb2Inv, NEW c \in Cameras, FrameEnd(c)
  PROVE  Vb2Inv'
<1>0. StepTo(c, "idle", "zeroed") /\ Quiet
  BY DEF FrameEnd
<1>1. /\ now \in Nat /\ now' = now /\ queued' = queued /\ pc[c] = "idle"
      /\ pc' \in [Cameras -> {"idle", "zeroed", "bus_set", "stored", "starving"}]
      /\ running' \in [Cameras -> 0 .. now'] /\ running'[c] = now
      /\ \A d \in Cameras : /\ pc'[d] = IF d = c THEN "zeroed" ELSE pc[d]
                            /\ d # c => running'[d] = running[d]
  BY <1>0, StepToFacts
<1>2. at' \in [Cameras -> 0 .. now'] /\ at'[c] = now /\ \A d \in Cameras : d # c => at'[d] = at[d]
  BY <1>1 DEF FrameEnd, Vb2Inv, TypeOK
<1>3. target[c] = {} /\ target' = target /\ last_starve' = last_starve
  BY <1>1 DEF FrameEnd, Vb2Inv, TypeOK
<1>4. corr' \in [ns: Nat, of: Device] /\ corr'.ns = 0 /\ corr'.of.bus = 0 /\ corr'.of.dev = 0
  BY DEF FrameEnd, ZeroEntry, NoDevice, Device
<1>5. mine' \in [Cameras -> BOOLEAN] /\ \A d \in Cameras : ~mine'[d]
  BY DEF FrameEnd
<1>6. TypeOK'
  BY <1>0, <1>1, <1>2, <1>3, <1>4, <1>5 DEF Quiet, Vb2Inv, TypeOK
<1>7. Programs'
  BY <1>1, <1>2 DEF Programs, Vb2Inv
<1>8. EntryWritten'
  BY <1>4, <1>5 DEF EntryWritten
<1>9. CooldownKept'
  <2>1. \A q \in Cameras : announced[q] \in 0 .. now
    BY DEF Vb2Inv, TypeOK
  <2> QED BY <1>0, <1>1, <1>2, <1>3, <2>1 DEF Vb2Inv, CooldownKept, Unmixed, Quiet
<1>10. Untold
  BY <1>3, <1>6, <1>7, <1>8, <1>9 DEF Untold, Vb2Inv, BindingsExplained, Finite
<1> QED BY <1>0, <1>10, QuietKeeps

\* The store of the bus number, with the time the program began.
LEMMA SetTimeAndBusKeeps ==
  ASSUME Vb2Inv, NEW c \in Cameras, SetTimeAndBus(c)
  PROVE  Vb2Inv'
<1>0. StepTo(c, "zeroed", "bus_set") /\ Quiet
      /\ UNCHANGED <<at, target, last_starve>>
  BY DEF SetTimeAndBus, Store
<1>1. /\ now \in Nat /\ now' = now /\ queued' = queued /\ pc[c] = "zeroed"
      /\ pc' \in [Cameras -> {"idle", "zeroed", "bus_set", "stored", "starving"}]
      /\ running' \in [Cameras -> 0 .. now'] /\ running'[c] = now
      /\ \A d \in Cameras : /\ pc'[d] = IF d = c THEN "bus_set" ELSE pc[d]
                            /\ d # c => running'[d] = running[d]
                            /\ \A s \in Nat : Seen(d, s) => Seen(d, s)'
  BY <1>0, StepToFacts
<1>2. at[c] \in Nat /\ at[c] <= now /\ \A d \in Cameras : at[d] \in Nat
  BY <1>1 DEF Vb2Inv, TypeOK
<1>3. corr.of.dev \in Cameras \cup {0} /\ corr.of \in Device
  BY DEF Vb2Inv, TypeOK, Device
<1>4. corr' = [ns |-> at[c], of |-> [corr.of EXCEPT !.bus = c]]
  BY DEF SetTimeAndBus, Store
<1>5. [corr.of EXCEPT !.bus = c] \in Device
      /\ [corr.of EXCEPT !.bus = c].bus = c /\ [corr.of EXCEPT !.bus = c].dev = corr.of.dev
  BY <1>3 DEF Device
<1>6. corr' \in [ns: Nat, of: Device]
      /\ corr'.ns = at[c] /\ corr'.of.bus = c /\ corr'.of.dev = corr.of.dev
  BY <1>2, <1>4, <1>5
<1>7. mine' \in [Cameras -> BOOLEAN] /\ mine'[c]
  BY DEF SetTimeAndBus, Vb2Inv, TypeOK
<1>8. TypeOK'
  BY <1>0, <1>1, <1>6, <1>7 DEF Quiet, Vb2Inv, TypeOK
<1>9. Programs'
  BY <1>0, <1>1 DEF Programs, Vb2Inv
<1>10. EntryWritten'
  <2>1. Seen(c, at[c])'
    BY <1>0, <1>1, <1>2 DEF Seen
  <2>2. corr.of.dev # 0 => /\ Seen(corr.of.dev, at[c])'
                           /\ \A d \in Cameras : pc'[d] = "zeroed" => Seen(corr.of.dev, at[d])'
    BY <1>0, <1>1, <1>2, <1>3, <1>6 DEF Vb2Inv, EntryWritten, Seen
  <2>3. c # 0
    BY Vb2Assumption
  <2> QED BY <1>0, <1>1, <1>6, <1>7, <2>1, <2>2, <2>3 DEF EntryWritten, Seen
<1>11. CooldownKept'
  BY <1>0, <1>1 DEF Vb2Inv, CooldownKept, Unmixed, Quiet
<1>12. Untold
  BY <1>0, <1>8, <1>9, <1>10, <1>11 DEF Untold, Vb2Inv, BindingsExplained, Finite
<1> QED BY <1>0, <1>12, QuietKeeps

\* The store of the device number, into the element of the map or into one
\* that was replaced.
LEMMA SetDevKeeps ==
  ASSUME Vb2Inv, NEW c \in Cameras, SetDev(c)
  PROVE  Vb2Inv'
<1>0. StepTo(c, "bus_set", "stored") /\ Quiet
      /\ UNCHANGED <<at, target, last_starve>>
  BY DEF SetDev, Store
<1>1. /\ now \in Nat /\ now' = now /\ queued' = queued /\ pc[c] = "bus_set"
      /\ pc' \in [Cameras -> {"idle", "zeroed", "bus_set", "stored", "starving"}]
      /\ running' \in [Cameras -> 0 .. now'] /\ running'[c] = now
      /\ \A d \in Cameras : /\ pc'[d] = IF d = c THEN "stored" ELSE pc[d]
                            /\ d # c => running'[d] = running[d]
                            /\ \A s \in Nat : Seen(d, s) => Seen(d, s)'
  BY <1>0, StepToFacts
<1>2. \A d \in Cameras : at[d] \in Nat /\ at[d] <= now
  BY <1>1 DEF Vb2Inv, TypeOK
<1>3. /\ corr.ns <= now /\ corr.ns \in Nat /\ corr.of \in Device
      /\ corr.of.bus \in Cameras \cup {0} /\ corr.of.dev \in Cameras \cup {0}
  BY StampedBefore DEF Vb2Inv, Device
<1>4. /\ mine' \in [Cameras -> BOOLEAN]
      /\ \A d \in Cameras : mine'[d] => mine[d]
      /\ \A d \in Cameras : d # c => mine'[d] = mine[d]
  BY DEF SetDev, Vb2Inv, TypeOK
<1>5. CASE mine[c]
  <2>1. corr' = [corr EXCEPT !.of.dev = c]
    BY <1>5 DEF SetDev, Store
  <2>2. corr' \in [ns: Nat, of: Device]
        /\ corr'.ns = corr.ns /\ corr'.of.bus = corr.of.bus /\ corr'.of.dev = c
    BY <2>1 DEF Vb2Inv, TypeOK, Device
  <2>3. TypeOK'
    BY <1>0, <1>1, <1>4, <2>2 DEF Quiet, Vb2Inv, TypeOK
  <2>4. \A s \in Nat : s <= now => Seen(c, s)'
    BY <1>1 DEF Seen
  <2>5. corr.of.bus # 0 => Seen(corr.of.bus, corr.ns)'
    BY <1>1, <1>3, <2>2 DEF Vb2Inv, EntryWritten, Seen
  <2>6. EntryWritten'
    <3>1. c # 0
      BY Vb2Assumption
    <3>2. Seen(c, corr.ns)' /\ \A d \in Cameras : Seen(c, at[d])'
      BY <1>0, <1>2, <1>3, <2>2, <2>4 DEF Seen
    <3> QED BY <1>0, <1>1, <1>4, <2>2, <2>5, <3>1, <3>2 DEF Vb2Inv, EntryWritten, Seen
  <2> QED
    BY <1>0, <1>1, <2>3, <2>6, QuietKeeps
    DEF Untold, Vb2Inv, BindingsExplained, Finite, Programs, CooldownKept, Unmixed, Quiet
<1>6. CASE ~mine[c]
  <2>1. corr' = corr
    BY <1>6 DEF SetDev, Store
  <2>2. TypeOK'
    BY <1>0, <1>1, <1>4, <2>1 DEF Quiet, Vb2Inv, TypeOK
  <2>3. EntryWritten'
    <3>1. /\ corr.of.bus # 0 => Seen(corr.of.bus, corr.ns)'
          /\ corr.of.dev # 0 => Seen(corr.of.dev, corr.ns)'
      BY <1>1, <1>3, <2>1 DEF Vb2Inv, EntryWritten, Seen
    <3>2. corr.of.dev # 0 => \A d \in Cameras : pc'[d] = "zeroed" => Seen(corr.of.dev, at[d])'
      BY <1>0, <1>1, <1>2, <1>3, <2>1 DEF Vb2Inv, EntryWritten, Seen
    <3>3. corr.of.bus # 0 /\ corr.of.dev = 0 => corr.of.bus # c
      BY <1>6 DEF Vb2Inv, EntryWritten
    <3> QED BY <1>0, <1>1, <1>3, <1>4, <2>1, <3>1, <3>2, <3>3 DEF Vb2Inv, EntryWritten, Seen
  <2> QED
    BY <1>0, <1>1, <2>2, <2>3, QuietKeeps
    DEF Untold, Vb2Inv, BindingsExplained, Finite, Programs, CooldownKept, Unmixed, Quiet
<1> QED BY <1>5, <1>6

\* A step that neither writes the entry nor begins to leaves it explained.
LEMMA EntryKept ==
  ASSUME Vb2Inv, corr' = corr, mine' = mine,
         \A d \in Cameras : /\ \A s \in Nat : Seen(d, s) => Seen(d, s)'
                            /\ pc'[d] = "zeroed" => pc[d] = "zeroed" /\ at'[d] = at[d]
                            /\ pc[d] = "bus_set" => pc'[d] = "bus_set"
  PROVE  EntryWritten'
<1>1. /\ corr.ns \in Nat /\ corr.of.bus \in Cameras \cup {0} /\ corr.of.dev \in Cameras \cup {0}
      /\ \A d \in Cameras : at[d] \in Nat
  BY DEF Vb2Inv, TypeOK, Device
<1>2. /\ corr.of.bus # 0 => Seen(corr.of.bus, corr.ns)'
      /\ corr.of.dev # 0 => Seen(corr.of.dev, corr.ns)'
  BY <1>1 DEF Vb2Inv, EntryWritten, Seen
<1>3. corr.of.dev # 0 => \A d \in Cameras : pc'[d] = "zeroed" => Seen(corr.of.dev, at[d])'
  BY <1>1 DEF Vb2Inv, EntryWritten, Seen
<1> QED BY <1>1, <1>2, <1>3 DEF Vb2Inv, EntryWritten, Seen

\* The state of a queue in vb2_queues, created with no starvation in it.
LEMMA QStateFacts ==
  ASSUME Vb2Inv, NEW q \in Cameras
  PROVE  LET st == QState(q)
         IN  /\ IsFiniteSet(DOMAIN st) /\ Cardinality(DOMAIN st) <= MAP_ENTRIES
             /\ DOMAIN last_starve \subseteq DOMAIN st
             /\ DOMAIN st \subseteq DOMAIN last_starve \cup {q} /\ DOMAIN st \subseteq Cameras
             /\ \A p \in DOMAIN last_starve : st[p] = last_starve[p]
             /\ \A p \in DOMAIN st : p \notin DOMAIN last_starve => st[p] = 0
<1> DEFINE value == IF q \in DOMAIN last_starve THEN last_starve[q] ELSE 0
<1>1. QState(q) = Put(last_starve, q, value)
  BY DEF QState
<1>2. IsFiniteSet(DOMAIN last_starve) /\ Cardinality(DOMAIN last_starve) <= MAP_ENTRIES
      /\ DOMAIN last_starve \subseteq Cameras
  BY DEF Vb2Inv, TypeOK, Finite
<1>3. value = IF q \in DOMAIN last_starve THEN last_starve[q] ELSE 0
  OBVIOUS
<1> HIDE DEF value
<1>4. LET st == Put(last_starve, q, value)
      IN  /\ IsFiniteSet(DOMAIN st) /\ Cardinality(DOMAIN st) <= MAP_ENTRIES
          /\ DOMAIN last_starve \subseteq DOMAIN st
          /\ DOMAIN st \subseteq DOMAIN last_starve \cup {q}
          /\ \A k \in DOMAIN st : k # q => k \in DOMAIN last_starve /\ st[k] = last_starve[k]
          /\ q \in DOMAIN st => st[q] = value
  BY <1>2, PutFacts
<1> QED BY <1>1, <1>2, <1>3, <1>4

\* The queue found empty is bound to the address, and a cooldown past its last
\* starvation.
LEMMA CheckStarvationKeeps ==
  ASSUME Vb2Inv, NEW c \in Cameras, CheckStarvation(c)
  PROVE  Vb2Inv'
<1> DEFINE empty   == EmptyQueues(c)
           starved == {q \in empty : CooledDown(q, at[c])}
           known   == KnownQueues(c)
           to      == IF starved = {} THEN "idle" ELSE "starving"
<1>0. StepTo(c, "stored", to) /\ Quiet /\ corr' = corr /\ mine' = mine
      /\ target' = [target EXCEPT ![c] = starved]
      /\ at' = [at EXCEPT ![c] = IF starved = {} THEN 0 ELSE @]
  BY DEF CheckStarvation
<1>1. /\ now \in Nat /\ now' = now /\ queued' = queued /\ pc[c] = "stored"
      /\ pc' \in [Cameras -> {"idle", "zeroed", "bus_set", "stored", "starving"}]
      /\ running' \in [Cameras -> 0 .. now'] /\ running'[c] = now
      /\ \A d \in Cameras : /\ pc'[d] = IF d = c THEN to ELSE pc[d]
                            /\ d # c => running'[d] = running[d]
                            /\ \A s \in Nat : Seen(d, s) => Seen(d, s)'
  BY <1>0, StepToFacts
<1>2. empty \subseteq Cameras /\ \A p, q \in empty : p = q
  BY DEF EmptyQueues
<1>3. \A q \in empty : q = c \/ <<c, q>> \in mixed
  BY DEF EmptyQueues, Vb2Inv, BindingsExplained
<1>5. starved \subseteq empty /\ \A q \in starved : CooledDown(q, at[c])
  OBVIOUS
<1>a. /\ empty = {} => known = DOMAIN last_starve
      /\ \A q : empty = {q} => known = DOMAIN last_starve \cup DOMAIN QState(q)
      /\ DOMAIN last_starve \subseteq known /\ \A q \in empty : DOMAIN QState(q) \subseteq known
  BY DEF KnownQueues
<1>b. last_starve' = [q \in known |-> IF q \in DOMAIN last_starve THEN last_starve[q] ELSE 0]
  BY DEF CheckStarvation
<1> HIDE DEF empty, starved, known
<1>4. /\ DOMAIN last_starve' = known
      /\ \A q \in DOMAIN last_starve' :
           last_starve'[q] = IF q \in DOMAIN last_starve THEN last_starve[q] ELSE 0
  BY <1>b
<1>6. IsFiniteSet(DOMAIN last_starve') /\ Cardinality(DOMAIN last_starve') <= MAP_ENTRIES
      /\ DOMAIN last_starve' \subseteq Cameras
  <2>1. CASE empty = {}
    <3>1. DOMAIN last_starve' = DOMAIN last_starve BY <1>4, <1>a, <2>1
    <3> QED BY <3>1 DEF Vb2Inv, TypeOK, Finite
  <2>2. CASE empty # {}
    <3>1. PICK q \in empty : TRUE BY <2>2
    <3>2. q \in Cameras /\ empty = {q} BY <1>2, <3>1
    <3>3. DOMAIN last_starve \subseteq DOMAIN QState(q)
          /\ IsFiniteSet(DOMAIN QState(q)) /\ Cardinality(DOMAIN QState(q)) <= MAP_ENTRIES
          /\ DOMAIN QState(q) \subseteq Cameras
      BY <3>2, QStateFacts
    <3>4. DOMAIN last_starve' = DOMAIN QState(q)
      BY <1>4, <1>a, <3>2, <3>3
    <3> QED BY <3>3, <3>4
  <2> QED BY <2>1, <2>2
<1>7. starved \subseteq DOMAIN last_starve'
  BY <1>4, <1>5, <1>a DEF CooledDown
<1>8. Cardinality(starved) <= 1
  <2>1. CASE starved = {}
    BY <2>1, FS_EmptySet
  <2>2. CASE starved # {}
    <3>1. PICK q \in starved : starved = {q} BY <1>2, <1>5, <2>2
    <3>2. Cardinality({q}) = 1 BY FS_Singleton
    <3> QED BY <3>1, <3>2
  <2> QED BY <2>1, <2>2
<1>9. target' \in [Cameras -> SUBSET DOMAIN last_starve']
      /\ target'[c] = starved /\ \A d \in Cameras : d # c => target'[d] = target[d]
  <2>1. \A d \in Cameras : target[d] \subseteq DOMAIN last_starve'
    BY <1>4, <1>a DEF Vb2Inv, TypeOK
  <2>2. DOMAIN target' = Cameras
        /\ \A d \in Cameras : target'[d] = IF d = c THEN starved ELSE target[d]
    BY <1>0 DEF Vb2Inv, TypeOK
  <2>3. target' = [d \in Cameras |-> target'[d]]
    BY <1>0, <2>2 DEF Vb2Inv, TypeOK
  <2> QED BY <1>7, <2>1, <2>2, <2>3
<1>10. at' \in [Cameras -> 0 .. now']
       /\ \A d \in Cameras : at'[d] = IF d = c /\ starved = {} THEN 0 ELSE at[d]
  BY <1>0, <1>1 DEF Vb2Inv, TypeOK
<1>11. TypeOK'
  <2>1. \A d \in Cameras : Cardinality(target'[d]) <= 1 /\ (pc'[d] = "starving" <=> target'[d] # {})
    BY <1>1, <1>8, <1>9 DEF Vb2Inv, TypeOK
  <2> QED BY <1>0, <1>1, <1>6, <1>9, <1>10, <2>1 DEF Quiet, Vb2Inv, TypeOK
<1>12. Programs'
  BY <1>1, <1>10 DEF Vb2Inv, Programs
<1>13. EntryWritten'
  BY <1>0, <1>1, <1>10, EntryKept
<1>14. \A d \in Cameras : \A q \in target'[d] : q = d \/ <<d, q>> \in mixed
  BY <1>3, <1>5, <1>9 DEF Vb2Inv, BindingsExplained
<1>15. CooldownKept'
  <2> SUFFICES ASSUME NEW q \in Cameras, Unmixed(q)
               PROVE  /\ announced[q] # 0 => q \in DOMAIN last_starve' /\ last_starve'[q] = announced[q]
                      /\ announced[q] = 0 /\ q \in DOMAIN last_starve' => last_starve'[q] = 0
                      /\ pc'[q] # "idle" => announced[q] <= at'[q]
                      /\ q \in target'[q] => announced[q] = 0 \/ at'[q] - announced[q] >= COOLDOWN
    BY <1>0 DEF CooldownKept, Unmixed, Quiet
  <2>1. /\ announced[q] # 0 => q \in DOMAIN last_starve /\ last_starve[q] = announced[q]
        /\ announced[q] = 0 /\ q \in DOMAIN last_starve => last_starve[q] = 0
        /\ pc[q] # "idle" => announced[q] <= at[q]
        /\ q \in target[q] => announced[q] = 0 \/ at[q] - announced[q] >= COOLDOWN
    BY DEF Vb2Inv, CooldownKept
  <2>2. announced[q] # 0 => q \in DOMAIN last_starve' /\ last_starve'[q] = announced[q]
    BY <1>4, <1>a, <2>1
  <2>3. announced[q] = 0 /\ q \in DOMAIN last_starve' => last_starve'[q] = 0
    BY <1>4, <1>a, <2>1
  <2>4. pc'[q] # "idle" => announced[q] <= at'[q]
    BY <1>1, <1>10, <2>1
  <2>5. ASSUME q \in target'[q], announced[q] # 0
        PROVE  at'[q] - announced[q] >= COOLDOWN
    <3>1. CASE q # c
      BY <1>9, <1>10, <2>1, <2>5, <3>1
    <3>2. CASE q = c
      <4>1. CooledDown(q, at[q]) /\ starved # {}
        BY <1>5, <1>9, <2>5, <3>2
      <4>2. QState(q)[q] = announced[q] /\ announced[q] <= at[q]
        BY <1>1, <2>1, <2>5, <3>2, QStateFacts
      <4>3. announced[q] \in Nat /\ at[q] \in Nat
        BY DEF Vb2Inv, TypeOK
      <4> QED BY <1>10, <2>5, <4>1, <4>2, <4>3 DEF CooledDown
    <3> QED BY <3>1, <3>2
  <2> QED BY <2>2, <2>3, <2>4, <2>5
<1>16. IsFiniteSet(DOMAIN last_starve)'
  BY <1>6
<1>17. Untold
  BY <1>11, <1>12, <1>13, <1>14, <1>15, <1>16 DEF Untold
<1> QED BY <1>0, <1>17, QuietKeeps

-----------------------------------------------------------------------------
(* The steps that send an event. *)

\* TypeOK of all that an event does not touch.
RestTypeOK ==
  /\ now \in Nat /\ corr \in [ns: Nat, of: Device]
  /\ pc \in [Cameras -> {"idle", "zeroed", "bus_set", "stored", "starving"}]
  /\ at \in [Cameras -> 0 .. now] /\ mine \in [Cameras -> BOOLEAN]
  /\ DOMAIN last_starve \subseteq Cameras /\ Cardinality(DOMAIN last_starve) <= MAP_ENTRIES
  /\ target \in [Cameras -> SUBSET DOMAIN last_starve]
  /\ \A c \in Cameras : Cardinality(target[c]) <= 1 /\ (pc[c] = "starving" <=> target[c] # {})
  /\ queued \in [Cameras -> 0 .. NUM_BUFFERS] /\ running \in [Cameras -> 0 .. now]

\* What is left to show of a step that sends the event.
LEMMA EventKeeps ==
  ASSUME Vb2Inv, NEW starved \in BOOLEAN, NEW cam \in Cameras, NEW q \in Cameras,
         NEW t \in 1 .. now, t + 1 >= now, q = cam \/ <<cam, q>> \in mixed,
         Submit(starved, cam, q, t),
         starved => t = at[cam] /\ q \in target[cam],
         now' = now, RestTypeOK', IsFiniteSet(DOMAIN last_starve)', Programs', EntryWritten',
         \A c \in Cameras : target'[c] \subseteq target[c],
         CooldownKept'
  PROVE  Vb2Inv'
<1>1. /\ MapsType(vb2_dev_queue') /\ Explained(vb2_dev_queue', mixed')
      /\ mixed \subseteq mixed' /\ mixed' \subseteq Cameras \X Cameras
      /\ announced' = IF starved THEN [announced EXCEPT ![q] = t] ELSE announced
      /\ ev' \in Event /\ MisattributedOnlyByOverlap'
      /\ ev'.queue = q /\ ev'.cam = cam
      /\ ev'.early => starved /\ announced[q] # 0 /\ t - announced[q] < COOLDOWN
  BY SubmitFacts
<1>2. announced' \in [Cameras -> 0 .. now']
  BY <1>1 DEF Vb2Inv, TypeOK
<1>3. TypeOK'
  BY <1>1, <1>2 DEF RestTypeOK, MapsType, TypeOK
<1>4. Finite'
  BY <1>1 DEF MapsType, Finite
<1>5. BindingsExplained'
  BY <1>1 DEF Explained, BindingsExplained, Vb2Inv
<1>6. StarvationBlamesItsCamera'
  BY <1>1 DEF StarvationBlamesItsCamera
<1>7. StarvedOncePerCooldown'
  <2>1. CASE ev'.early
    <3>1. starved /\ q \in target[cam] /\ t = at[cam] /\ announced[q] # 0 /\ t - announced[q] < COOLDOWN
      BY <1>1, <2>1
    <3>2. at[cam] \in Nat /\ announced[q] \in Nat /\ COOLDOWN \in Nat
      BY Vb2Assumption DEF Vb2Inv, TypeOK
    <3>3. q = cam => ~Unmixed(q)
      BY <3>1, <3>2 DEF Vb2Inv, CooldownKept
    <3>4. \E c \in Cameras : <<c, q>> \in mixed
      BY <3>3 DEF Unmixed
    <3> QED BY <1>1, <3>4 DEF StarvedOncePerCooldown
  <2>2. CASE ~ev'.early
    BY <2>2 DEF StarvedOncePerCooldown
  <2> QED BY <2>1, <2>2
<1> QED BY <1>1, <1>3, <1>4, <1>5, <1>6, <1>7 DEF Vb2Inv

\* The starvation is kept and announced at the time the program began.
LEMMA StarveKeeps ==
  ASSUME Vb2Inv, NEW c \in Cameras, Starve(c)
  PROVE  Vb2Inv'
<1>0. PICK q \in target[c] :
        /\ StepTo(c, "starving", "idle")
        /\ target' = [target EXCEPT ![c] = {}] /\ at' = [at EXCEPT ![c] = 0]
        /\ last_starve' = [last_starve EXCEPT ![q] = at[c]]
        /\ Submit(TRUE, c, q, at[c])
        /\ UNCHANGED <<corr, mine>>
  BY DEF Starve, StarvedAt
<1>1. /\ now \in Nat /\ now' = now /\ queued' = queued /\ pc[c] = "starving"
      /\ pc' \in [Cameras -> {"idle", "zeroed", "bus_set", "stored", "starving"}]
      /\ running' \in [Cameras -> 0 .. now'] /\ running'[c] = now
      /\ \A d \in Cameras : /\ pc'[d] = IF d = c THEN "idle" ELSE pc[d]
                            /\ d # c => running'[d] = running[d]
                            /\ \A s \in Nat : Seen(d, s) => Seen(d, s)'
  BY <1>0, StepToFacts
<1>2. q \in DOMAIN last_starve /\ q \in Cameras /\ (q = c \/ <<c, q>> \in mixed)
  BY DEF Vb2Inv, TypeOK, BindingsExplained
<1>3. at[c] \in 1 .. now /\ at[c] + 1 >= now
  BY <1>1 DEF Vb2Inv, TypeOK, Programs
<1>4. /\ at' \in [Cameras -> 0 .. now']
      /\ \A d \in Cameras : at'[d] = IF d = c THEN 0 ELSE at[d]
  BY <1>0, <1>1 DEF Vb2Inv, TypeOK
<1>5. DOMAIN last_starve' = DOMAIN last_starve
      /\ \A p \in DOMAIN last_starve : last_starve'[p] = IF p = q THEN at[c] ELSE last_starve[p]
  BY <1>0
<1>6. /\ target' \in [Cameras -> SUBSET DOMAIN last_starve']
      /\ \A d \in Cameras : target'[d] = IF d = c THEN {} ELSE target[d]
  BY <1>0, <1>5 DEF Vb2Inv, TypeOK
<1>7. \A d \in Cameras : Cardinality(target'[d]) <= 1 /\ (pc'[d] = "starving" <=> target'[d] # {})
  <2>1. Cardinality({}) = 0
    BY FS_EmptySet
  <2> SUFFICES ASSUME NEW d \in Cameras
               PROVE  Cardinality(target'[d]) <= 1 /\ (pc'[d] = "starving" <=> target'[d] # {})
    OBVIOUS
  <2>2. CASE d = c
    <3>1. target'[d] = {} /\ pc'[d] = "idle" BY <1>1, <1>6, <2>2
    <3>2. Cardinality(target'[d]) = 0 BY <2>1, <3>1
    <3> QED BY <3>1, <3>2
  <2>3. CASE d # c
    BY <1>1, <1>6, <2>3 DEF Vb2Inv, TypeOK
  <2> QED BY <2>2, <2>3
<1>8. RestTypeOK'
  BY <1>0, <1>1, <1>4, <1>5, <1>6, <1>7 DEF Vb2Inv, TypeOK, RestTypeOK
<1>9. IsFiniteSet(DOMAIN last_starve)' /\ Programs'
  BY <1>1, <1>4, <1>5 DEF Vb2Inv, Finite, Programs
<1>10. EntryWritten'
  BY <1>0, <1>1, <1>4, EntryKept
<1>11. mixed \subseteq mixed' /\ announced' = [announced EXCEPT ![q] = at[c]]
  BY <1>0, <1>2, <1>3, SubmitFacts
<1>12. CooldownKept'
  <2> SUFFICES ASSUME NEW p \in Cameras, Unmixed(p)
               PROVE  /\ announced'[p] # 0 => p \in DOMAIN last_starve'
                                              /\ last_starve'[p] = announced'[p]
                      /\ announced'[p] = 0 /\ p \in DOMAIN last_starve' => last_starve'[p] = 0
                      /\ pc'[p] # "idle" => announced'[p] <= at'[p]
                      /\ p \in target'[p] => announced'[p] = 0 \/ at'[p] - announced'[p] >= COOLDOWN
    BY <1>11 DEF CooldownKept, Unmixed
  <2>1. CASE p = q
    <3>1. p = c
      BY <1>2, <2>1 DEF Unmixed
    <3>2. announced'[p] = at[c] /\ last_starve'[p] = at[c] /\ pc'[p] = "idle" /\ target'[p] = {}
      BY <1>1, <1>2, <1>5, <1>6, <1>11, <2>1, <3>1 DEF Vb2Inv, TypeOK
    <3>3. p \in DOMAIN last_starve' /\ announced'[p] # 0
      BY <1>2, <1>3, <1>5, <2>1, <3>2
    <3> QED BY <3>2, <3>3
  <2>2. CASE p # q
    <3>1. announced'[p] = announced[p] /\ (p \in DOMAIN last_starve => last_starve'[p] = last_starve[p])
      BY <1>5, <1>11, <2>2 DEF Vb2Inv, TypeOK
    <3>2. pc'[p] # "idle" => pc[p] # "idle" /\ at'[p] = at[p] /\ target'[p] = target[p]
      BY <1>1, <1>4, <1>6
    <3>3. p \in target'[p] => p \in target[p] /\ at'[p] = at[p]
      BY <1>4, <1>6
    <3> QED BY <1>5, <3>1, <3>2, <3>3 DEF Vb2Inv, CooldownKept
  <2> QED BY <2>1, <2>2
<1>13. \A d \in Cameras : target'[d] \subseteq target[d]
  BY <1>6
<1> QED BY <1>0, <1>1, <1>2, <1>3, <1>8, <1>9, <1>10, <1>12, <1>13, EventKeeps

\* A buffer queued, handed over or taken.
LEMMA XactKeeps ==
  ASSUME Vb2Inv, NEW q \in Cameras, NEW count, Xact(q, count)
  PROVE  Vb2Inv'
<1>0. /\ Submit(FALSE, q, q, now) /\ queued' = [queued EXCEPT ![q] = count]
      /\ count \in 0 .. NUM_BUFFERS
      /\ UNCHANGED <<now, corr, pc, at, mine, target, last_starve, running>>
  BY DEF Xact
<1>1. now \in 1 .. now /\ now + 1 >= now
  BY DEF Vb2Inv, TypeOK, Programs
<1>2. mixed \subseteq mixed' /\ announced' = announced
  BY <1>0, <1>1, SubmitFacts
<1>3. queued' \in [Cameras -> 0 .. NUM_BUFFERS]
  BY <1>0 DEF Vb2Inv, TypeOK
<1>4. RestTypeOK' /\ IsFiniteSet(DOMAIN last_starve)' /\ Programs'
  BY <1>0, <1>3 DEF Vb2Inv, TypeOK, RestTypeOK, Finite, Programs
<1>5. EntryWritten'
  BY <1>0 DEF Vb2Inv, EntryWritten, Seen
<1>6. CooldownKept'
  BY <1>0, <1>2 DEF Vb2Inv, CooldownKept, Unmixed
<1>7. \A d \in Cameras : target'[d] \subseteq target[d]
  BY <1>0
<1> QED BY <1>0, <1>1, <1>4, <1>5, <1>6, <1>7, EventKeeps

\* A buffer done, with or without room for the state of its queue.
LEMMA BufDoneKeeps ==
  ASSUME Vb2Inv, NEW q \in Cameras, BufDone(q)
  PROVE  Vb2Inv'
<1>0. /\ last_starve' = QState(q) /\ (Submit(FALSE, q, q, now) \/ Quiet)
      /\ UNCHANGED <<now, corr, pc, at, mine, target, queued, running>>
  BY DEF BufDone
<1>1. now \in 1 .. now /\ now + 1 >= now
  BY DEF Vb2Inv, TypeOK, Programs
<1>2. /\ IsFiniteSet(DOMAIN last_starve') /\ Cardinality(DOMAIN last_starve') <= MAP_ENTRIES
      /\ DOMAIN last_starve \subseteq DOMAIN last_starve' /\ DOMAIN last_starve' \subseteq Cameras
      /\ \A p \in DOMAIN last_starve : last_starve'[p] = last_starve[p]
      /\ \A p \in DOMAIN last_starve' : p \notin DOMAIN last_starve => last_starve'[p] = 0
  BY <1>0, QStateFacts
<1>3. mixed \subseteq mixed' /\ announced' = announced
  <2>1. CASE Submit(FALSE, q, q, now)
    BY <1>1, <2>1, SubmitFacts
  <2>2. CASE Quiet
    BY <2>2 DEF Quiet
  <2> QED BY <1>0, <2>1, <2>2
<1>4. target' \in [Cameras -> SUBSET DOMAIN last_starve']
  BY <1>0, <1>2 DEF Vb2Inv, TypeOK
<1>5. RestTypeOK' /\ IsFiniteSet(DOMAIN last_starve)' /\ Programs'
  BY <1>0, <1>2, <1>4 DEF Vb2Inv, TypeOK, RestTypeOK, Programs
<1>6. EntryWritten'
  BY <1>0 DEF Vb2Inv, EntryWritten, Seen
<1>7. CooldownKept'
  BY <1>0, <1>2, <1>3 DEF Vb2Inv, CooldownKept, Unmixed
<1>8. \A d \in Cameras : target'[d] \subseteq target[d]
  BY <1>0
<1>9. CASE Submit(FALSE, q, q, now)
  BY <1>0, <1>1, <1>5, <1>6, <1>7, <1>8, <1>9, EventKeeps
<1>10. CASE Quiet
  <2>1. TypeOK'
    BY <1>0, <1>5, <1>10 DEF Quiet, RestTypeOK, Vb2Inv, TypeOK
  <2>2. Untold
    BY <1>0, <1>5, <1>6, <1>7, <2>1 DEF Untold, Vb2Inv, BindingsExplained
  <2> QED BY <1>10, <2>2, QuietKeeps
<1> QED BY <1>0, <1>9, <1>10

-----------------------------------------------------------------------------
(* The theorems. *)

\* Every step keeps the invariant.
LEMMA NextKeeps == Vb2Inv /\ [Next]_vars => Vb2Inv'
<1> SUFFICES ASSUME Vb2Inv, [Next]_vars PROVE Vb2Inv'
  OBVIOUS
<1>1. CASE Tick
  BY <1>1, TickKeeps
<1>2. ASSUME NEW c \in Cameras, FrameEnd(c) PROVE Vb2Inv'
  BY <1>2, FrameEndKeeps
<1>3. ASSUME NEW c \in Cameras, SetTimeAndBus(c) PROVE Vb2Inv'
  BY <1>3, SetTimeAndBusKeeps
<1>4. ASSUME NEW c \in Cameras, SetDev(c) PROVE Vb2Inv'
  BY <1>4, SetDevKeeps
<1>5. ASSUME NEW c \in Cameras, CheckStarvation(c) PROVE Vb2Inv'
  BY <1>5, CheckStarvationKeeps
<1>6. ASSUME NEW c \in Cameras, Starve(c) PROVE Vb2Inv'
  BY <1>6, StarveKeeps
<1>7. ASSUME NEW c \in Cameras, BufDone(c) PROVE Vb2Inv'
  BY <1>7, BufDoneKeeps
<1>8. ASSUME NEW c \in Cameras, QBuf(c) \/ BufQueue(c) \/ DQBuf(c) PROVE Vb2Inv'
  BY <1>8, XactKeeps DEF QBuf, BufQueue, DQBuf
<1>9. CASE UNCHANGED vars
  BY <1>9 DEF vars, Vb2Inv, TypeOK, Finite, Programs, Seen, EntryWritten, BindingsExplained,
              CooldownKept, Unmixed, MisattributedOnlyByOverlap, StarvationBlamesItsCamera,
              StarvedOncePerCooldown
<1> QED BY <1>1, <1>2, <1>3, <1>4, <1>5, <1>6, <1>7, <1>8, <1>9 DEF Next

\* The invariant holds in every behaviour.
LEMMA Vb2Invariant == Spec => []Vb2Inv
BY InitHolds, NextKeeps, PTL DEF Spec

(* The maps of uvc.bpf.c that hold queues and device addresses stay within  *)
(* their capacity, and every program is where its state says it is.         *)
THEOREM Vb2TypeCorrect == Spec => []TypeOK
<1>1. Vb2Inv => TypeOK
  BY DEF Vb2Inv
<1> QED BY Vb2Invariant, <1>1, PTL

(* uvc_vb2_fill_device names the camera of an event or none, unless another *)
(* camera's frame is near or the camera's own address is half written.      *)
THEOREM AttributionErrsOnlyByOverlap == Spec => []MisattributedOnlyByOverlap
<1>1. Vb2Inv => MisattributedOnlyByOverlap
  BY DEF Vb2Inv
<1> QED BY Vb2Invariant, <1>1, PTL

(* uvc_check_starvation blames another camera's queue only when that queue  *)
(* once had an event near a frame of the camera.                            *)
THEOREM StarvationBlames == Spec => []StarvationBlamesItsCamera
<1>1. Vb2Inv => StarvationBlamesItsCamera
  BY DEF Vb2Inv
<1> QED BY Vb2Invariant, <1>1, PTL

(* A queue that only its own camera's frames look at is said to starve at   *)
(* most once in VB2_STARVE_COOLDOWN_NS.                                     *)
THEOREM StarvationCooledDown == Spec => []StarvedOncePerCooldown
<1>1. Vb2Inv => StarvedOncePerCooldown
  BY DEF Vb2Inv
<1> QED BY Vb2Invariant, <1>1, PTL
=============================================================================
