------------------------------- MODULE UvcVb2 -------------------------------
(***************************************************************************)
(* The videobuf2 stage of uvc.bpf.c: which device a vb2 event is said to   *)
(* be of, and which queue a wire frame finds starved.                      *)
(*                                                                         *)
(* A vb2 tracepoint names no USB device.  The program reads one global     *)
(* entry instead, "the last frame on the wire", when it is young enough,   *)
(* and remembers the queue it saw under that address.  The end of a frame  *)
(* writes the entry field by field and then asks the queue of its address  *)
(* for buffers.                                                            *)
(*                                                                         *)
(* Every camera has a host controller, so a CPU for its frame programs, of *)
(* its own; its queue has its name.  A vb2 event reads the entry in one    *)
(* step; the frame programs interleave store by store.                     *)
(***************************************************************************)
EXTENDS Integers, FiniteSets

CONSTANTS
  Cameras,       \* each is its own (bus, device) address and its vb2 queue
  MAP_ENTRIES,   \* capacity of vb2_dev_queue and of vb2_queues (64)
  WIRE_MAX,      \* WIRE_VB2_MAX_NS (100 ms)
  COOLDOWN,      \* VB2_STARVE_COOLDOWN_NS (100 ms)
  NUM_BUFFERS,   \* q->num_buffers
  MaxNow         \* bound: the clock

ASSUME Vb2Assumption ==
  /\ MAP_ENTRIES \in Nat \ {0} /\ WIRE_MAX \in Nat /\ COOLDOWN \in Nat
  /\ NUM_BUFFERS \in Nat /\ MaxNow \in Nat /\ 0 \notin Cameras

VARIABLES
  now,             \* bpf_ktime_get_ns()
  corr,            \* stream_corr[0]: the last wire frame
  pc,              \* where the frame program of a camera is
  at,              \* the time that program took when it began, 0 = idle
  mine,            \* whether its pointer still is the entry in the map
  target,          \* the queue it found starved
  vb2_dev_queue,   \* (bus, devnum) -> vb2_queue
  last_starve,     \* vb2_queues: last_starve_ns of the queues it holds
  queued,          \* q->queued_count
  running,         \* history: when a camera's frame program ran, 0 = not within WIRE_MAX
  announced,       \* history: when a queue was last said to starve, 0 = never
  mixed,           \* history: <<c, q>>: q had an event within WIRE_MAX of a frame of c
  ev               \* the vb2 event of the last step, if it sent one

vars == <<now, corr, pc, at, mine, target, vb2_dev_queue, last_starve, queued, running, announced, mixed,
          ev>>

NoDevice == [bus |-> 0, dev |-> 0]
Address(c) == [bus |-> c, dev |-> c]
ZeroEntry == [ns |-> 0, of |-> NoDevice]

\* u64 subtraction: a time before the reference is very far from it
Within(t, since, span) == t >= since /\ t - since <= span

-----------------------------------------------------------------------------
(* What every vb2 event does. *)

\* A variant: the age of the entry is not looked at.
DeviceNamedStale(t) == IF corr.ns = 0 THEN NoDevice ELSE corr.of

\* uvc_vb2_fill_device
DeviceNamed(t) ==
  IF corr.ns # 0 /\ Within(t, corr.ns, WIRE_MAX) THEN corr.of ELSE NoDevice

\* bpf_map_update_elem into a hash map of limited size
Put(map, key, value) ==
  IF key \in DOMAIN map \/ Cardinality(DOMAIN map) < MAP_ENTRIES
  THEN [k \in DOMAIN map \cup {key} |-> IF k = key THEN value ELSE map[k]]
  ELSE map

\* A variant: an element more than the map holds.
BindDevUnbounded(q, dev) ==
  IF dev = NoDevice THEN vb2_dev_queue
  ELSE [k \in DOMAIN vb2_dev_queue \cup {dev} |-> IF k = dev THEN q ELSE vb2_dev_queue[k]]

\* uvc_vb2_bind_dev
BindDev(q, dev) == IF dev = NoDevice THEN vb2_dev_queue ELSE Put(vb2_dev_queue, dev, q)

NoEvent == << >>
Quiet == ev' = NoEvent /\ UNCHANGED <<vb2_dev_queue, announced, mixed>>

\* uvc_vb2_submit; cam is the camera the event is of, early whether the
\* queue was said to starve less than a cooldown ago.
Submit(starved, cam, q, t) ==
  LET dev    == DeviceNamed(t)
      others == {c \in Cameras \ {cam} : running[c] # 0 /\ running[c] + WIRE_MAX >= t}
  IN  /\ vb2_dev_queue' = BindDev(q, dev)
      /\ announced' = IF starved THEN [announced EXCEPT ![q] = t] ELSE announced
      /\ ev' = [starved |-> starved, cam |-> cam, queue |-> q, dev |-> dev,
                early |-> starved /\ announced[q] # 0 /\ t - announced[q] < COOLDOWN,
                others |-> others # {}, half |-> pc[cam] = "bus_set"]
      /\ mixed' = mixed \cup {<<c, q>> : c \in others \ {q}}

-----------------------------------------------------------------------------
(* uvc_emit_frame, store by store.  Storing the same data under the device's *)
(* own key has no reader and is left out.                                   *)

StepTo(c, from, to) ==
  /\ pc[c] = from
  /\ pc' = [pc EXCEPT ![c] = to]
  /\ running' = [running EXCEPT ![c] = now]
  /\ UNCHANGED <<now, queued>>

\* uvc_corr_store: update_elem puts a zeroed element in the place of the old
\* one, which another CPU may still be writing to.
FrameEnd(c) ==
  /\ StepTo(c, "idle", "zeroed")
  /\ at' = [at EXCEPT ![c] = now]
  /\ corr' = ZeroEntry
  /\ mine' = [d \in Cameras |-> FALSE]
  /\ Quiet /\ UNCHANGED <<target, last_starve>>

Store(c, from, to, entry) ==
  /\ StepTo(c, from, to)
  /\ corr' = entry
  /\ Quiet /\ UNCHANGED <<at, target, last_starve>>

\* The lookup finds the element that is in the map now; a store reaches it
\* as long as it stays there.  The last store is told apart from the others:
\* before it the entry is an address no device has.
SetTimeAndBus(c) ==
  /\ Store(c, "zeroed", "bus_set", [ns |-> at[c], of |-> [corr.of EXCEPT !.bus = c]])
  /\ mine' = [mine EXCEPT ![c] = TRUE]
SetDev(c) ==
  /\ Store(c, "bus_set", "stored", IF mine[c] THEN [corr EXCEPT !.of.dev = c] ELSE corr)
  /\ mine' = [mine EXCEPT ![c] = FALSE]

\* uvc_vb2_qstate creates the state of a queue it does not know
QState(q) == Put(last_starve, q, IF q \in DOMAIN last_starve THEN last_starve[q] ELSE 0)

\* the queue bound to the camera's address, when it has no buffer
EmptyQueues(c) ==
  {q \in Cameras : /\ Address(c) \in DOMAIN vb2_dev_queue
                   /\ q = vb2_dev_queue[Address(c)] /\ queued[q] = 0}

\* ... once the state of the empty one is created
KnownQueues(c) == DOMAIN last_starve \cup UNION {DOMAIN QState(q) : q \in EmptyQueues(c)}

\* no starvation event of the queue within the cooldown
CooledDown(q, t) ==
  LET st == QState(q)
  IN  q \in DOMAIN st /\ (st[q] = 0 \/ t < st[q] \/ t - st[q] >= COOLDOWN)

\* uvc_check_starvation, up to the decision
CheckStarvation(c) ==
  LET starved == {q \in EmptyQueues(c) : CooledDown(q, at[c])}
  IN  /\ StepTo(c, "stored", IF starved = {} THEN "idle" ELSE "starving")
      /\ target' = [target EXCEPT ![c] = starved]
      /\ at' = [at EXCEPT ![c] = IF starved = {} THEN 0 ELSE @]
      /\ last_starve' = [q \in KnownQueues(c) |->
                            IF q \in DOMAIN last_starve THEN last_starve[q] ELSE 0]
      /\ Quiet /\ UNCHANGED <<corr, mine>>

\* A variant: the time of the event is not kept.
StarvedAtForgotten(q, t) == last_starve
StarvedAt(q, t) == [last_starve EXCEPT ![q] = t]

\* ... and the event
Starve(c) ==
  \E q \in target[c] :
    /\ StepTo(c, "starving", "idle")
    /\ target' = [target EXCEPT ![c] = {}] /\ at' = [at EXCEPT ![c] = 0]
    /\ last_starve' = StarvedAt(q, at[c])
    /\ Submit(TRUE, c, q, at[c])
    /\ UNCHANGED <<corr, mine>>

-----------------------------------------------------------------------------
(* The vb2 tracepoints. *)

\* uvc_emit_vb2_done: no event when vb2_queues has no room for the queue
BufDone(q) ==
  /\ queued[q] > 0
  /\ last_starve' = QState(q)
  /\ IF q \in DOMAIN QState(q) THEN Submit(FALSE, q, q, now) ELSE Quiet
  /\ UNCHANGED <<now, corr, pc, at, mine, target, queued, running>>

\* uvc_emit_vb2_xact on vb2_qbuf, vb2_buf_queue and vb2_dqbuf
Xact(q, count) ==
  /\ count \in 0 .. NUM_BUFFERS
  /\ queued' = [queued EXCEPT ![q] = count]
  /\ Submit(FALSE, q, q, now)
  /\ UNCHANGED <<now, corr, pc, at, mine, target, last_starve, running>>

QBuf(q)     == Xact(q, queued[q] + 1)
BufQueue(q) == queued[q] > 0 /\ Xact(q, queued[q])
DQBuf(q)    == Xact(q, queued[q] - 1)

\* A frame program does not run for longer than one unit of time.
Tick ==
  /\ now < MaxNow
  /\ \A c \in Cameras : pc[c] = "idle" \/ at[c] = now
  /\ now' = now + 1
  /\ running' = [c \in Cameras |->
       IF pc[c] # "idle" THEN now + 1 ELSE IF running[c] + WIRE_MAX < now THEN 0 ELSE running[c]]
  /\ Quiet /\ UNCHANGED <<corr, pc, at, mine, target, last_starve, queued>>

Init ==
  /\ now = 1
  /\ corr = ZeroEntry
  /\ pc = [c \in Cameras |-> "idle"]
  /\ at = [c \in Cameras |-> 0]
  /\ mine = [c \in Cameras |-> FALSE]
  /\ target = [c \in Cameras |-> {}]
  /\ vb2_dev_queue = << >> /\ last_starve = << >>
  /\ queued = [c \in Cameras |-> 0]
  /\ running = [c \in Cameras |-> 0]
  /\ announced = [c \in Cameras |-> 0]
  /\ mixed = {}
  /\ ev = NoEvent

\* Bound: a camera ends at most one frame in a unit of time.
Next ==
  \/ Tick
  \/ \E c \in Cameras :
       \/ running[c] # now /\ FrameEnd(c)
       \/ SetTimeAndBus(c) \/ SetDev(c)
       \/ CheckStarvation(c) \/ Starve(c)
       \/ BufDone(c) \/ QBuf(c) \/ BufQueue(c) \/ DQBuf(c)

Spec == Init /\ [][Next]_vars

-----------------------------------------------------------------------------
(* Properties. *)

Device == [bus: Cameras \cup {0}, dev: Cameras \cup {0}]
Event ==
  [starved: BOOLEAN, cam: Cameras, queue: Cameras,
   dev: Device, early: BOOLEAN, others: BOOLEAN, half: BOOLEAN]

(* The maps of uvc.bpf.c stay within their capacity, and the time of a      *)
(* starvation is kept before it is announced.                               *)
TypeOK ==
  /\ now \in Nat /\ corr \in [ns: Nat, of: Device]
  /\ pc \in [Cameras -> {"idle", "zeroed", "bus_set", "stored", "starving"}]
  /\ at \in [Cameras -> 0 .. now] /\ mine \in [Cameras -> BOOLEAN]
  /\ DOMAIN vb2_dev_queue \subseteq Device \ {NoDevice}
  /\ Cardinality(DOMAIN vb2_dev_queue) <= MAP_ENTRIES
  /\ \A k \in DOMAIN vb2_dev_queue : vb2_dev_queue[k] \in Cameras
  /\ DOMAIN last_starve \subseteq Cameras /\ Cardinality(DOMAIN last_starve) <= MAP_ENTRIES
  /\ target \in [Cameras -> SUBSET DOMAIN last_starve]
  /\ \A c \in Cameras : Cardinality(target[c]) <= 1 /\ (pc[c] = "starving" <=> target[c] # {})
  /\ queued \in [Cameras -> 0 .. NUM_BUFFERS] /\ running \in [Cameras -> 0 .. now]
  /\ announced \in [Cameras -> 0 .. now]
  /\ mixed \subseteq Cameras \X Cameras /\ (ev = NoEvent \/ ev \in Event)

(* A vb2 event names the camera it is of or none, unless another camera had *)
(* a frame on the wire within WIRE_MAX of it, or the camera's own address   *)
(* is just being written.                                                   *)
MisattributedOnlyByOverlap ==
  ev # NoEvent => ev.dev \in {NoDevice, Address(ev.cam)} \/ ev.others \/ ev.half

(* Starvation is announced of the queue of the camera whose frame found no  *)
(* buffer, unless that queue once had an event within WIRE_MAX of a frame   *)
(* of the camera: the wrong binding outlives the overlap that made it.      *)
StarvationBlamesItsCamera ==
  ev # NoEvent /\ ev.starved => ev.queue = ev.cam \/ <<ev.cam, ev.queue>> \in mixed

(* A queue starves at most once per cooldown, as long as only one camera's  *)
(* frames look at it.                                                       *)
StarvedOncePerCooldown ==
  ev # NoEvent /\ ev.early => \E c \in Cameras : <<c, ev.queue>> \in mixed
=============================================================================
