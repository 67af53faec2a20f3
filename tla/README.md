# usbtrace: TLA+ verification project

usbtrace attaches eBPF programs to the USB core and to class drivers, carries
their records to user space, and prints them or, in `usbtrace diag`, correlates
them into findings. This directory models the parts of it that keep state
between events and the sessions it runs them in, checks them with TLC and proves
every safety property of the passing runs with TLAPS, for all values of the
constants that section 4 names; the two liveness properties are model-checked only.

## 1. The system

| Component | State | Operations | Interacts through |
|---|---|---|---|
| hooks of urb, enum, lifecycle, power, hub, uvc, uac, hid, storage (`*.bpf.c`) | BPF hash maps: `start_ts`, the pending maps, the uvc maps | one kprobe, kretprobe or tracepoint each, on any CPU, in the middle of the kernel's own concurrency | a record in the module's events map |
| events maps (`events.bpf.h`) and `evmux.c` | ring or per-CPU buffers, one map per module | emit (dropped silently when full), poll, drain | callback per record |
| uvc's videobuf2 stage (`uvc.bpf.c`, `vb2.bpf.h`) | the last wire frame `stream_corr[0]`, `vb2_dev_queue`, `vb2_queues`, `drv_drop_cause` | vb2 tracepoints, hooks of uvcvideo's queue | tallies of `uvc.c`, events of diag |
| diag session (`diag.c`) | `running`, `last_tick` | bring-up, poll loop, tick every 500 ms, report | calls the engine |
| diag engine (`engine.c`) | 128 device windows: lookback ring, states seen, cooldowns, latches | `diag_engine_ingest`, `diag_engine_tick`, report | findings on stdout |
| rule loader (`rules.c`, `rules.yaml`) | the rule array and its strings, until the engine owns them | parse, free | the engine's rule table |
| run harness (`run.c`), feature probe (`probe.c`), command line (`main.c`) | `g_running` | one module's loop; choice of hooks | as above |
| user-space side of the modules (`urb.c`, `uvc.c`, `hid.c`, ...) | tallies, hid's rate slots | print one record, summary | stdout |

What makes it hard: records of one device come from several CPUs and several
maps and so arrive out of time order; maps fill up; hooks miss; the engine's
bounded tables recycle under load; three time-outs (retention, cooldown,
deadline) interact; and everything in the kernel happens between any two steps.

What makes each part correct:

* *ring*: a reader sees the last N events pushed for this device, newest first;
* *rule evaluation*: a truncated lookback loses evidence but never invents any;
  a burst counts once;
* *engine*: one window per device, no repetition within the cooldown, one report
  per stall, no stall forgotten;
* *session*: no stall is reported against evidence that was queued in time and in
  order, a stall is reported, Ctrl-C ends the session;
* *frame reconstruction*: a clean frame is one camera frame, an error is charged to
  the record of the frame it hit, but for the one case of `uvc_frames_contributing_error`;
* *vb2 stage*: an event names its own camera unless frames of two overlap; a dropped
  frame is put down to lost packets or to another fault as its own URBs tell, where a
  URB that spans two frames counts for the first; a lost frame shows as a gap;
* *report rate*: every report is in one rate line, and no rate is computed over a
  span that is too short;
* *rule loader*: only rules the engine can evaluate, no string freed twice;
* *session life*: whatever fails and whenever the signal comes, everything is released
  once and the exit status tells the truth;
* *pairing maps*: a latency or a return status belongs to the transfer or call it
  is printed for, and the map does not leak.

`PROJECT.json` lists every component with what is left out, and under `hazards`
each place in the code where one of these can go wrong.

## 2. Modules

| Module | Models | Built on |
|---|---|---|
| `DiagRules` | field matching, `eval_when`, the firing condition, as operators on a newest-first log | |
| `BoundedLog` | abstract: what a device window promises its readers | `DiagRules` |
| `LookbackRing` | `struct devwin`'s ring: `win_push`, `win_at`, the reset of `win_get`; implements `BoundedLog` | `DiagRules` |
| `RuleEval` | the ring beside the complete history, every condition evaluated after every push | `LookbackRing` |
| `DiagEngine` | `diag_engine_ingest` and `diag_engine_tick` over a table of windows | `DiagRules` |
| `DiagPipeline` | probes, events maps with their buffers, poll, drain, tick, signal, around the engine | `DiagEngine` |
| `UvcFrames` | `uvc_parse_frames` and `uvc_emit_frame` for one stream, beside the camera | |
| `UvcVb2` | the vb2 tracepoints, the binding of queues through the last wire frame, the starvation check, for several cameras | |
| `UvcDriver` | `on_decode_isoc`, `on_queue_next`, `on_queue_complete`, `vb2_seq_gap` and the tallies of `uvc.c`, around a model of uvcvideo's queue | |
| `HidRate` | the rate meter of `hid.c` and the tally of `class_stream.c` | |
| `RuleLoader` | `rules.c`: what is accepted, refused and freed | |
| `Session` | `main.c`, `usbtrace_run`, the bring-up and cleanup of `diag_run`, `probe.c` | `RuleLoader`, `HidRate`, `UvcDriver` |
| `EventFields` | which fields `normalize` fills for each kind of record, against the fields the rules may name and the built-in ones do (as assumptions TLC evaluates) | |
| `UrbPairing` | `on_submit`, `on_giveback`, `start_ts` | |
| `CallStash` | `stash`/`pop_emit` of enum and `on_new_device`/`_exit` of lifecycle | |
| `*_proofs` | the theorems: `RuleEval_proofs` about the ring and the rule evaluation, `DiagEngine_proofs` about `DiagEngine` and `DiagPipeline`, `SessionParts_proofs` about `HidRate` and `UvcDriver`, the others about the module they are named for | |
| `MC*` | the values of the constants for TLC | |

Names follow the source where TLA+ allows it. A definition introduced by
"A variant:" (or standing before the operator it resembles, with a suffix) is a
plausible mistake in that operator; nothing uses it but the mutant tests, which
put it in the operator's place and expect the named property to fail.

### How state and actions correspond to the code

**LookbackRing.** `ev`, `head`, `count` are the fields of `struct devwin`. In the
other modules the ring is the sequence `log`, which `ImplementsBoundedLog` and
`RingRefines` justify.

**DiagEngine.** `devs` is the window table; a window keeps the fields of
`struct devwin` the rules depend on (vid and pid are display only; the two
bit/latch arrays are sets). `Ingest` is one call of `diag_engine_ingest`: find or
recycle the window, record, follow the enumeration, evaluate each event rule with
its cooldown, emit. `Tick` is one call of `diag_engine_tick`: the deadline rules
and then the eviction, for every window; an evicted window keeps its fields until
`win_get` zeroes them, as in the code. `Advance` is the clock. An event carries the
time its hook read, up to `MaxSkew` before it is ingested. `printed`, `reported`
and `lost` are histories the properties compare against; no action reads them.

**DiagPipeline.** `pc` walks the loop of `diag_run`. `PollReturns`, `PollInterrupted`
and `PollFails` are the outcomes of `usbtrace_evmux_poll`. The records wait in buffers,
one per source and CPU (`Buffer`): a ring buffer is the case of one CPU. `PERF` is the
build with `USBTRACE_USE_PERF`. `NextBuffer` picks the buffer a poll visits next: the
perf build walks all of them, source by source in the order they were joined and CPU by
CPU, and takes from each what it held when the visit began (`mark`); of the ring buffers
only those that had records are visited, in any order, as epoll's ready list keeps one
from an earlier poll in front, and each until it is empty. `Drain` hands one record to
the engine. `TickOrNot` reads the clock after the poll. An interrupted poll goes round
without a tick, as the `continue` does. `configured`, `scattered` and `atWake` are
histories: which devices the records that reached a buffer show configured, which had
state records in two buffers at once, and which of the first were configured when the
poll woke. A record that begins a bring-up again takes its device out of `configured`
and `atWake` (`Restarts`), be it only one that arms a deadline rule.

**UvcFrames.** `VideoComplete` is one completed URB; `ParsePacket` is one pass of
the loop in `uvc_parse_frames`, in its order: descriptor, empty packet, FID,
payload, EOF. The camera is an environment: packet *n* belongs to frame *n* div
`FRAME_PKTS` and meets one of five fates on the bus. `damaged` and `prior` are histories:
the camera frames a packet of which arrived damaged, and the last record of the URBs
before. The session has no vb2 hooks
(`--no-vb2`), so `uvc_check_starvation` returns at once; malformed payload headers
behave like empty packets and are not a fate of their own.

**UvcVb2.** `FrameEnd` to `Starve` are one run of `uvc_emit_frame` and
`uvc_check_starvation`, store by store, on the camera's own CPU: the map update that
zeroes the shared entry, the stores of time and bus, the store of the device, the
look at the queue bound to the address, the event. Runs of two cameras interleave at
every store, and a store through a pointer another CPU has replaced reaches nobody
(`mine`). A vb2 event reads the entry in one step. `running`, `announced` and `mixed`
are histories: when a camera's frame program ran, when a queue was said to starve,
and which queues had an event while a frame of another camera was near.

**UvcDriver.** `DecodePart`, `DecodeEnd` and `FrameWithoutBuffer` are what uvcvideo
does with a URB, with `on_decode_isoc` and `on_queue_next` inside; `Drop` and
`Deliver` are the two outcomes of `on_queue_complete` (the data is copied by a work
queue, so buffers complete in any order); `Cancel` is a buffer of a stopped stream,
which comes back through the vb2 tracepoints only. The driver itself is modelled as far
as its hooks see it. What its decoding runs into is an input, out of `Faults`: a lost
packet, which `on_decode_isoc` sees, or another one (header error bit, overflow, lost
EOF), which it does not. A URB that ends a frame has a head and a tail: a fault in the
tail sets the error of the next buffer, while the hook tags the one the URB began in.
`blame` is a history that keeps, per buffer, what really happened to it: a loss of its
own, one inherited from the tail of the URB before, one spilled into the next buffer,
another fault, a tag the map had no room for, a stale tag. `seen` is a history too.

**HidRate.** `HidOnEvent` is `on_event` for one record: `rate_on_in` if it is an IN
completion of an endpoint that has or gets a slot, then `class_stream_on_event`;
`HidOnStop` is the flush of `hid_on_stop`. Records come up to `RATE_SKEW` late. The
window test is the unsigned one of the code. `heard` is a history of its own, the times
of the successful reports of each endpoint; it reads nothing the meter keeps.

**RuleLoader.** A rule of a document is abstracted to what the parser can tell about
it; `ParseRule` is one item of the loop of `diag_rules_parse`. `heap` holds the
strings `strdup` made, by rule and field.

**Session.** `phase` is where `main` is. `hid` stands for every module that only runs
the harness. `BringUp` takes any kernel (`Kernels`): any set of hooks that are there,
any of the files and directories `probe.c` reads unreadable, each on its own, and any of the
lists of symbols silent about the functions; it lets loading or attaching fail. A signal may
come at any point after the handlers are installed. The polls that end no loop change
nothing here; `DiagPipeline` has them. `failed` and `misreleased` are histories.

**UrbPairing.** `Submit` runs `on_submit` at the entry of `usb_submit_urb` and lets
the kernel refuse the transfer afterwards. An address stands for a new transfer,
device and pipe at each submission. `Attach` attaches `on_submit` before
`on_giveback`, as the skeleton does. The submit record itself (`emit_submit`) keeps
no state and is left out.

**CallStash.** A thread has a stack of hooked calls; none of the hooked functions
calls itself in one thread (`MayEnter`, a fact of the USB core). `exit = FALSE` is a
call whose kretprobe does not run; `missed` is a history of the threads that returned
from a function in that way and have not returned from it otherwise since.

## 3. Runs

| Run | States | Shows |
|---|---|---|
| `rule_eval` | 40,193 | with arrival in time order, `eval_when` over the ring equals `eval_when` over the full history whenever the ring covers the lookback; a truncated ring never yields more; a cluster count is the number of bursts; the ring implements the log |
| `diag_engine` | 320,034 (with symmetry) | three devices, two windows, late events, ticks, recycling, eviction: one window per device, cooldown, one report per episode, no stall lost |
| `diag_pipeline` | 431,753 | a bring-up whose records come from two CPUs, with buffers of one record and a window that is evicted between two bring-ups: no stall is reported against a CONFIGURED that was queued when the poll woke, unless the device's records waited in two buffers; a stall is reported; a signal ends the session |
| `uvc_frames` | 5,394 | five fates per packet, URBs of up to three packets, frames of two: clean frames hold one camera frame, no frame is split, errors are charged to the frames they hit, intact frames end with EOF |
| `urb_pairing` | 483,310 | two addresses, one map entry: no stale latency, latency missing only for a full map, no leak beyond unseen givebacks |
| `call_stash` | 1,965,105 | two threads, nested calls, one entry per map: no misattribution, loss only to a full map, and a map fills only with calls under way or missed |
| `uvc_vb2` | 1,841,732 (with symmetry) | two cameras whose frame programs interleave: an event names the wrong camera, a starvation the wrong queue, only after frames of the two overlapped or the entry was half written; one starvation per cooldown |
| `session` | 2,150,776 (with symmetry) | every session of a single module or of diag with two probes, any failure, any signal: released once, true exit status, rules and strings; with it all reports of three endpoints over two slots, and two streams of a camera with two buffers |

Bounds and why they are enough. Rings of three (one in the engine run, whose rules
do not look back) wrap within the six pushes. Two windows for three devices reach
recycling; a retention of two ticks and a clock of four reach eviction and a second
window for the same device; four events are the fewest that print, recycle the
window and print again. Maps of one entry or record make "full" a common state.
In `diag_pipeline` two CPUs with buffers of one record are the fewest that scatter a
bring-up, and a retention of one unit under a clock of four evicts a device that
was configured and lets it begin again; with a retention the clock does not reach, the
run would miss that a new bring-up after an eviction is a stall of its own.
Eight camera packets are the fewest that lose a whole frame between two frames of
equal FID. `MaxEmit`, `MaxIntr`, `MaxIngest`, `MaxPush`, `MaxTime`, `MaxSent` and
`MaxDepth`, `MaxNow`, `MaxUrbs`, `MaxTs`, `MaxFrames`, `MaxFaults` and `MaxStreams` bound otherwise endless behaviours, each in the guard of one action.
In `uvc_vb2` three units of time hold two frames within reach of an event, one that is
too late, and a cooldown of two; a camera ends at most one frame in a unit (a bound in
`Next`). In `session` a gap limit of two tells short intervals from
long ones, and a rate window of five makes a span of one, a fifth of it, too short for the last line and a span of two long enough; three endpoints over two slots leave one without
a rate; one entry of `drv_drop_cause` for two buffers is often full, and two faults make a URB lose packets of both its frames; the rule nodes
cover each way in which a rule is refused, and a third rule is beyond the array of two.
Variants of `diag_pipeline` checked apart: a NOTATTACHED record among the events and buffers
of two records (1.8 million states), where the property holds and fails without its
exception for scattered devices; and the ring buffer (`PERF = FALSE`, one CPU, buffers of two
records; 233,099 states), where it holds without the exception.
Deadlock is not checked where a bound or the end of the session stops the system.

Four runs are expected to end in a counterexample; each is a disagreement between
the code and its documentation, described in `PROJECT.json` under `findings`:

* `rule_eval_skewed`: an event older than the one before it starts a burst of its
  own (unsigned difference in `eval_when`), so one cascade can look like a storm;
* `diag_engine_long_deadline`: a deadline above the 10 s retention is never reported
  for a silent device;
* `diag_pipeline_order`: a disconnect is evaluated while the transfer errors it came
  after wait in another map, and the finding of `disconnect-after-errors` is lost;
* `uvc_frames_contributing_error`: the error of a packet that opens a frame whose
  predecessor lost its EOF is charged to the predecessor.

**Fairness.** Only `diag_pipeline` has liveness properties. `FairPipeSpec` assumes weak fairness of the loop's own steps (a
running thread) and of the clock. Nothing is assumed of signals, probes or of
interrupted and failing polls. Because the number of records is bounded, the run
says nothing of a flood that never lets `ring_buffer__poll` return; that hazard is
recorded and open.

## 4. Proofs

The proofs are about any number of devices, rules, windows, cameras, buffers, packets
and threads, any size of a map or ring and behaviours of any length: the bounds of the
runs (`MaxTime`, `MaxEmit`, ...) are arbitrary numbers in them.

`RuleEval_proofs`: for every ring size, `RingCorrect` (no reader sees a slot that was
not written; `count < N` implies `head = count`) and `RingRefines` (the slot array
implements `BoundedLog`). The argument is about positions: `WinPosIs` turns the
modular expression of `win_at` into two cases, `PushContents` shows that a push shifts
every reader's index by one. From it `EvalInv` concludes that the ring holds the newest
part of the complete history (`HoldsNewest`) and, when events arrive in time order,
that the history is ordered (`InOrder`). The other theorems compare what a condition
counts in a log and in one that keeps only its newest entries (`Keeps`):
`RingNeverInvents` (`CountKept`: forgetting never raises a count, with any delay of
events), `RingIsEnough` (if the oldest kept entry is out of the condition's reach, so
is everything older, and both count the same indices) and `BurstsCountOnce` (the
indices that `eval_when` counts for a cluster correspond one to one to the first
events of the bursts). The last two assume `MaxSkew = 0`: with late events the code does
not have them, which `rule_eval_skewed` shows for the bursts.

`DiagEngine_proofs`: for every table size, rule set and event set, `TypeCorrect`,
`OneWindow` and `OneReport`; and under `RetentionSuffices` (the retention covers the
cooldown and every deadline, each plus the largest delay of an event) `Cooldown` and
`NoStallLost`. All follow from the inductive invariant `EngineInv`:

* `OneWindowPerDevice` needs nothing else: `win_get` scans for the key first;
* `WindowTimes`, that no time in a window is in the future and no state time is
  newer than `last_seen` by more than the skew, is what lets an eviction conclude
  that a deadline has passed;
* `LatchIsReported` ties `dl_fired` to the history of reports;
* `CooldownKept` says that while a finding is in its cooldown the device's window
  still knows of it, unless it was recycled: an eviction during a cooldown would
  need `last_seen` to be older than the finding by more than the skew.

`RetentionSuffices` holds for the constants of the code (10 s, 2 s) and the built-in
rules (3 s) with any delay up to 7 s; nothing enforces it for a user's rule file,
which is the finding of `diag_engine_long_deadline`.

The same module proves the session of `diag_run`, where a record may wait in its map
for any time, so that `WindowTimes` is lost and only the parts of `EngineInv` that need
no bound on the delay are reused (`IngestSafe`, `TickSafe`): `LoopType`,
`PipeOneWindow`, `PipeOneReport` and `NoFalseStall`, for any sources, CPUs, sizes of
buffers and tables and rules, whatever is dropped, evicted or recycled, and for both
transports. `NoFalseStall` needs no retention either. Its invariant is `KnownInv`: of
every configured device that was never scattered (`Known`), some buffer has among its
first *n* records one that tells so with nothing after it that unsettles it (`Queued`), or
the device's window shows no stall (`Clear`) and nothing queued unsettles it (`Settled`).
For `configured` *n* is the whole buffer, for `atWake` what the current poll is sure to
take still (`Left`, which with perf is the mark in the buffer being visited).
`AppendQueued`, `AppendTells` and `TailQueued` follow a record through its buffer; that
the state records of the device are in one buffer at a time (`GatheredInv`) is what makes
the order within a buffer sufficient. A disconnect comes through the map of another source
and so out of order, but it only clears the window. When the tick comes nothing is
left, so the window itself is `Clear`. `NoFalseStallOfTheRing` draws the conclusion for
the ring buffer: all state records have one kind, hence one source and one buffer
(`RingGathers`), no device is ever scattered, and the property holds without exception.
Built with perf the exception is needed: CONFIGURED is taken from one CPU before
the NOTATTACHED and ADDRESS that came before it are taken from another.

`UvcFrames_proofs`: for URBs and frames of any number of packets and every fate of every
packet, `FramesTypeCorrect`, `CleanFramesAreWhole`, `FramesNotSplit`,
`ErrorsChargedToOneFrame` and `IntactFramesReported`. `Walked` says what holds between
two packets: a frame being assembled shares the FID of its packets and, while it has no
error, holds packets of the camera's current frame alone; records are in order. `FrameInv`
is `Walked` between two URBs. One lemma per event of the loop (`DescriptorWalked`,
`EmitWalked`, ...) leads to `UrbWalked`. `Charges` is what a walk keeps of the damaged
frames: `saw_err` is set only if one of them comes after the newest record, and if one does
and that record ended with EOF it is set; every record so far is charged in the same way
(`ChargesMore` for an error, `ChargesAppend` for a record). The loop is a recursive function and the walk
over it needs an induction over the packets; the library's induction theorem
cannot be used here, so `EveryNumber` proves the one instance that is needed, for a set of
numbers, from the well-foundedness of the order.

`UrbPairing_proofs`: for every set of addresses and every size of `start_ts`,
`NoStaleLatency`, `Starvation` and `NoLeak`. The properties speak of completions,
so they are not inductive; `PairingInv` adds what holds while a transfer is in
flight: the entry of a traced transfer is its own and is missing only if the map was
full (`EntryIsOwn`), and a transfer submitted before the hook was attached has no
entry (`UnseenHasNoEntry`), since `on_submit` is attached to an empty map.

`CallStash_proofs`: for every set of threads, devices and functions, every nesting
depth and map size, `NoMisattribution`, `NoOtherLoss` and `MapsFillWithCalls`. The invariant `StashInv` says of every call on every stack that the
map entry of its function and thread is its own; it rests on the assumption that a
thread is in a function at most once (`MayEnter`), without which the key of the
maps would not do.

`SessionParts_proofs`, about `HidRate`: for every number of endpoints and slots, every
window, gap limit and lateness of records, `ReportsInOneWindow`, `RatesOverLongSpans` and
`IntervalsAccounted`. `HidInv` adds to the
two properties that an endpoint has one slot and that nothing was printed for an
endpoint without one (`NoSlotNoLine`): without it a slot taken late could start with
reports already printed. `FlushWindowFacts` is where a late record is seen to print
nothing although it passes the unsigned window test. The tally has an invariant of its own, `IntervalsInv`:
the counts of a slot are those of the reports its endpoint was heard with (`Counts`), its
time stamp is that of the last of them, and the sum of the intervals lies between their
number times the extremes (`Between`), so that the printed average does. `OneMoreReport`
is the arithmetic of one more report.

`UvcVb2_proofs`: for every number of cameras, every size of `vb2_dev_queue` and
`vb2_queues`, and every clock, `TypeOK`, `MisattributedOnlyByOverlap`,
`StarvationBlamesItsCamera` and `StarvedOncePerCooldown`. `Vb2Inv` explains the shared
entry half by half (`EntryWritten`): whoever wrote the bus number or the device number
ran no earlier than the entry's time stamp, and an entry with a bus and no device is
being written at this moment, by a program whose pointer still is in the map. From that
`NamedFacts` shows that a foreign address was near the event. `BindingsExplained` says
the same of every binding in `vb2_dev_queue`, not only of the one the event makes, and
`CooldownKept` that for a queue no foreign frame looks at the map remembers what was
announced last. The assumption on the environment is in `Tick`: a frame program does
not run for longer than one unit of time.

`SessionParts_proofs`, about `UvcDriver`: for every number of buffers, every size of `drv_drop_cause` and
sessions of any length, `DriverTypes`, `DropsAreExplained` and `GaplessIsComplete`.
`DriverInv` says of every buffer, not only of the one that completes, that its tag comes
from a loss in a URB begun in it or is stale and that a loss of its own left a tag or found
the map full (`TagsExplained`); that its error has a fault, an inherited loss or a short
frame behind it (`ErrorsExplained`); that what is copied is still to be dropped (`DroppedWasReceived`);
and that a stream whose first number was noted has a last one (`SeenIsNoted`).

`Session_proofs`: for every list of sources and every set of rule nodes,
`SessionTypeCorrect`, `EverythingReleased`, `StatusIsTrue` and `RulesOwned`, from `SessionInv`, which says
phase by phase what a session holds (`PhaseOwns`; in diag the pointers are exactly the
open skeletons) and that the status follows the first failure. `RefusedWithoutHooks` is
about `probe.c` alone. `SessionIsHid` and `SessionIsDriver` show that a session adds no
step to the meter and to the driver; `SessionReports`, `SessionRates`, `SessionIntervals`,
`SessionDrops` and `SessionGapless` carry their theorems over to the whole session.

Only model-checked: `StallIsReported` and `SignalEndsSession`, since TLAPS does neither
fairness nor ENABLED; and the disagreements of the four runs that end in a
counterexample, which are facts about one behaviour. The assumptions on the constants
(`EngineAssumption`, `PipeAssumption`, ...) are evaluated by the runs. `EventFields` is a
table compared with a table, and its statement an assumption TLC evaluates.

## 5. What the models show of the code

Observations that no run of their own ends in; the properties state them as exceptions:

* A restart of a stream counts its frames from zero again while `last_sequence` stays:
  the first frame of the new stream may count as a gap. `NoGapMeansNoLoss` is the
  direction that holds.
* Buffers that a stopped stream gives back pass the vb2 hooks as if they were done;
  their numbers are among what `accounted` allows.
* `on_decode_isoc` tags the buffer a URB begins in and stops at the first lost packet. If
  the URB ends that buffer's frame and the loss is in its tail, the frame before is
  counted as lost to ISO if it is dropped at all, and the one that lost the packet is
  dropped as OTHER (`spilled` and `inherited` in `DropBlamesTheLoss`), although
  `uvc.h:114-117` keeps OTHER for header errors, overflow and a lost EOF and the
  summary of `uvc.c` prints the two apart.
* Built with `USBTRACE_USE_PERF`, a configured device whose bring-up ran on several CPUs can
  be reported as stalled (`scattered` in `NoStallReportedAgainstTheQueue`).
* A buffer given back while tagged hands its tag to its next frame (`stale` in
  `DropBlamesTheLoss`).
* With two cameras, a binding made while their frames overlap outlives the overlap
  (`mixed` in `StarvationBlamesItsCamera`). Events without a device share one window
  of the diag engine, that of bus 0 and device 0.
* `diag_rules_parse` frees the rules before the one that fails; the strings
  `parse_rule` had already duplicated for that one stay behind.
* A device that fell silent and was evicted, and then comes to a state of a deadline
  rule without a new CONFIGURED (a reset of a configured device), is reported as stalled:
  what `seen_states` knew is gone with its window. While the window lives the old
  CONFIGURED would hide a true stall of that kind.
* A `without_state` that does not resolve is taken as "any state".

## 6. Not modelled

Formatting, JSON, the summaries and the evidence lists; the options of the modules; the
YAML parser and libbpf (libraries); the stateless hooks (power, hub, storage, uac, hid),
whose records are inputs; the values `normalize` copies and their widths, and with them
intervals that do not fit 32 bits; roles, sizes, `wire_to_vb2` and frame times of uvc;
the stop of a stream in the middle of a frame in `UvcFrames`; uvc's maps once more
cameras than entries were seen; a flood that never lets a poll return; the core's
re-enumeration after a reset, which a property about `seen_states` would need as its
environment. Each is a hazard with a note, or a component's note, in `PROJECT.json`.

## 7. Plan

Done, in this order: `DiagRules`, `LookbackRing`, `RuleEval`, `DiagEngine` with its
proofs, `DiagPipeline`, `UvcFrames`, `UrbPairing`, `CallStash` and `UvcVb2` with theirs,
`RuleLoader`, `HidRate` and `UvcDriver` with theirs, `Session`, which composes the last three,
with its own; then the proofs about `RuleEval`, `UvcFrames`, `DiagPipeline` and the intervals
of `HidRate`.

Left, most important first:

1. Proofs: how the delays of a session meet the skew of the engine, that is, under which
   bound on a poll `Cooldown` and `NoStallLost` hold of `DiagPipeline`; `RuleEval` under skew,
   for conditions without clusters.
2. The core's bring-up as an environment of `DiagEngine`: a reset without NOTATTACHED.
3. A stop of the stream in `UvcFrames`, with the state that outlives it.
