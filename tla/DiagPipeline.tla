----------------------------- MODULE DiagPipeline -----------------------------
(***************************************************************************)
(* `usbtrace diag' around its engine: the probes append records to the     *)
(* events map of their source, and the loop of diag_run polls the maps     *)
(* (evmux.c), feeds every record to diag_engine_ingest, and ticks the      *)
(* engine.                                                                 *)
(*                                                                         *)
(* A source is named by the kind of its events.  With the ring buffer its  *)
(* map is one queue; built with USBTRACE_USE_PERF it is a queue per CPU,   *)
(* filled by the CPU the probe runs on.  A poll visits one queue after the *)
(* other: a ring buffer until it is empty, a perf buffer for the records   *)
(* it held when the visit began.                                           *)
(***************************************************************************)
EXTENDS DiagEngine

CONSTANTS
  None,             \* no buffer is being drained
  PERF,             \* built with USBTRACE_USE_PERF
  Cpu,              \* the CPUs with a buffer of their own: one for the ring buffer
  RING_MAX,         \* records a buffer holds (256 KiB in the code)
  TICK_INTERVAL_NS, \* least time between two ticks
  PROMPT,           \* the loop's body takes no time: the clock moves in poll
  MaxEmit,          \* bound: records the probes emit
  MaxIntr           \* bound: polls interrupted

VARIABLES
  queue,            \* the records in each buffer of each source
  running,          \* cleared by the signal handler
  pc,               \* where the loop of diag_run is
  cur,              \* the buffer the poll is draining
  todo,             \* the buffers this poll has still to drain
  mark,             \* perf: how many records this visit has still to take
  last_tick,        \* when the engine was ticked last
  emitted, intr,    \* numbers of records emitted and of polls interrupted
  configured,       \* history: devices that are configured, as far as the
                    \* records that reached a map tell
  scattered,        \* history: devices with state records in two buffers at once
  atWake            \* history: those that were when the poll woke, and still are

loopVars  == <<pc, cur, todo, mark, last_tick>>
probeVars == <<queue, emitted, configured, scattered>>
pipeVars  == <<vars, queue, running, loopVars, emitted, intr, configured, scattered,
               atWake>>

Source == {e.kind : e \in Event}
Buffer == Source \X Cpu

ASSUME PipeAssumption ==
  /\ None \notin Buffer
  /\ PERF \in BOOLEAN /\ Cpu \subseteq Nat
  /\ ~PERF => \A a, b \in Cpu : a = b
  /\ RING_MAX \in Nat /\ TICK_INTERVAL_NS \in Nat /\ PROMPT \in BOOLEAN
  /\ MaxEmit \in Nat /\ MaxIntr \in Nat

CONFIGURED == 7

\* A step that does not enter the engine.
EngineIdle ==
  /\ out' = {}
  /\ UNCHANGED <<devs, fire_count, total_fired, now, ingested, printed, reported, lost>>

-----------------------------------------------------------------------------
(* The kernel side. *)

\* What a record tells of its device: that it is configured, or that its
\* bring-up begins again, be it for a deadline rule only (a configured device
\* that is reset).
Configures(e) == IsState(e) /\ e.new_state = CONFIGURED
Reaches(e)    == IsState(e) /\ \E r \in DeadlineRule : e.new_state = Rules[r].reached
Restarts(e)   == ~Configures(e) /\ (EndsEpisode(e) \/ Reaches(e))

\* State records of the device wait in another buffer than b.
WaitsElsewhere(d, b) ==
  \E c \in Buffer \ {b} : \E i \in 1 .. Len(queue[c]) :
    queue[c][i].dev = d /\ IsState(queue[c][i].event)

\* A probe on some CPU emits a record; when the buffer is full it is dropped
\* silently.
Probe(d, e, cpu) ==
  LET b    == <<e.kind, cpu>>
      fits == Len(queue[b]) < RING_MAX
  IN  /\ emitted < MaxEmit
      /\ emitted' = emitted + 1
      /\ queue' = IF fits
                  THEN [queue EXCEPT ![b] = Append(@, [dev |-> d, ts |-> now, event |-> e])]
                  ELSE queue
      /\ configured' = IF fits /\ Configures(e) THEN configured \cup {d}
                       ELSE IF fits /\ Restarts(e) THEN configured \ {d} ELSE configured
      /\ scattered' = IF fits /\ IsState(e) /\ WaitsElsewhere(d, b)
                      THEN scattered \cup {d} ELSE scattered
      /\ atWake' = atWake \cap configured'
      /\ EngineIdle
      /\ UNCHANGED <<loopVars, running, intr>>

\* on_signal.
Signal ==
  /\ running
  /\ running' = FALSE
  /\ EngineIdle
  /\ UNCHANGED <<loopVars, probeVars, intr, atWake>>

Clock ==
  /\ PROMPT => pc \in {"poll", "done"}
  /\ Advance
  /\ UNCHANGED <<loopVars, probeVars, running, intr, atWake>>

-----------------------------------------------------------------------------
(* The loop of diag_run. *)

GoTo(label) ==
  /\ pc' = label
  /\ UNCHANGED <<probeVars, running>>

\* A variant: the loop never looks at the flag again.
CheckDeaf ==
  /\ pc = "check"
  /\ GoTo("poll")
  /\ EngineIdle
  /\ UNCHANGED <<cur, todo, mark, last_tick, intr, atWake>>

Check ==
  /\ pc = "check"
  /\ GoTo(IF running THEN "poll" ELSE "report")
  /\ EngineIdle
  /\ UNCHANGED <<cur, todo, mark, last_tick, intr, atWake>>

\* usbtrace_evmux_poll wakes with records in some of the buffers, or after 200 ms
\* without any.  The ring buffers that have records are drained, of the perf
\* buffers all ...
PollReturns ==
  /\ pc = "poll"
  /\ GoTo("drain")
  /\ todo' = IF PERF THEN Buffer ELSE {b \in Buffer : queue[b] # << >>}
  /\ atWake' = configured
  /\ EngineIdle
  /\ UNCHANGED <<cur, mark, last_tick, intr>>

\* ... or with EINTR or EAGAIN, and the loop goes round without a tick ...
PollInterrupted ==
  /\ pc = "poll"
  /\ intr < MaxIntr
  /\ intr' = intr + 1
  /\ GoTo("check")
  /\ EngineIdle
  /\ UNCHANGED <<cur, todo, mark, last_tick, atWake>>

\* ... or with an error that ends the session.
PollFails ==
  /\ pc = "poll"
  /\ GoTo("report")
  /\ EngineIdle
  /\ UNCHANGED <<cur, todo, mark, last_tick, intr, atWake>>

\* How many records the visit of a buffer has still to take.
Rest == IF PERF THEN mark ELSE Len(queue[cur])

\* A variant: the last buffer is left with records in it.
BufferDoneEarly == cur \in Buffer /\ todo # {} => Rest = 0

BufferDone == cur \in Buffer => Rest = 0

\* The order in which diag_run joins the sources; the class sources come last.
JoinOrder == <<"urb", "enum", "lifecycle", "power", "hub">>
Rank(s) == Smallest({i \in 1 .. 6 : i = 6 \/ JoinOrder[i] = s})

\* perf: source by source, and CPU by CPU within a source
Before(b, c) == Rank(b[1]) < Rank(c[1]) \/ (b[1] = c[1] /\ b[2] < c[2])

\* The next buffer.  epoll's ready list gives the ring buffers in any order, as one
\* can still stand in it from an earlier poll.
NextBuffer ==
  /\ pc = "drain" /\ BufferDone
  /\ \E b \in todo : /\ PERF => \A c \in todo : ~Before(c, b)
                     /\ cur' = b /\ todo' = todo \ {b}
                     /\ mark' = IF PERF THEN Len(queue[b]) ELSE 0
  /\ EngineIdle
  /\ UNCHANGED <<pc, last_tick, probeVars, running, intr, atWake>>

\* A variant: the records taken are not counted.
DrainUncounted ==
  /\ pc = "drain" /\ cur # None
  /\ queue[cur] # << >> /\ Rest > 0
  /\ LET r == Head(queue[cur]) IN Ingest(r.dev, r.ts, r.event)
  /\ queue' = [queue EXCEPT ![cur] = Tail(@)]
  /\ UNCHANGED <<pc, cur, todo, mark, last_tick, emitted, configured, scattered, running,
                 intr, atWake>>

\* on_event: the next record of the buffer goes to the engine.
Drain ==
  /\ pc = "drain" /\ cur # None
  /\ queue[cur] # << >> /\ Rest > 0
  /\ LET r == Head(queue[cur]) IN Ingest(r.dev, r.ts, r.event)
  /\ queue' = [queue EXCEPT ![cur] = Tail(@)]
  /\ mark' = IF PERF THEN mark - 1 ELSE 0
  /\ UNCHANGED <<pc, cur, todo, last_tick, emitted, configured, scattered, running, intr,
                 atWake>>

Drained ==
  /\ pc = "drain" /\ BufferDone /\ todo = {}
  /\ GoTo("tick")
  /\ cur' = None
  /\ EngineIdle
  /\ UNCHANGED <<todo, mark, last_tick, intr, atWake>>

TickDue == now - last_tick >= TICK_INTERVAL_NS

\* A variant: every poll restarts the tick interval.
TickOrNotRestart ==
  /\ pc = "tick"
  /\ GoTo("check")
  /\ IF TickDue THEN Tick ELSE EngineIdle
  /\ last_tick' = now
  /\ UNCHANGED <<cur, todo, mark, intr, atWake>>

\* The engine is ticked with the clock read after the poll.
TickOrNot ==
  /\ pc = "tick"
  /\ GoTo("check")
  /\ IF TickDue THEN Tick /\ last_tick' = now ELSE EngineIdle /\ last_tick' = last_tick
  /\ UNCHANGED <<cur, todo, mark, intr, atWake>>

\* diag_engine_report and the cleanup: what is still queued is lost.
Report ==
  /\ pc = "report"
  /\ GoTo("done")
  /\ EngineIdle
  /\ UNCHANGED <<cur, todo, mark, last_tick, intr, atWake>>

Loop ==
  \/ Check \/ PollReturns \/ NextBuffer \/ Drain \/ Drained
  \/ TickOrNot \/ Report

-----------------------------------------------------------------------------

PipeInit ==
  /\ Init
  /\ queue = [b \in Buffer |-> << >>]
  /\ running = TRUE
  /\ pc = "check"
  /\ cur = None /\ todo = {} /\ mark = 0
  /\ last_tick = now
  /\ emitted = 0 /\ intr = 0
  /\ configured = {} /\ scattered = {} /\ atWake = {}

PipeNext ==
  \/ \E d \in Device, e \in Event, cpu \in Cpu : Probe(d, e, cpu)
  \/ Signal \/ Clock \/ PollInterrupted \/ PollFails \/ Loop

PipeSpec == PipeInit /\ [][PipeNext]_pipeVars

\* The loop is a running thread, and time passes.
FairPipeSpec == PipeSpec /\ WF_pipeVars(Loop) /\ WF_pipeVars(Clock)

-----------------------------------------------------------------------------
(* Properties. *)

(* The state of the loop: only a drain has buffers and records left, and   *)
(* what it has left is in them.                                            *)
LoopTypeOK ==
  /\ pc \in {"check", "poll", "drain", "tick", "report", "done"}
  /\ cur \in Buffer \cup {None} /\ todo \subseteq Buffer
  /\ pc # "drain" => cur = None /\ todo = {}
  /\ cur \notin todo
  /\ \A b \in Buffer : Len(queue[b]) <= RING_MAX
  /\ mark \in Nat /\ (cur \in Buffer => mark <= Len(queue[cur]))
  /\ last_tick \in 1 .. now

(* "reached ADDRESS but never CONFIGURED": a tick reports no stall of a     *)
(* device whose records, as far as they were queued when the poll before   *)
(* the tick woke, tell that it was configured, unless those that came      *)
(* since tell of a new bring-up: whatever was evicted or recycled.  Only a *)
(* device whose state records once waited in the buffers of two CPUs, out  *)
(* of which they come in another order, may be wronged.                    *)
NoStallReportedAgainstTheQueue ==
  [][\A d \in Device, r \in DeadlineRule :
       <<d, r>> \in out' /\ Rules[r].without = CONFIGURED =>
         d \notin atWake \/ d \in scattered]_pipeVars

\* A window that shows a stall, early enough for a tick to come.
StallVisible(d, r) ==
  \E s \in Owned(d) :
    /\ Stalled(devs[s], r)
    /\ devs[s].state_ts[Rules[r].reached] + Rules[r].timeout + TICK_INTERVAL_NS <= MaxTime
    /\ last_tick + TICK_INTERVAL_NS <= MaxTime

(* A device that stays stalled is reported while the session lasts, even   *)
(* if polls are interrupted and the ticks they skip come late.             *)
StallIsReported ==
  \A d \in Device, r \in DeadlineRule :
    StallVisible(d, r) ~>
      \/ <<d, r>> \in reported
      \/ \A s \in Owned(d) : ~Stalled(devs[s], r)
      \/ pc = "done"

(* "Ctrl-C to stop": once the signal handler has cleared the flag the      *)
(* session ends, whatever is still queued.                                 *)
SignalEndsSession == ~running ~> pc = "done"

\* The records of the device, stamped before ref, that wait for the poll and meet
\* the condition.
Waiting(c, d, ref) ==
  {p \in Buffer \X (1 .. RING_MAX) :
     /\ p[2] \in DOMAIN queue[p[1]]
     /\ LET x == queue[p[1]][p[2]]
        IN  x.dev = d /\ x.ts < ref /\ Considered(c, ref, Stamped(x.event, d, x.ts))}

\* With what waits the rule's conditions are met.
Preceded(r, d, ref) ==
  \A j \in DOMAIN Rules[r].when :
    LET c == Rules[r].when[j]
    IN  EvalWhen(WinOf(d).log, c, ref) + Cardinality(Waiting(c, d, ref)) >= c.need

(* disconnect-after-errors, "disconnect preceded by repeated transfer      *)
(* errors": when the engine takes a trigger, and the older records of the  *)
(* device that reached a map meet the conditions of the rule, the finding  *)
(* is printed, but for its cooldown.                                       *)
NoFindingLost ==
  [][\A b \in Buffer, r \in EventRule :
       ingested' > ingested /\ queue'[b] # queue[b] =>
         LET x == Head(queue[b])
         IN  /\ TriggerMatch(Rules[r].trigger, Stamped(x.event, x.dev, x.ts))
             /\ Preceded(r, x.dev, x.ts)
             /\ CooldownOk(WinOf(x.dev), r)
             => <<x.dev, r>> \in out']_pipeVars
=============================================================================
