\* A bring-up whose records come from two CPUs: perf buffers of one record, a slow loop
\* body, and a retention short enough that windows are evicted between two bring-ups.
SPECIFICATION FairPipeSpec
CONSTANTS
  WIN_MAX_EVENTS = 1
  U64 = 65536
  Device = {d1}
  NoDevice = NoDevice
  None = None
  PERF = TRUE
  Cpu = {0, 1}
  Event <- Bringup
  WIN_MAX_DEVS = 1
  EventRule = {1}
  DeadlineRule = {2}
  Rules <- MCRules
  RETENTION_NS = 1
  COOLDOWN_NS = 2
  MaxSkew = 1
  MaxTime = 4
  MaxIngest = 3
  RING_MAX = 1
  TICK_INTERVAL_NS = 2
  PROMPT = FALSE
  MaxEmit = 3
  MaxIntr = 1
INVARIANT LoopTypeOK
PROPERTY NoStallReportedAgainstTheQueue
PROPERTY StallIsReported
PROPERTY SignalEndsSession
CHECK_DEADLOCK FALSE
