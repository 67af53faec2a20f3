\* Transfer errors and the disconnect they precede, each in the buffer of its source,
\* which are drained in the order the sources were joined.
SPECIFICATION PipeSpec
CONSTANTS
  WIN_MAX_EVENTS = 3
  U64 = 65536
  Device = {d1}
  NoDevice = NoDevice
  None = None
  PERF = TRUE
  Cpu = {0}
  Event <- UrbAndLifecycle
  WIN_MAX_DEVS = 1
  EventRule = {1}
  DeadlineRule = {2}
  Rules <- MCRules
  RETENTION_NS = 4
  COOLDOWN_NS = 2
  MaxSkew = 1
  MaxTime = 4
  MaxIngest = 3
  RING_MAX = 2
  TICK_INTERVAL_NS = 2
  PROMPT = FALSE
  MaxEmit = 3
  MaxIntr = 1
PROPERTY NoFindingLost
CHECK_DEADLOCK FALSE
