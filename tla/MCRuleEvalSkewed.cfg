\* Arrival out of order by up to five ticks: per-CPU buffers, or several sources.
SPECIFICATION EvalSpec
CONSTANTS
  WIN_MAX_EVENTS = 3
  U64 = 65536
  Event <- MCEvent
  NoEvent = NoEvent
  Conds <- MCConds
  MaxStamp = 5
  MaxSkew = 5
  MaxPush = 5
INVARIANT EveryBurstCountsOnce
CHECK_DEADLOCK FALSE
