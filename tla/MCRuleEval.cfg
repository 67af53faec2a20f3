\* In-order arrival: one source, whose hooks run on one CPU at a time.
SPECIFICATION EvalSpec
CONSTANTS
  WIN_MAX_EVENTS = 3
  U64 = 65536
  Event <- MCEvent
  NoEvent = NoEvent
  Conds <- MCConds
  MaxStamp = 6
  MaxSkew = 0
  MaxPush = 6
INVARIANT TypeOK
INVARIANT LookbackNotTruncated
INVARIANT FloodNeverInvents
INVARIANT EveryBurstCountsOnce
PROPERTY ImplementsBoundedLog
CHECK_DEADLOCK FALSE
