\* A deadline longer than the retention, as a user's rule file may give it.
SPECIFICATION Spec
CONSTANTS
  WIN_MAX_EVENTS = 1
  U64 = 65536
  Device = {d1, d2}
  NoDevice = NoDevice
  Event <- MCEvent
  WIN_MAX_DEVS = 2
  EventRule = {1}
  DeadlineRule = {2}
  Rules <- MCRules
  RETENTION_NS = 3
  COOLDOWN_NS = 2
  StallTimeout = 5
  MaxSkew = 1
  MaxTime = 8
  MaxIngest = 3
PROPERTY NoStallEvictedUnreported
CHECK_DEADLOCK FALSE
