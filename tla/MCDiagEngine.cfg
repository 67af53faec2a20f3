SPECIFICATION Spec
CONSTANTS
  WIN_MAX_EVENTS = 1
  U64 = 65536
  Device = {d1, d2, d3}
  NoDevice = NoDevice
  Event <- MCEvent
  WIN_MAX_DEVS = 2
  EventRule = {1}
  DeadlineRule = {2}
  Rules <- MCRules
  RETENTION_NS = 2
  COOLDOWN_NS = 1
  StallTimeout = 1
  MaxSkew = 1
  MaxTime = 4
  MaxIngest = 4
SYMMETRY DeviceSymmetry
INVARIANT TypeOK
INVARIANT OneWindowPerDevice
PROPERTY RepeatsOnlyAfterCooldown
PROPERTY NoStallEvictedUnreported
PROPERTY OneReportPerEpisode
CHECK_DEADLOCK FALSE
