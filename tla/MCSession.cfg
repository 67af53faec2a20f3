SPECIFICATION Spec
CONSTANTS
  RuleNodes <- MCRuleNodes
  MAX_RULES = 2
  MAX_WHEN = 2
  MAX_MATCH = 1
  MAX_STATUS = 1
  Endpoints = {ep1, ep2, ep3}
  RATE_SLOTS = 2
  RATE_WINDOW = 5
  RATE_GAP = 2
  RATE_SKEW = 1
  MaxUrbs = 4
  MaxTs = 6
  Buffers = {buf1, buf2}
  CAUSE_ENTRIES = 1
  MaxFrames = 3
  MaxFaults = 2
  MaxStreams = 2
  DiagSources <- MCDiagSources
INVARIANT SessionTypeOK
INVARIANT ReleasedOnce
INVARIANT ExitStatusIsTrue
INVARIANT RulesOwnedOrReleased
INVARIANT EveryReportInOneWindow
INVARIANT EveryIntervalAccounted
INVARIANT NoRateOverAShortSpan
INVARIANT DropBlamesTheLoss
INVARIANT NoGapMeansNoLoss
SYMMETRY Symmetric
CHECK_DEADLOCK FALSE
