SPECIFICATION Spec
CONSTANTS
  u1 = u1
  u2 = u2
  Urbs <- MCUrbs
  MapMax = 1
  MaxTime = 2
INVARIANT TypeOK
INVARIANT LatencyIsOfThisTransfer
INVARIANT StarvedOnlyByAFullMap
INVARIANT NoEntryOutlivesItsUrb
CHECK_DEADLOCK FALSE
