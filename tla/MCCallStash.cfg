SPECIFICATION Spec
CONSTANTS
  t1 = t1
  t2 = t2
  watched = watched
  other = other
  Threads <- MCThreads
  Devices <- MCDevices
  Watched <- MCWatched
  Hooked <- MCHooked
  MapMax = 1
  MaxDepth = 2
INVARIANT TypeOK
INVARIANT ReturnNamesItsDevice
INVARIANT LostOnlyToAFullMap
INVARIANT EntriesAreAccountedFor
