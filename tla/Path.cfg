CONSTANTS
  k1 = k1  k2 = k2  d1 = d1  d2 = d2
  Calls = {k1, k2}
  Uses <- UsesChecked
  Days = {d1, d2}
  Tracks = {"JRP", "IOP", "PT"}
CHECK_DEADLOCK FALSE
SPECIFICATION FairSpec
INVARIANTS TypeOK PoolEntered
PROPERTIES MovesForward ClockKept SyncSettles
