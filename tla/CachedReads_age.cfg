\* Two requests at a time and three snapshots.
CONSTANTS
  CACHE_TTL_SHORT = 1
  CACHE_TTL_MEDIUM = 2
  CACHE_TTL_LONG = 6
  MaxDelay = 1
  MaxSnapshots = 2
  Threads = {t1, t2}
  Areas = {"keywords", "projects"}
  NoEntry = NoEntry
SPECIFICATION Spec
SYMMETRY Symmetry
INVARIANTS ShownWasCurrent SummaryFollowsSnapshot
