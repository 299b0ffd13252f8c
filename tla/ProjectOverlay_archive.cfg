\* Every handler, one request at a time and two with every failure.
CONSTANTS
  Ids = {1, 2, 3}
  FirstId = 0
  Names = {n1, n2}
  NoName = NoName
  Threads = {t1, t2}
  Handlers = {"browse", "open", "edit", "archive", "bulk", "create"}
  Settings <- MCSettings
  NoDoc = NoDoc
  NoRoster = NoRoster
  NoId = NoId
SPECIFICATION Spec
CHECK_DEADLOCK FALSE
SYMMETRY Symmetry
INVARIANT TrailExplains
PROPERTIES ArchivedStays BulkArchivesAll
