\* One creation after the other; nothing fails and nothing is imported.
CONSTANTS
  Ids = {1, 2}
  FirstId = 0
  Names = {n1, n2}
  NoName = NoName
  Threads = {t1, t2}
  Handlers = {"create"}
  Settings <- MCCreations
  NoDoc = NoDoc
  NoRoster = NoRoster
  NoId = NoId
SPECIFICATION Spec
CHECK_DEADLOCK FALSE
SYMMETRY Symmetry
PROPERTY IdIdentifies
