\* The role handlers, one at a time and overlapping; and the switches of the role screen
\* before two workers with a cache each, with outages, lost requests and lost answers.
CONSTANTS
  p1 = p1
  p2 = p2
  p3 = p3
  t1 = t1
  t2 = t2
  k1 = k1
  k2 = k2
  k3 = k3
  local1 = local1
  local2 = local2
  PageKeys = {p1, p2, p3}
  PageMin <- MCPageMin
  BuiltIns <- MCBuiltIns
  CustomCodes = {"ANALYST"}
  Populated = {"SUPER_ADMIN", "USER"}
  Pks = {k1, k2, k3}
  Shown = k1
  ShownPages = {p1, p2}
  Threads = {t1, t2}
  Caches = {local1, local2}
  CacheOf <- MCPerProcess
  Seeded = TRUE
  Settings <- MCSettings
  ScreenSettings <- MCScreenSettings
  InitialGrants = {{p1}}
  Checkers = {t1}
  MaxClicks = 2
  Losses = TRUE
  NoRow = NoRow
  Deleted = Deleted
  NoTable = NoTable
  NoEntry = NoEntry
  NoPk = NoPk
SPECIFICATION MCSpec
CHECK_DEADLOCK FALSE
INVARIANTS TypeOK CachedTableCurrent RankFollowsGrants GrantsComplete SuperAdminKeepsEveryPage SwitchTellsGrant
PROPERTIES SystemRowsStay SavingEnds TablesConverge
