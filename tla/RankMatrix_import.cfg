CONSTANTS
  Keywords = {k1, k2}
  Today = 10
  MaxRows = 2
  DEFAULT_DATE_RANGE = "L7D"
  MaxSpan = 9
  MAX_MATRIX_COLUMNS = 2
  NoDates = NoDates
  NoDay = NoDay
  NotCached = NotCached
  NoRank = NoRank
  MonthStarts <- MCMonthStarts
  ObservedDays <- MCObservedDays
  Ranks <- MCRanks
  PresetDays <- MCPresetDays
  Presets <- MCPresets
  CustomRanges <- MCCustomRanges
  Intervals <- MCIntervals
SYMMETRY MCSymmetry
SPECIFICATION Spec
INVARIANTS BestRankWins MissingToldApart BadgeOfTheBest ColumnsCover NewestColumnChecked
