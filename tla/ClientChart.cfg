SPECIFICATION ChartSpec
CONSTANTS
  Devices = {d1, d2}
  None = None
  Presets = {"short", "long"}
  Length <- MCLength
  NextPreset <- MCNextPreset
  Initial = "short"
  Days <- MCDays
  CacheSize = 2
  Budgets <- MCBudgets
  TrendBudget = 2
INVARIANTS NothingDropped GapsAreTrue ReadyMeansLoaded
PROPERTIES AnswerKeepsUp ChartSettles
CHECK_DEADLOCK FALSE
