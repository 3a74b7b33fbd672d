SPECIFICATION PagesSpec
CONSTANTS
  Devices = {d1}
  Axes = {x, y}
  None = None
  Buffer = 2
  Scenarios <- MCScenarios
  MaxWire = 2
  m1 = m1
  m2 = m2
  c1 = c1
  c2 = c2
  ZoneIds = {1, 2, 3}
  FirstZones <- SomeZones
  ZonePageSize = 1
  Boards = {m1, m2}
  Binaries = {c1, c2}
  MaxLookups = 2
  Machines = {m1, m2}
  Archive <- SomeArchive
  SampleRuns <- SomeRuns
  BinSteps = 2
  BatchSize = 3
  JobLimit = 1
  Packages = {c1, c2}
  Retries = 1
  Builds = 2
  Park = {1, 2, 3}
  FirstPark <- SomePark
  PageSizes = {2, 3}
  Viewports = {1000, 1600}
  Panels = {c1, c2}
  AxisNames = {"N"}
  Faces = {"bottom"}
  Months = {1}
  Jobs = {1}
  Charts = {c1, c2}
  RowsOf <- SomeRows
  FrameOf <- SomeFrames
  Drawn = {1, 2, 4, 8}
  Shades <- SomeShades
  Bars = 2
  HoverDelta = 1
  FrameCache = 2
  Bodies <- SomeBodies
  ZoneBudget = 3
  OtaBudget = 5
  AnalysisBudget = 3
  PanelBudget = 3
  KioskBudget = 2
  ParkBudget = 2
  DialogBudget = 2
  HoverBudget = 2
INVARIANTS AnswersFindTheirPage ClearedStaysCleared WorkIsAccountedFor NamesFollowPlacement SpectrumIsOfTarget
PROPERTIES NewestIsShown NamesCatchUp EndsAreShown
CHECK_DEADLOCK FALSE
