SPECIFICATION OfficeSpec
CONSTANTS
  Words = {w1}
  Editors = {e1, e2}
  Slots = {c1, c2}
  Nobody = Nobody
  MaxEdits = 2
  MaxOthers = 1
  MaxFaults = 1
  Orgs = {o1}
  Staff = {m1, m2}
  MaxCopies = 2
  MaxMarks = 3
  People = {p1}
  Calls = {c1, c2}
  MaxChanges = 1
  MaxAdjusts = 1
  Employees = {p1}
  Requests = {c1, c2}
  Networks = {n1}
  MaxNets = 1
  Gap = 1
  MaxTime = 1
  MaxRecords = 3
  MaxSaves = 1
  Salaries = {7, 100}
  Quotas = {0, 150}
  LateRates = {0, 50, 100}
  Extras = {0, 3}
  MaxDays = 4
  Tabs = {t1}
  Beat = 2
  Stale = 7
  Sweep = 2
  Delay = 1
SYMMETRY Symmetry
INVARIANTS
  PartsTyped
  HistoryKept
  EditsKept
  WorkStaysUndisturbed
  CopiesInStep
  SlipsTrue
  PunchedOnce
  SettingsKept
  PayRight
  BetterDayNeverCosts
  BeatsRideOut
  NoGhost
  ScreensTrue
PROPERTY
  FinalLocked
CHECK_DEADLOCK FALSE
