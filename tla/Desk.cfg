SPECIFICATION DeskSpec
CONSTANTS
  Ids = {f1, f2}
  Desk = {d1}
  Jobs = {j1, j2}
  MaxDay = 2
  Handlers = {d1}
  Runs = {j1, j2}
  LastDay = 2
  MaxUpdates = 4
  MaxFails = 0
  NoId = NoId
  Plots = {l1}
  Callers = {j1, j2}
  MaxSales = 2
SYMMETRY Symmetry
INVARIANTS
  PartsTyped
  PostedOnce
  StopHeard
  PlannedWhenDone
  NoticesInStep
  SoldBlocks
  RegisterAgrees
PROPERTY
  ConversationKept
CHECK_DEADLOCK FALSE
