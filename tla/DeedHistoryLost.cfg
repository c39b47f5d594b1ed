SPECIFICATION DeedSpec
CONSTANTS
  Words = {w1}
  Editors = {e1, e2}
  Slots = {s1, s2}
  Nobody = Nobody
  MaxEdits = 2
  MaxOthers = 1
  MaxFaults = 1
INVARIANT
  HistoryComplete
CHECK_DEADLOCK FALSE
