SPECIFICATION LiveSpec
CONSTANTS
  Ids = {f1}
  Desk = {d1}
  Jobs = {j1}
  MaxDay = 2
  MaxFails = 1
  NoId = NoId
  Texts = {a, b}
  Files = {f}
  Others = {}
  Settings = {TRUE, FALSE}
  MaxDeliveries = 1
  MaxDbErrors = 1
  MaxCrashes = 1
INVARIANTS
  UnbatchedInTurn
PROPERTIES
  DueSettled
  MessagesAnswered
  ImplementsMailbox
CHECK_DEADLOCK FALSE
