SPECIFICATION Spec
CONSTANTS
  Texts = {a}
  Files = {f}
  Others = {}
  Settings = {TRUE}
  MaxDeliveries = 1
  MaxDbErrors = 0
  MaxCrashes = 0
INVARIANTS
  OneAfterAnother
CHECK_DEADLOCK FALSE
