SPECIFICATION Spec
CONSTANTS
  Drafts = {d1}
  NoDraft = NoDraft
  Slots = {s1}
  MaxTexts = 1
INVARIANTS
  DeliveryStartsWait
