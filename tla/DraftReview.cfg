SPECIFICATION Spec
CONSTANTS
  Drafts = {d1, d2}
  NoDraft = NoDraft
  Slots = {s1, s2}
  MaxTexts = 3
SYMMETRY Symmetry
INVARIANTS
  AnswersADelivery
  CorrectionKept
