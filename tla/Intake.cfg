SPECIFICATION RequestSpec
CONSTANTS
  Texts = {a, b}
  Files = {f}
  Others = {}
  Settings = {TRUE}
  MaxDeliveries = 2
  MaxDbErrors = 0
  MaxCrashes = 2
  Buyer = "buyer"
  MortgagePeople <- MCPeople
  PhotoKinds <- MCPhotos
SYMMETRY Symmetry
INVARIANTS
  HandledOnce
  NoneForgotten
  TakenInOrder
  SubmittedComplete
  StaffWarned
  AskedOnce
CHECK_DEADLOCK FALSE
