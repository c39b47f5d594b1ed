SPECIFICATION IntakeSpec
CONSTANTS
  Buyer = "buyer"
  MortgagePeople <- MCPeople
  PhotoKinds <- MCPhotos
INVARIANTS
  IdFilesListed
CHECK_DEADLOCK FALSE
