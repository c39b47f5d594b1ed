SPECIFICATION Spec
CONSTANTS
  Users = {u1, u2}
  FirstOwners = {u1}
  Reqs = {r1, r2}
  Transfers = {t1}
  NoUser = NoUser
  NoTransfer = NoTransfer
SYMMETRY Symmetry
INVARIANTS
  AtLeastOneActiveOwner
CHECK_DEADLOCK FALSE
