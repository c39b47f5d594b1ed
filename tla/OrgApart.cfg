SPECIFICATION Spec
CONSTANTS
  Users = {u1, u2}
  FirstOwners = {u1, u2}
  Reqs = {r1, r2}
  Transfers = {t1, t2}
  NoUser = NoUser
  NoTransfer = NoTransfer
SYMMETRY Symmetry
ACTION_CONSTRAINT Apart
INVARIANTS
  OwnershipKept
  RolesAgree
  TransfersSettleOnce
CHECK_DEADLOCK FALSE
