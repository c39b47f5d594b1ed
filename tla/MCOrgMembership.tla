-------------------------- MODULE MCOrgMembership --------------------------
EXTENDS OrgMembership, TLC

(* The first owners are interchangeable, and so are the other users, the   *)
(* request slots and the transfer rows.                                    *)
Symmetry ==
  Permutations(FirstOwners) \union Permutations(Users \ FirstOwners) \union
  Permutations(Reqs) \union Permutations(Transfers)

(* Bounds a run to the schedules in which neither two requests that change *)
(* a member or the owner nor two that change a transfer cross.             *)
Apart == (ChangesApart /\ TransfersApart)'
=============================================================================
