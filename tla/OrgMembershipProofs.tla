------------------------ MODULE OrgMembershipProofs ------------------------
(***************************************************************************)
(* What OrgMembership guarantees for any number of users, concurrent       *)
(* requests and transfers.  The proofs rest on OrgAssumption alone.        *)
(*                                                                         *)
(* The invariants are not inductive by themselves: what a request read     *)
(* before its transaction must still mean something when it commits.       *)
(* Arguments bounds what a request slot holds at each point, SettledTarget *)
(* says that a member whose status is about to be written was let in and   *)
(* still is, and SeenCodes that a code read earlier still belongs to       *)
(* nobody but the member it was read from.                                 *)
(***************************************************************************)
EXTENDS OrgMembership, FiniteSetTheorems, TLAPS

StatusPoints == {"status.read", "status.check", "status.commit"}
RolePoints == {"role.user", "role.membership", "role.check", "role.commit"}
OneUserPoints ==
  {"approve.user", "approve.commit", "reject.user", "reject.commit"}
NominatePoints == {"nominate.read", "nominate.retire", "nominate.create"}
AcceptPoints == {"accept.from", "accept.to", "accept.commit"}

(* What the arguments of a request are at each of its points. *)
Arguments ==
  \A r \in Reqs :
    /\ pc[r] \in StatusPoints =>
         local[r].target \in Users /\ local[r].arg \in {"ACTIVE", "INACTIVE"}
    /\ pc[r] \in RolePoints =>
         local[r].target \in Users /\ local[r].arg \in StaffRoles
    /\ pc[r] \in OneUserPoints => local[r].target \in Users
    /\ pc[r] \in NominatePoints => local[r].target \in Users /\ local[r].actor \in Users
    /\ pc[r] \in AcceptPoints =>
         /\ local[r].target \in Users /\ local[r].actor \in Users
         /\ local[r].transfer \in Transfers
    /\ pc[r] = "cancel.commit" => local[r].transfer \in Transfers

(* A transfer that was created is between two users. *)
Parties ==
  \A t \in Transfers :
    transfer[t].created => transfer[t].from \in Users /\ transfer[t].to \in Users

Shape == TypeOK /\ Arguments /\ Parties

(* A request about to write a member's status read it once it was let in. *)
SettledTarget ==
  \A r \in Reqs : pc[r] \in {"status.check", "status.commit"} =>
    LetIn(membership[local[r].target])

Holding(r) == pc[r] \in {"role.check", "role.commit"} /\ local[r].seen.code # NoCode

(* A code a request holds was drawn, and is no other member's, neither in  *)
(* the table nor in another request's hands.                               *)
SeenCodes ==
  /\ nextCode # 0
  /\ \A r \in Reqs : Holding(r) =>
       /\ local[r].seen.code < nextCode
       /\ \A v \in Users \ {local[r].target} : membership[v].code # local[r].seen.code
  /\ \A r, s \in Reqs : Holding(r) /\ Holding(s) /\ local[r].target # local[s].target
       => local[r].seen.code # local[s].seen.code

-----------------------------------------------------------------------------
(* Setting one column of one row leaves a table of rows of its type. *)
LEMMA SetStatus ==
  ASSUME NEW m \in [Users -> Memberships], NEW u \in Users, NEW s \in Statuses
  PROVE  [m EXCEPT ![u].status = s] \in [Users -> Memberships]
  BY DEF Memberships

LEMMA SetRoleAndCode ==
  ASSUME NEW m \in [Users -> Memberships], NEW u \in Users, NEW role \in OrgRoles,
         NEW c \in Nat
  PROVE  [m EXCEPT ![u].role = role, ![u].code = c] \in [Users -> Memberships]
  BY DEF Memberships

LEMMA SetRole ==
  ASSUME NEW m \in [Users -> Memberships], NEW u \in Users, NEW v \in Users
  PROVE  [m EXCEPT ![u].role = "ADMIN", ![v].role = "OWNER"] \in [Users -> Memberships]
  BY DEF Memberships, OrgRoles

LEMMA SetUserStatus ==
  ASSUME NEW w \in [Users -> UserRows], NEW u \in Users, NEW s \in Statuses
  PROVE  [w EXCEPT ![u].status = s] \in [Users -> UserRows]
  BY DEF UserRows

LEMMA SetUserRole ==
  ASSUME NEW w \in [Users -> UserRows], NEW u \in Users, NEW role \in StaffRoles
  PROVE  [w EXCEPT ![u].role = role] \in [Users -> UserRows]
  BY DEF UserRows

LEMMA SetTransfer ==
  ASSUME NEW w \in [Transfers -> TransferRows], NEW t \in Transfers, NEW b \in BOOLEAN
  PROVE  /\ [w EXCEPT ![t].cancelled = b] \in [Transfers -> TransferRows]
         /\ [w EXCEPT ![t].confirmed = b] \in [Transfers -> TransferRows]
         /\ [w EXCEPT ![t].expired = b] \in [Transfers -> TransferRows]
         /\ [w[t] EXCEPT !.cancelled = b] \in TransferRows
  BY DEF TransferRows

LEMMA SetSeen ==
  ASSUME NEW l \in [Reqs -> Locals], NEW r \in Reqs, NEW m \in Memberships
  PROVE  [l EXCEPT ![r].seen = m] \in [Reqs -> Locals]
  BY DEF Locals

LEMMA SetSeenRole ==
  ASSUME NEW l \in [Reqs -> Locals], NEW r \in Reqs, NEW role \in StaffRoles
  PROVE  [l EXCEPT ![r].seenRole = role] \in [Reqs -> Locals]
  BY DEF Locals

(* A request that ends leaves every slot with arguments that fit its point. *)
LEMMA FinishKeepsSlots ==
  ASSUME TypeOK, Arguments, NEW r \in Reqs, Finish(r)
  PROVE  pc' \in [Reqs -> Points] /\ local' \in [Reqs -> Locals] /\ Arguments'
  BY DEF TypeOK, Arguments, Finish, Go, NoLocals, NoMembership, NoCode, Points, Locals,
     Memberships, Statuses, OrgRoles, StaffRoles, StatusPoints, RolePoints, OneUserPoints,
     NominatePoints, AcceptPoints

(* The rows and the request slots keep their shape: the type invariant of  *)
(* OrgMembership, with what the slots hold at each point of a handler.     *)
LEMMA ShapeInvariant == Spec => []Shape
<1> USE OrgAssumption DEF Shape, TypeOK, Arguments, Parties, Memberships, UserRows,
      TransferRows, Points, Locals, Statuses, OrgRoles, StaffRoles, StatusPoints,
      RolePoints, OneUserPoints, NominatePoints, AcceptPoints, NoCode
<1>1. Init => Shape
  BY DEF Init, NoMembership, NoUserRow, NoTransferRow, NoLocals
<1>2. Shape /\ [Next]_vars => Shape'
  <2> SUFFICES ASSUME Shape, [Next]_vars PROVE Shape'
    OBVIOUS
  <2>1. ASSUME NEW r \in Reqs, Start(r) PROVE Shape'
    <3> USE DEF Begin, Go, NoLocals, NoMembership, data
    <3>1. ASSUME NEW a \in Users, NEW u \in Users, NEW s \in {"ACTIVE", "INACTIVE"},
                 BeginSetStatus(r, a, u, s) PROVE Shape'
      BY <3>1 DEF BeginSetStatus
    <3>2. ASSUME NEW a \in Users, NEW u \in Users, NEW role \in StaffRoles,
                 BeginSetRole(r, a, u, role) PROVE Shape'
      BY ZenonT(30), <3>2 DEF BeginSetRole
    <3>3. ASSUME NEW a \in Users, NEW u \in Users, BeginApprove(r, a, u) PROVE Shape'
      BY <3>3 DEF BeginApprove
    <3>4. ASSUME NEW a \in Users, NEW u \in Users, BeginReject(r, a, u) PROVE Shape'
      BY <3>4 DEF BeginReject
    <3>5. ASSUME NEW a \in Users, NEW u \in Users, BeginNominate(r, a, u) PROVE Shape'
      BY ZenonT(30), <3>5 DEF BeginNominate
    <3>6. ASSUME NEW a \in Users, NEW t \in Transfers, BeginCancel(r, a, t) PROVE Shape'
      BY <3>6 DEF BeginCancel
    <3> QED BY <2>1, <3>1, <3>2, <3>3, <3>4, <3>5, <3>6 DEF Start
  <2>2. ASSUME NEW r \in Reqs, Step(r) PROVE Shape'
    <3> USE DEF Go, Finish, NoLocals, NoMembership, NoUserRow, data
    <3>1. CASE ReadForStatus(r)
      BY <3>1 DEF ReadForStatus
    <3>2. CASE CheckOwnerForStatus(r)
      BY <3>2 DEF CheckOwnerForStatus
    <3>3. CASE CommitStatus(r)
      <4> HIDE DEF Memberships, UserRows, Locals
      <4>1. Finish(r) /\ local[r].target \in Users /\ local[r].arg \in Statuses
        BY <3>3 DEF CommitStatus
      <4>2. membership' \in [Users -> Memberships]
        BY <3>3, <4>1, SetStatus DEF CommitStatus
      <4>3. user' \in [Users -> UserRows]
        BY <3>3, <4>1, SetUserStatus DEF CommitStatus
      <4>4. honoured' \in [Users -> BOOLEAN]
        BY <3>3, <4>1 DEF CommitStatus, SessionsAfter
      <4> QED BY <3>3, <4>1, <4>2, <4>3, <4>4, FinishKeepsSlots DEF CommitStatus
    <3>4. CASE ReadUserForRole(r)
      <4> HIDE DEF Locals
      <4>1. local[r].target \in Users /\ user[local[r].target].role \in StaffRoles
        BY <3>4 DEF ReadUserForRole
      <4>2. local' \in [Reqs -> Locals]
        BY <3>4, <4>1, SetSeenRole DEF ReadUserForRole
      <4> QED BY <3>4, <4>1, <4>2 DEF ReadUserForRole
    <3>5. CASE ReadMembershipForRole(r)
      <4> HIDE DEF Memberships, Locals
      <4>1. local[r].target \in Users /\ membership[local[r].target] \in Memberships
        BY <3>5 DEF ReadMembershipForRole
      <4>2. local' \in [Reqs -> Locals]
        BY <3>5, <4>1, SetSeen DEF ReadMembershipForRole
      <4> QED BY <3>5, <4>1, <4>2 DEF ReadMembershipForRole
    <3>6. CASE CheckOwnerForRole(r)
      BY <3>6 DEF CheckOwnerForRole
    <3>7. CASE CommitRole(r)
      <4> HIDE DEF Memberships, UserRows, Locals
      <4>1. /\ Finish(r)
            /\ local[r].target \in Users /\ local[r].arg \in StaffRoles
            /\ local[r].seen \in Memberships
        BY <3>7 DEF CommitRole, Locals
      <4>2. local[r].seen.code \in Nat
        BY <4>1 DEF Memberships
      <4>3. nextCode' \in Nat
        BY <3>7 DEF CommitRole, CounterAfter
      <4>4. membership' \in [Users -> Memberships]
        <5>1. \/ membership' = membership
              \/ \E c \in {nextCode, local[r].seen.code} :
                   membership' = [membership EXCEPT ![local[r].target].role = local[r].arg,
                                                    ![local[r].target].code = c]
          BY ONLY <3>7 DEF CommitRole
        <5>2. membership \in [Users -> Memberships] /\ nextCode \in Nat
          OBVIOUS
        <5>3. local[r].arg \in OrgRoles
          BY <4>1 DEF OrgRoles
        <5>4. ASSUME NEW c \in Nat
              PROVE  [membership EXCEPT ![local[r].target].role = local[r].arg,
                                        ![local[r].target].code = c] \in [Users -> Memberships]
          BY ONLY <4>1, <5>2, <5>3, SetRoleAndCode
        <5> QED BY ONLY <4>2, <5>1, <5>2, <5>4
      <4>5. user' \in [Users -> UserRows]
        BY <3>7, <4>1, SetUserRole DEF CommitRole, UserAfterRole
      <4> QED BY <3>7, <4>1, <4>3, <4>4, <4>5, FinishKeepsSlots DEF CommitRole
    <3>8. CASE ReadUserForApprove(r)
      BY <3>8 DEF ReadUserForApprove
    <3>9. CASE CommitApprove(r)
      <4> HIDE DEF Memberships, UserRows, Locals
      <4>1. Finish(r) /\ local[r].target \in Users
        BY <3>9 DEF CommitApprove
      <4>2. membership' \in [Users -> Memberships]
        BY <3>9, <4>1, SetStatus DEF CommitApprove
      <4>3. user' \in [Users -> UserRows]
        BY <3>9, <4>1, SetUserStatus DEF CommitApprove
      <4> QED BY <3>9, <4>1, <4>2, <4>3, FinishKeepsSlots DEF CommitApprove
    <3>10. CASE ReadUserForReject(r)
      BY <3>10 DEF ReadUserForReject
    <3>11. CASE CommitReject(r)
      <4> HIDE DEF Memberships, UserRows, Locals
      <4>1. Finish(r) /\ local[r].target \in Users
        BY <3>11 DEF CommitReject
      <4>2. /\ [NoMembership EXCEPT !.status = "deleted"] \in Memberships
            /\ [NoUserRow EXCEPT !.status = "deleted"] \in UserRows
        BY DEF Memberships, UserRows
      <4>3. membership' \in [Users -> Memberships] /\ user' \in [Users -> UserRows]
        BY <3>11, <4>1, <4>2 DEF CommitReject
      <4> QED BY <3>11, <4>1, <4>3, FinishKeepsSlots DEF CommitReject
    <3>12. CASE ReadNominee(r)
      BY <3>12 DEF ReadNominee
    <3>13. CASE RetireOpen(r)
      <4> HIDE DEF TransferRows
      <4>1. transfer' \in [Transfers -> TransferRows]
        BY <3>13, SetTransfer DEF RetireOpen
      <4>2. Parties'
        BY <3>13 DEF RetireOpen, TransferRows
      <4>3. pc' \in [Reqs -> Points] /\ Arguments'
        BY <3>13 DEF RetireOpen
      <4> QED BY <3>13, <4>1, <4>2, <4>3 DEF RetireOpen
    <3>14. CASE CommitCancel(r)
      <4> HIDE DEF TransferRows, Locals
      <4>1. Finish(r) /\ local[r].transfer \in Transfers
        BY <3>14 DEF CommitCancel
      <4>2. transfer' \in [Transfers -> TransferRows]
        BY <3>14, <4>1, SetTransfer DEF CommitCancel
      <4>3. Parties'
        BY <3>14, <4>1 DEF CommitCancel, TransferRows
      <4> QED BY <3>14, <4>1, <4>2, <4>3, FinishKeepsSlots DEF CommitCancel
    <3>15. CASE ReadFrom(r)
      BY <3>15 DEF ReadFrom
    <3>16. CASE ReadTo(r)
      BY <3>16 DEF ReadTo
    <3>17. CASE CommitAccept(r)
      <4> HIDE DEF Memberships, UserRows, Locals
      <4>1. /\ Finish(r)
            /\ local[r].actor \in Users /\ local[r].target \in Users
            /\ local[r].transfer \in Transfers
        BY <3>17 DEF CommitAccept
      <4>2. membership' \in [Users -> Memberships]
        <5>1. membership' = [membership EXCEPT ![local[r].actor].role = "ADMIN",
                                               ![local[r].target].role = "OWNER"]
          BY ONLY <3>17 DEF CommitAccept
        <5>2. membership \in [Users -> Memberships]
          OBVIOUS
        <5> QED BY ONLY <4>1, <5>1, <5>2, SetRole
      <4>3. honoured' \in [Users -> BOOLEAN]
        BY <3>17, <4>1 DEF CommitAccept
      <4>4. transfer' \in [Transfers -> TransferRows]
        <5> HIDE DEF TransferRows
        <5> QED BY <3>17, <4>1, SetTransfer DEF CommitAccept
      <4>5. Parties'
        BY <3>17, <4>1 DEF CommitAccept
      <4> QED
        BY <3>17, <4>1, <4>2, <4>3, <4>4, <4>5, FinishKeepsSlots DEF CommitAccept, UserAfterAccept
    <3>18. ASSUME NEW t \in Transfers, CreateTransfer(r, t) PROVE Shape'
      BY <3>18 DEF CreateTransfer, NoTransferRow
    <3>19. ASSUME NEW t \in Transfers, ReadTransfer(r, t) PROVE Shape'
      BY ZenonT(30), <3>19 DEF ReadTransfer, Begin, Open
    <3> QED
      BY <2>2, <3>1, <3>2, <3>3, <3>4, <3>5, <3>6, <3>7, <3>8, <3>9, <3>10, <3>11,
         <3>12, <3>13, <3>14, <3>15, <3>16, <3>17, <3>18, <3>19 DEF Step
  <2>3. ASSUME NEW r \in Reqs, Fail(r) PROVE Shape'
    BY <2>3 DEF Fail, Finish, Go, NoLocals, NoMembership, data
  <2>4. ASSUME NEW u \in Users, Login(u) PROVE Shape'
    BY <2>4 DEF Login
  <2>5. ASSUME NEW u \in Users, NEW role \in StaffRoles, NEW s \in {"PENDING", "ACTIVE"},
               Join(u, role, s) PROVE Shape'
    <3> HIDE DEF Memberships, UserRows, Locals
    <3>1. /\ [status |-> s, role |-> role, code |-> NextEmployeeCode(role)] \in Memberships
          /\ [status |-> s, role |-> role] \in UserRows
      BY DEF Memberships, UserRows, NextEmployeeCode
    <3>2. membership' \in [Users -> Memberships] /\ user' \in [Users -> UserRows]
      BY <2>5, <3>1 DEF Join
    <3>3. nextCode' \in Nat
      BY <2>5 DEF Join, CounterAfter
    <3> QED BY <2>5, <3>2, <3>3 DEF Join
  <2>6. ASSUME NEW t \in Transfers, Expire(t) PROVE Shape'
    <3> HIDE DEF TransferRows
    <3>1. transfer' \in [Transfers -> TransferRows]
      BY <2>6, SetTransfer DEF Expire
    <3>2. Parties'
      BY <2>6 DEF Expire, TransferRows
    <3> QED BY <2>6, <3>1, <3>2 DEF Expire
  <2>7. CASE UNCHANGED vars
    BY <2>7 DEF vars
  <2> QED
    BY <2>1, <2>2, <2>3, <2>4, <2>5, <2>6, <2>7 DEF Next
<1> QED
  BY <1>1, <1>2, PTL DEF Spec

(* The type invariant of OrgMembership. *)
THEOREM TypeCorrect == Spec => []TypeOK
  BY ShapeInvariant, PTL DEF Shape

-----------------------------------------------------------------------------
(* A request slot takes nothing else with it when it starts or ends.       *)

SlotPoints == {"status.check", "status.commit", "role.check", "role.commit"}

(* Steps that only move request slots: no row changes, and no slot comes   *)
(* to hold a snapshot.                                                     *)
LEMMA StartIsQuiet ==
  ASSUME TypeOK, NEW r \in Reqs, Start(r) \/ Fail(r)
  PROVE  /\ UNCHANGED data
         /\ pc' \in [Reqs -> Points] /\ pc'[r] \notin SlotPoints
         /\ \A s \in Reqs \ {r} : pc'[s] = pc[s] /\ local'[s] = local[s]
<1> USE DEF Begin, Go, Finish, SlotPoints, TypeOK, Points
<1>1. CASE Start(r)
  BY <1>1 DEF Start, BeginSetStatus, BeginSetRole, BeginApprove, BeginReject,
     BeginNominate, BeginCancel
<1>2. CASE Fail(r)
  BY <1>2 DEF Fail
<1> QED BY <1>1, <1>2

(* Discontinuation locks out, for requests that read the status early too. *)
LockedOut == DiscontinuedLocksOut /\ SettledTarget

LEMMA LockedOutInvariant == Spec => []LockedOut
<1> USE DEF LockedOut, DiscontinuedLocksOut, SettledTarget, LetIn, SlotPoints
<1>1. Init => LockedOut
  <2>1. Init => SettledTarget
    BY DEF Init
  <2>2. Init => DiscontinuedLocksOut
    <3> SUFFICES ASSUME Init, NEW u \in Users
                 PROVE  /\ user[u].status = membership[u].status
                        /\ honoured[u] => membership[u].status = "ACTIVE"
      OBVIOUS
    <3>1. CASE u \in FirstOwners
      BY <3>1 DEF Init
    <3>2. CASE u \notin FirstOwners
      BY <3>2 DEF Init, NoMembership, NoUserRow
    <3> QED BY <3>1, <3>2
  <2> QED BY <2>1, <2>2
<1>2. Shape /\ LockedOut /\ [Next]_vars => LockedOut'
  <2> SUFFICES ASSUME Shape, LockedOut, [Next]_vars PROVE LockedOut'
    OBVIOUS
  <2> USE DEF Shape, TypeOK, Arguments, StatusPoints, RolePoints, OneUserPoints,
        NominatePoints, AcceptPoints
  <2>1. ASSUME NEW r \in Reqs, Start(r) \/ Fail(r) PROVE LockedOut'
    BY <2>1, StartIsQuiet DEF data, Points
  <2>2. ASSUME NEW r \in Reqs, Step(r) PROVE LockedOut'
    <3> USE DEF Go, Finish, data
    <3>1. CASE ReadForStatus(r)
      BY <3>1 DEF ReadForStatus
    <3>2. CASE CheckOwnerForStatus(r)
      BY <3>2 DEF CheckOwnerForStatus
    <3>3. CASE CommitStatus(r)
      <4>1. /\ local[r].target \in Users
            /\ local[r].arg \in {"ACTIVE", "INACTIVE"}
        BY <3>3 DEF CommitStatus
      <4>2. \A v \in Users :
              /\ membership'[v].status =
                   IF v = local[r].target THEN local[r].arg ELSE membership[v].status
              /\ user'[v].status =
                   IF v = local[r].target THEN local[r].arg ELSE user[v].status
        BY <3>3, <4>1 DEF CommitStatus, Memberships, UserRows
      <4>3. \A v \in Users : honoured'[v] =>
              honoured[v] /\ (v = local[r].target => local[r].arg = "ACTIVE")
        BY <3>3, <4>1 DEF CommitStatus, SessionsAfter
      <4>4. DiscontinuedLocksOut'
        BY <4>1, <4>2, <4>3
      <4>5. \A s \in Reqs : pc'[s] \in {"status.check", "status.commit"} =>
              pc'[s] = pc[s] /\ local'[s] = local[s]
        BY <3>3 DEF CommitStatus
      <4> QED BY <4>1, <4>2, <4>4, <4>5
    <3>4. CASE ReadUserForRole(r)
      BY <3>4 DEF ReadUserForRole, Locals
    <3>5. CASE ReadMembershipForRole(r)
      BY <3>5 DEF ReadMembershipForRole, Locals
    <3>6. CASE CheckOwnerForRole(r)
      BY <3>6 DEF CheckOwnerForRole
    <3>7. CASE CommitRole(r)
      BY SMTT(30), <3>7 DEF CommitRole, UserAfterRole, Memberships, UserRows
    <3>8. CASE ReadUserForApprove(r)
      BY <3>8 DEF ReadUserForApprove
    <3>9. CASE CommitApprove(r)
      BY <3>9 DEF CommitApprove, Memberships, UserRows
    <3>10. CASE ReadUserForReject(r)
      BY <3>10 DEF ReadUserForReject
    <3>11. CASE CommitReject(r)
      BY <3>11 DEF CommitReject, NoMembership, NoUserRow
    <3>12. CASE ReadNominee(r)
      BY <3>12 DEF ReadNominee
    <3>13. CASE RetireOpen(r)
      BY <3>13 DEF RetireOpen
    <3>14. CASE CommitCancel(r)
      BY <3>14 DEF CommitCancel
    <3>15. CASE ReadFrom(r)
      BY <3>15 DEF ReadFrom
    <3>16. CASE ReadTo(r)
      BY <3>16 DEF ReadTo
    <3>17. CASE CommitAccept(r)
      <4>1. local[r].target \in Users /\ local[r].actor \in Users
        BY <3>17 DEF CommitAccept
      <4>2. \A v \in Users : /\ membership'[v].status = membership[v].status
                             /\ honoured'[v] => honoured[v]
        BY <3>17, <4>1 DEF CommitAccept, Memberships
      <4>3. user' = user
        BY <3>17 DEF CommitAccept, UserAfterAccept
      <4>4. \A s \in Reqs : pc'[s] \in {"status.check", "status.commit"} =>
              pc'[s] = pc[s] /\ local'[s] = local[s]
        BY <3>17 DEF CommitAccept
      <4> QED BY <4>2, <4>3, <4>4
    <3>18. ASSUME NEW t \in Transfers, CreateTransfer(r, t) PROVE LockedOut'
      BY <3>18 DEF CreateTransfer
    <3>19. ASSUME NEW t \in Transfers, ReadTransfer(r, t) PROVE LockedOut'
      BY <3>19 DEF ReadTransfer, Begin
    <3> QED
      BY <2>2, <3>1, <3>2, <3>3, <3>4, <3>5, <3>6, <3>7, <3>8, <3>9, <3>10, <3>11,
         <3>12, <3>13, <3>14, <3>15, <3>16, <3>17, <3>18, <3>19 DEF Step
  <2>3. ASSUME NEW u \in Users, Login(u) PROVE LockedOut'
    BY <2>3 DEF Login
  <2>4. ASSUME NEW u \in Users, NEW role \in StaffRoles, NEW s \in {"PENDING", "ACTIVE"},
               Join(u, role, s) PROVE LockedOut'
    BY <2>4 DEF Join
  <2>5. ASSUME NEW t \in Transfers, Expire(t) PROVE LockedOut'
    BY <2>5 DEF Expire
  <2>6. CASE UNCHANGED vars
    BY <2>6 DEF vars
  <2> QED
    BY <2>1, <2>2, <2>3, <2>4, <2>5, <2>6 DEF Next
<1> QED
  BY <1>1, <1>2, ShapeInvariant, PTL DEF Spec

(* User.status and Membership.status never disagree, and no session of a   *)
(* member who is not active is honoured, whatever requests race.           *)
THEOREM LockOutCorrect == Spec => []DiscontinuedLocksOut
  BY LockedOutInvariant, PTL DEF LockedOut

-----------------------------------------------------------------------------
(* Codes.                                                                  *)

CodeOwnership == CodesUnique /\ SeenCodes

(* A step that gives nobody a code and no slot a snapshot keeps ownership. *)
LEMMA SameCodes ==
  ASSUME CodeOwnership,
         nextCode' = nextCode,
         \A v \in Users : membership'[v].code = membership[v].code,
         \A s \in Reqs : Holding(s)' =>
           Holding(s) /\ local'[s].seen = local[s].seen /\ local'[s].target = local[s].target
  PROVE  CodeOwnership'
  BY DEF CodeOwnership, CodesUnique, SeenCodes

(* A step whose slots either keep their point and locals or hold nothing. *)
LEMMA SameHolders ==
  ASSUME \A s \in Reqs : \/ pc'[s] = pc[s] /\ local'[s] = local[s]
                         \/ pc'[s] \notin {"role.check", "role.commit"}
  PROVE  \A s \in Reqs : Holding(s)' =>
           Holding(s) /\ local'[s].seen = local[s].seen /\ local'[s].target = local[s].target
  BY DEF Holding

(* No two members ever carry the same employee code, although a role       *)
(* change writes back a code read before its transaction.                  *)
THEOREM CodesCorrect == Spec => []CodesUnique
<1>1. Init => CodeOwnership
  <2> SUFFICES ASSUME Init PROVE CodeOwnership
    OBVIOUS
  <2>1. \A u \in Users : membership[u].code = NoCode
    BY DEF Init, NoMembership
  <2>2. \A r \in Reqs : ~Holding(r)
    BY DEF Init, Holding
  <2>3. nextCode = 1
    BY DEF Init
  <2> QED BY <2>1, <2>2, <2>3 DEF CodeOwnership, CodesUnique, SeenCodes
<1>2. Shape /\ CodeOwnership /\ [Next]_vars => CodeOwnership'
  <2> SUFFICES ASSUME Shape, CodeOwnership, [Next]_vars PROVE CodeOwnership'
    OBVIOUS
  <2>0. /\ membership \in [Users -> Memberships] /\ nextCode \in Nat
        /\ pc \in [Reqs -> Points] /\ local \in [Reqs -> Locals]
    BY DEF Shape, TypeOK
  <2>1. ASSUME NEW r \in Reqs, Start(r) \/ Fail(r) PROVE CodeOwnership'
    <3>1. UNCHANGED data /\ \A s \in Reqs : \/ pc'[s] = pc[s] /\ local'[s] = local[s]
                                            \/ pc'[s] \notin {"role.check", "role.commit"}
      BY <2>1, StartIsQuiet DEF Shape, SlotPoints
    <3> QED BY <3>1, SameHolders, SameCodes DEF data
  <2>2. ASSUME NEW r \in Reqs, Step(r) PROVE CodeOwnership'
    <3>1. ASSUME \/ ReadForStatus(r) \/ CheckOwnerForStatus(r) \/ CommitStatus(r)
                 \/ ReadUserForRole(r)
                 \/ ReadUserForApprove(r) \/ CommitApprove(r)
                 \/ ReadUserForReject(r) \/ ReadNominee(r) \/ RetireOpen(r)
                 \/ CommitCancel(r) \/ ReadFrom(r) \/ ReadTo(r) \/ CommitAccept(r)
                 \/ \E t \in Transfers : CreateTransfer(r, t) \/ ReadTransfer(r, t)
          PROVE CodeOwnership'
      <4>1. \A s \in Reqs : \/ pc'[s] = pc[s] /\ local'[s] = local[s]
                            \/ pc'[s] \notin {"role.check", "role.commit"}
        BY <2>0, <3>1 DEF ReadForStatus, CheckOwnerForStatus, CommitStatus, ReadUserForRole,
           ReadUserForApprove, CommitApprove, ReadUserForReject, ReadNominee, RetireOpen,
           CommitCancel, ReadFrom, ReadTo, CommitAccept, CreateTransfer, ReadTransfer, Begin,
           Go, Finish, Points
      <4>2. nextCode' = nextCode
        BY <3>1 DEF ReadForStatus, CheckOwnerForStatus, CommitStatus, ReadUserForRole,
           ReadUserForApprove, CommitApprove, ReadUserForReject, ReadNominee, RetireOpen,
           CommitCancel, ReadFrom, ReadTo, CommitAccept, CreateTransfer, ReadTransfer, data
      <4>3. \A v \in Users : membership'[v].code = membership[v].code
        <5>1. CASE CommitStatus(r)
          BY <2>0, <5>1 DEF CommitStatus, Memberships
        <5>2. CASE CommitApprove(r)
          BY <2>0, <5>2 DEF CommitApprove, Memberships
        <5>3. CASE CommitAccept(r)
          BY <2>0, <5>3 DEF CommitAccept, Memberships
        <5>4. CASE ~CommitStatus(r) /\ ~CommitApprove(r) /\ ~CommitAccept(r)
          BY <3>1, <5>4 DEF ReadForStatus, CheckOwnerForStatus, ReadUserForRole,
             ReadUserForApprove, ReadUserForReject, ReadNominee, RetireOpen,
             CommitCancel, ReadFrom, ReadTo, CreateTransfer, ReadTransfer, data
        <5> QED BY <5>1, <5>2, <5>3, <5>4
      <4> QED BY <4>1, <4>2, <4>3, SameHolders, SameCodes
    <3>2. CASE CommitReject(r)
      <4>1. \A s \in Reqs : \/ pc'[s] = pc[s] /\ local'[s] = local[s]
                            \/ pc'[s] \notin {"role.check", "role.commit"}
        BY <2>0, <3>2 DEF CommitReject, Go, Finish
      <4>2. \A v \in Users : \/ membership'[v].code = membership[v].code
                             \/ membership'[v].code = NoCode
        BY <2>0, <3>2 DEF CommitReject, NoMembership, Memberships
      <4>3. nextCode' = nextCode
        BY <3>2 DEF CommitReject
      <4> QED
        BY <4>1, <4>2, <4>3, SameHolders DEF CodeOwnership, CodesUnique, SeenCodes, Holding
    <3>3. CASE CheckOwnerForRole(r)
      <4>1. pc[r] = "role.check" /\ UNCHANGED <<membership, nextCode, local>>
        BY <3>3 DEF CheckOwnerForRole, data
      <4>2. \A s \in Reqs : Holding(s)' => Holding(s)
        BY <2>0, <3>3, <4>1 DEF CheckOwnerForRole, Go, Holding
      <4> QED BY <4>1, <4>2, SameCodes
    <3>4. CASE ReadMembershipForRole(r)
      <4> DEFINE u == local[r].target
      <4>1. UNCHANGED <<membership, nextCode>> /\ u \in Users
        BY <3>4 DEF ReadMembershipForRole, data, Shape, Arguments, RolePoints
      <4>2. /\ local'[r].seen = membership[u] /\ local'[r].target = u
            /\ \A s \in Reqs \ {r} : local'[s] = local[s] /\ pc'[s] = pc[s]
        BY <2>0, <3>4 DEF ReadMembershipForRole, Go, Locals
      <4>3. \A s \in Reqs \ {r} : Holding(s)' => Holding(s) /\ local'[s] = local[s]
        BY <4>2 DEF Holding
      <4>4. Holding(r)' => membership[u].code # NoCode
        BY <4>2 DEF Holding
      <4> QED BY <4>1, <4>2, <4>3, <4>4 DEF CodeOwnership, CodesUnique, SeenCodes
    <3>5. CASE CommitRole(r)
      <4> DEFINE u == local[r].target
                 seen == local[r].seen
                 draws == local[r].arg # seen.role /\ local[r].arg = "EMPLOYEE" /\ seen.code = NoCode
                 code == IF draws THEN nextCode ELSE seen.code
      <4>1. u \in Users /\ pc[r] = "role.commit" /\ seen \in Memberships
        BY <2>0, <3>5 DEF CommitRole, Shape, Arguments, RolePoints, Locals
      <4>2. \A s \in Reqs : \/ pc'[s] = pc[s] /\ local'[s] = local[s]
                            \/ pc'[s] \notin {"role.check", "role.commit"}
        BY <2>0, <3>5 DEF CommitRole, Go, Finish
      <4>3. nextCode' = IF draws THEN nextCode + 1 ELSE nextCode
        BY <3>5 DEF CommitRole, CounterAfter
      <4>4. CASE local[r].arg = seen.role
        <5>1. membership' = membership /\ nextCode' = nextCode
          BY <3>5, <4>3, <4>4 DEF CommitRole
        <5> QED BY <4>2, <5>1, SameHolders, SameCodes
      <4>5. CASE local[r].arg # seen.role
        <5>1. membership' = [membership EXCEPT ![u].role = local[r].arg, ![u].code = code]
          BY <3>5, <4>5 DEF CommitRole
        <5>2. \A v \in Users : membership'[v].code = IF v = u THEN code ELSE membership[v].code
          BY <2>0, <4>1, <5>1 DEF Memberships
        <5>3. \A s \in Reqs : Holding(s)' =>
                Holding(s) /\ local'[s].seen = local[s].seen /\ local'[s].target = local[s].target
          BY <4>2, SameHolders
        <5>4. seen.code \in Nat /\ \A v \in Users : membership[v].code \in Nat
          BY <2>0, <4>1 DEF Memberships
        <5>5. CASE draws
          <6>1. code = nextCode /\ nextCode' = nextCode + 1
            BY <4>3, <5>5
          <6>2. CodesUnique'
            BY <2>0, <5>2, <5>4, <6>1 DEF CodeOwnership, CodesUnique
          <6>3. SeenCodes'
            <7>1. \A s \in Reqs : local[s].seen.code \in Nat
              BY <2>0 DEF Locals, Memberships
            <7> QED BY <2>0, <5>2, <5>3, <5>4, <6>1, <7>1 DEF CodeOwnership, SeenCodes
          <6> QED BY <6>2, <6>3 DEF CodeOwnership
        <5>6. CASE ~draws
          <6>1. code = seen.code /\ nextCode' = nextCode
            BY <4>3, <5>6
          <6>2. seen.code # NoCode => Holding(r)
            BY <4>1 DEF Holding
          <6>3. CodesUnique'
            BY <5>2, <6>1, <6>2 DEF CodeOwnership, CodesUnique, SeenCodes
          <6>4. SeenCodes'
            BY <5>2, <5>3, <6>1, <6>2 DEF CodeOwnership, CodesUnique, SeenCodes, Holding
          <6> QED BY <6>3, <6>4 DEF CodeOwnership
        <5> QED BY <5>5, <5>6
      <4> QED BY <4>4, <4>5
    <3> QED BY <2>2, <3>1, <3>2, <3>3, <3>4, <3>5 DEF Step
  <2>3. ASSUME NEW u \in Users, Login(u) PROVE CodeOwnership'
    BY <2>3, SameCodes, SameHolders DEF Login
  <2>4. ASSUME NEW u \in Users, NEW role \in StaffRoles, NEW s \in {"PENDING", "ACTIVE"},
               Join(u, role, s) PROVE CodeOwnership'
    <3>1. /\ UNCHANGED <<pc, local>>
          /\ nextCode' = IF role = "EMPLOYEE" THEN nextCode + 1 ELSE nextCode
      BY <2>4 DEF Join, CounterAfter
    <3>2. \A v \in Users : membership'[v].code =
            IF v # u THEN membership[v].code
            ELSE IF role = "EMPLOYEE" THEN nextCode ELSE NoCode
      BY <2>0, <2>4 DEF Join, NextEmployeeCode
    <3>3. \A q \in Reqs : Holding(q)' = Holding(q) /\ local'[q] = local[q]
      BY <3>1 DEF Holding
    <3>4. /\ \A v \in Users : membership[v].code \in Nat
          /\ \A q \in Reqs : local[q].seen.code \in Nat
      BY <2>0 DEF Locals, Memberships
    <3>5. CodesUnique'
      BY <2>0, <3>1, <3>2, <3>4 DEF CodeOwnership, CodesUnique
    <3>6. SeenCodes'
      BY <2>0, <3>1, <3>2, <3>3, <3>4 DEF CodeOwnership, SeenCodes, NoCode, Holding
    <3> QED BY <3>5, <3>6 DEF CodeOwnership
  <2>5. ASSUME NEW t \in Transfers, Expire(t) PROVE CodeOwnership'
    BY <2>5, SameCodes, SameHolders DEF Expire
  <2>6. CASE UNCHANGED vars
    BY <2>6, SameCodes, SameHolders DEF vars
  <2> QED
    BY <2>1, <2>2, <2>3, <2>4, <2>5, <2>6 DEF Next
<1> QED
  BY <1>1, <1>2, ShapeInvariant, PTL DEF Spec, CodeOwnership

-----------------------------------------------------------------------------
(* Refinement.  A step moves one member along one edge of MemberLifecycle, *)
(* signs members out, or leaves both abstract variables alone.             *)

Phases == [u \in Users |-> membership[u].status]
Access == {u \in Users : honoured[u]}

(* Every commit of a request maps to a step of MemberLifecycle. *)
LEMMA StatusMove ==
  ASSUME TypeOK, NEW u \in Users, NEW s \in Statuses,
         membership' = [membership EXCEPT ![u].status = s]
  PROVE  Phases' = [Phases EXCEPT ![u] = s]
  BY DEF TypeOK, Memberships, Phases

LEMMA SameStatuses ==
  ASSUME TypeOK, \A u \in Users : membership'[u].status = membership[u].status
  PROVE  Phases' = Phases
  BY DEF Phases

LEMMA SetsOut ==
  ASSUME TypeOK, Phases' = Phases, \A u \in Users : honoured'[u] => honoured[u]
  PROVE  Lifecycle!Next
<1>1. Access' = Access \ {u \in Users : ~honoured'[u]}
  BY DEF Access
<1>2. \E S \in SUBSET Users : Access' = Access \ S
  BY <1>1
<1> QED BY <1>2 DEF Lifecycle!Next, Lifecycle!SignOut, Access, Phases

(* Whatever requests race, every member's status and sessions change only  *)
(* as MemberLifecycle allows.                                              *)
THEOREM LifecycleImplemented == Spec => ImplementsLifecycle
<1>1. Init => Lifecycle!Init
  <2> SUFFICES ASSUME Init PROVE Lifecycle!Init
    OBVIOUS
  <2>1. \A u \in Users : membership[u].status = IF u \in FirstOwners THEN "ACTIVE" ELSE "none"
    BY DEF Init, NoMembership
  <2>2. {u \in Users : honoured[u]} = FirstOwners
    BY OrgAssumption DEF Init
  <2> QED BY <2>1, <2>2 DEF Lifecycle!Init
<1>2. Shape /\ LockedOut /\ [Next]_vars => [Lifecycle!Next]_(Lifecycle!vars)
  <2> SUFFICES ASSUME Shape, LockedOut, [Next]_vars
               PROVE  Lifecycle!Next \/ UNCHANGED Lifecycle!vars
    OBVIOUS
  <2>0. TypeOK /\ Arguments
    BY DEF Shape
  <2>a. ASSUME UNCHANGED <<membership, honoured>> PROVE UNCHANGED Lifecycle!vars
    BY <2>a DEF Lifecycle!vars
  <2>1. ASSUME NEW r \in Reqs, Start(r) \/ Fail(r) PROVE UNCHANGED Lifecycle!vars
    BY <2>0, <2>1, <2>a, StartIsQuiet DEF data
  <2>2. ASSUME NEW r \in Reqs, Step(r) PROVE Lifecycle!Next \/ UNCHANGED Lifecycle!vars
    <3>1. CASE CommitStatus(r)
      <4> DEFINE u == local[r].target
                 s == local[r].arg
      <4>1. u \in Users /\ s \in {"ACTIVE", "INACTIVE"} /\ LetIn(membership[u])
        BY <2>0, <3>1 DEF CommitStatus, Arguments, StatusPoints, LockedOut, SettledTarget
      <4>2. Phases' = [Phases EXCEPT ![u] = s]
        BY <2>0, <3>1, <4>1, StatusMove DEF CommitStatus, Statuses
      <4>3. honoured' = [honoured EXCEPT ![u] = SessionsAfter(u, s)]
        BY <3>1 DEF CommitStatus
      <4>4. Phases[u] = membership[u].status /\ Phases \in [Users -> Statuses]
        BY <2>0, <4>1 DEF Phases, TypeOK, Memberships
      <4>5. honoured[u] \in BOOLEAN /\ honoured \in [Users -> BOOLEAN]
        BY <2>0, <4>1 DEF TypeOK
      <4>6. CASE s = "ACTIVE"
        <5>1. honoured' = honoured
          BY <4>1, <4>3, <4>5, <4>6 DEF SessionsAfter
        <5>2. CASE membership[u].status = "INACTIVE"
          BY <4>1, <4>2, <4>4, <4>6, <5>1, <5>2
             DEF Lifecycle!Next, Lifecycle!Restore, Lifecycle!Move, Phases
        <5>3. CASE membership[u].status = "ACTIVE"
          BY <4>1, <4>2, <4>4, <4>6, <5>1, <5>3 DEF Lifecycle!vars, Phases
        <5> QED BY <4>1, <5>2, <5>3 DEF LetIn
      <4>7. CASE s = "INACTIVE"
        <5>1. \A v \in Users : honoured'[v] <=> (honoured[v] /\ v # u)
          BY <4>1, <4>3, <4>5, <4>7 DEF SessionsAfter
        <5>2. CASE membership[u].status = "ACTIVE"
          BY <4>1, <4>2, <4>4, <4>7, <5>1, <5>2
             DEF Lifecycle!Next, Lifecycle!Discontinue, Lifecycle!Move, Phases
        <5>3. CASE membership[u].status = "INACTIVE"
          <6>1. Phases' = Phases
            BY <4>2, <4>4, <4>7, <5>3
          <6> QED BY <2>0, <5>1, <6>1, SetsOut
        <5> QED BY <4>1, <5>2, <5>3 DEF LetIn
      <4> QED BY <4>1, <4>6, <4>7
    <3>2. CASE CommitApprove(r)
      <4> DEFINE u == local[r].target
      <4>1. u \in Users /\ membership[u].status = "PENDING" /\ honoured' = honoured
        BY <2>0, <3>2 DEF CommitApprove, Arguments, OneUserPoints
      <4>2. Phases' = [Phases EXCEPT ![u] = "ACTIVE"]
        BY <2>0, <3>2, <4>1, StatusMove DEF CommitApprove, Statuses
      <4> QED
        BY <4>1, <4>2 DEF Lifecycle!Next, Lifecycle!Approve, Lifecycle!Move, Phases
    <3>3. CASE CommitReject(r)
      <4> DEFINE u == local[r].target
      <4>1. u \in Users /\ membership[u].status = "PENDING" /\ honoured' = honoured
        BY <2>0, <3>3 DEF CommitReject, Arguments, OneUserPoints
      <4>2. Phases' = [Phases EXCEPT ![u] = "deleted"]
        BY <2>0, <3>3, <4>1 DEF CommitReject, NoMembership, Phases, TypeOK
      <4> QED
        BY <4>1, <4>2 DEF Lifecycle!Next, Lifecycle!Reject, Lifecycle!Move, Phases
    <3>4. CASE CommitRole(r)
      <4>1. \A v \in Users : membership'[v].status = membership[v].status
        BY <2>0, <3>4 DEF CommitRole, TypeOK, Memberships
      <4> QED BY <2>0, <3>4, <4>1, SameStatuses, SetsOut DEF CommitRole
    <3>5. CASE CommitAccept(r)
      <4>1. local[r].actor \in Users /\ local[r].target \in Users
        BY <2>0, <3>5 DEF CommitAccept, Arguments, AcceptPoints
      <4>2. \A v \in Users : membership'[v].status = membership[v].status
        BY <2>0, <3>5, <4>1 DEF CommitAccept, TypeOK, Memberships
      <4>3. \A v \in Users : honoured'[v] => honoured[v]
        BY <2>0, <3>5, <4>1 DEF CommitAccept, TypeOK
      <4> QED BY <2>0, <4>2, <4>3, SameStatuses, SetsOut
    <3>6. CASE UNCHANGED <<membership, honoured>>
      BY <3>6, <2>a
    <3> QED
      BY <2>2, <3>1, <3>2, <3>3, <3>4, <3>5, <3>6 DEF Step, ReadForStatus,
         CheckOwnerForStatus, ReadUserForRole, ReadMembershipForRole, CheckOwnerForRole,
         ReadUserForApprove, ReadUserForReject, ReadNominee, RetireOpen, CommitCancel,
         ReadFrom, ReadTo, CreateTransfer, ReadTransfer, data
  <2>3. ASSUME NEW u \in Users, Login(u) PROVE Lifecycle!Next
    <3>1. membership[u].status = "ACTIVE" /\ UNCHANGED membership
      BY <2>3 DEF Login
    <3>2. {v \in Users : honoured'[v]} = {v \in Users : honoured[v]} \union {u}
      BY <2>0, <2>3 DEF Login, TypeOK
    <3> QED BY <3>1, <3>2 DEF Lifecycle!Next, Lifecycle!SignIn
  <2>4. ASSUME NEW u \in Users, NEW role \in StaffRoles, NEW s \in {"PENDING", "ACTIVE"},
               Join(u, role, s) PROVE Lifecycle!Next
    <3>1. membership[u].status = "none" /\ honoured' = honoured
      BY <2>4 DEF Join
    <3>2. Phases' = [Phases EXCEPT ![u] = s]
      BY <2>0, <2>4 DEF Join, Phases, TypeOK
    <3> QED
      BY <3>1, <3>2 DEF Lifecycle!Next, Lifecycle!Ask, Lifecycle!Admit, Lifecycle!Move, Phases
  <2>5. ASSUME NEW t \in Transfers, Expire(t) PROVE UNCHANGED Lifecycle!vars
    BY <2>5, <2>a DEF Expire
  <2>6. CASE UNCHANGED vars
    BY <2>6, <2>a DEF vars
  <2> QED
    BY <2>1, <2>2, <2>3, <2>4, <2>5, <2>6 DEF Next
<1> QED
  BY <1>1, <1>2, ShapeInvariant, LockedOutInvariant, PTL DEF Spec, ImplementsLifecycle,
     Lifecycle!Spec

-----------------------------------------------------------------------------
(* Requests that do not cross.  What a request has read then stays true    *)
(* until it ends: whatever else goes on meanwhile (approvals, rejections,  *)
(* signups, logins, the passing of time) leaves the rows it has read alone.*)

(* The steps that read and go on, and those that write and end. *)
Reading(r) ==
  \/ ReadForStatus(r) \/ CheckOwnerForStatus(r)
  \/ ReadUserForRole(r) \/ ReadMembershipForRole(r) \/ CheckOwnerForRole(r)
  \/ ReadUserForApprove(r) \/ ReadUserForReject(r) \/ ReadNominee(r)
  \/ ReadFrom(r) \/ ReadTo(r) \/ \E t \in Transfers : ReadTransfer(r, t)

Writing(r) ==
  \/ CommitStatus(r) \/ CommitRole(r) \/ CommitApprove(r) \/ CommitReject(r)
  \/ CommitCancel(r) \/ CommitAccept(r) \/ \E t \in Transfers : CreateTransfer(r, t)

FirstPoints ==
  {"idle", "status.read", "role.user", "approve.user", "reject.user", "nominate.read",
   "cancel.commit"}

LEMMA StepsSplit == \A r \in Reqs : Step(r) => Reading(r) \/ Writing(r) \/ RetireOpen(r)
BY DEF Step, Reading, Writing

LEMMA StartPoint ==
  ASSUME TypeOK, NEW r \in Reqs, Start(r) \/ Fail(r)
  PROVE  UNCHANGED data /\ pc'[r] \in FirstPoints
<1> USE DEF Begin, Go, Finish, TypeOK, FirstPoints
<1>1. CASE Start(r)
  BY <1>1 DEF Start, BeginSetStatus, BeginSetRole, BeginApprove, BeginReject,
     BeginNominate, BeginCancel
<1>2. CASE Fail(r)
  BY <1>2 DEF Fail
<1> QED BY <1>1, <1>2

LEMMA WritingEnds ==
  ASSUME TypeOK, NEW r \in Reqs, Writing(r)
  PROVE  pc'[r] = "idle"
BY DEF Writing, CommitStatus, CommitRole, CommitApprove, CommitReject, CommitCancel,
   CommitAccept, CreateTransfer, Finish, Go, TypeOK

LEMMA ReadingIsQuiet ==
  ASSUME NEW r \in Reqs, Reading(r)
  PROVE  UNCHANGED data
BY DEF Reading, ReadForStatus, CheckOwnerForStatus, ReadUserForRole, ReadMembershipForRole,
   CheckOwnerForRole, ReadUserForApprove, ReadUserForReject, ReadNominee, ReadFrom, ReadTo,
   ReadTransfer

(* A step of one request leaves the slots of the others as they are. *)
LEMMA OtherSlots ==
  ASSUME TypeOK, NEW r \in Reqs, Start(r) \/ Step(r) \/ Fail(r), NEW s \in Reqs \ {r}
  PROVE  pc'[s] = pc[s] /\ local'[s] = local[s]
<1> USE DEF Begin, Go, Finish, TypeOK
<1>1. CASE Start(r)
  BY <1>1 DEF Start, BeginSetStatus, BeginSetRole, BeginApprove, BeginReject,
     BeginNominate, BeginCancel
<1>2. CASE Fail(r)
  BY <1>2 DEF Fail
<1>3. CASE Reading(r)
  BY <1>3 DEF Reading, ReadForStatus, CheckOwnerForStatus, ReadUserForRole,
     ReadMembershipForRole, CheckOwnerForRole, ReadUserForApprove, ReadUserForReject,
     ReadNominee, ReadFrom, ReadTo, ReadTransfer
<1>4. CASE Writing(r) \/ RetireOpen(r)
  BY <1>4 DEF Writing, CommitStatus, CommitRole, CommitApprove, CommitReject, CommitCancel,
     CommitAccept, CreateTransfer, RetireOpen
<1> QED BY <1>1, <1>2, <1>3, <1>4, StepsSplit

(* What a request has read of members and still goes by. *)
RoleReads(r) ==
  /\ pc[r] \in {"role.membership", "role.check", "role.commit"} =>
       /\ local[r].seenRole = user[local[r].target].role
       /\ user[local[r].target].status # "none"
  /\ pc[r] \in {"role.check", "role.commit"} =>
       /\ local[r].seen = membership[local[r].target]
       /\ local[r].seen.status = "ACTIVE"

OwnerReads(r) ==
  /\ pc[r] = "role.commit" /\ local[r].seen.role = "OWNER" => MoreThanOneActiveOwner
  /\ pc[r] = "status.commit" /\ local[r].arg = "INACTIVE" /\
     membership[local[r].target].role = "OWNER" => MoreThanOneActiveOwner
  /\ pc[r] \in {"accept.to", "accept.commit"} =>
       /\ membership[local[r].actor].status = "ACTIVE"
       /\ membership[local[r].actor].role = "OWNER"
  /\ pc[r] = "accept.commit" =>
       /\ membership[local[r].target].status = "ACTIVE"
       /\ membership[local[r].target].role = "ADMIN"

MemberReads(r) == RoleReads(r) /\ OwnerReads(r)

(* Who waits for approval has asked to be an employee. *)
Signups ==
  \A u \in Users : membership[u].status = "PENDING" =>
    membership[u].role = "EMPLOYEE" /\ user[u].role = "EMPLOYEE"

LEMMA NothingRead ==
  ASSUME NEW r \in Reqs, ~Deciding(r)'
  PROVE  MemberReads(r)'
BY DEF MemberReads, RoleReads, OwnerReads, Deciding

LEMMA StillOwners ==
  ASSUME ActiveOwners' = ActiveOwners, MoreThanOneActiveOwner
  PROVE  MoreThanOneActiveOwner'
BY DEF MoreThanOneActiveOwner

LEMMA SameMembers ==
  ASSUME UNCHANGED <<membership, user>>, NEW s \in Reqs, MemberReads(s),
         pc'[s] = pc[s], local'[s] = local[s]
  PROVE  MemberReads(s)'
<1>1. MoreThanOneActiveOwner => MoreThanOneActiveOwner'
  BY DEF MoreThanOneActiveOwner, ActiveOwners
<1> QED BY <1>1 DEF MemberReads, RoleReads, OwnerReads

(* A user who was not let in yet changes: a signup, its approval or its    *)
(* rejection.  No request has read more of that user than the User's role. *)
LEMMA SignupMoves ==
  ASSUME Shape, LockedOut, NEW u \in Users, ~LetIn(membership[u]),
         \A v \in Users \ {u} : membership'[v] = membership[v] /\ user'[v] = user[v],
         user[u].status # "none" => user'[u].role = user[u].role /\ user'[u].status # "none",
         ActiveOwners' = ActiveOwners,
         NEW s \in Reqs, MemberReads(s), pc'[s] = pc[s], local'[s] = local[s]
  PROVE  MemberReads(s)'
<1>1. MoreThanOneActiveOwner => MoreThanOneActiveOwner'
  BY StillOwners
<1>2. RoleReads(s)'
  <2>1. pc[s] \in {"role.membership", "role.check", "role.commit"} => local[s].target \in Users
    BY DEF Shape, Arguments, RolePoints
  <2>2. pc[s] \in {"role.check", "role.commit"} => local[s].target # u
    BY DEF MemberReads, RoleReads, LetIn
  <2> QED BY <2>1, <2>2 DEF MemberReads, RoleReads
<1>3. OwnerReads(s)'
  <2>1. /\ pc[s] \in {"accept.to", "accept.commit"} => local[s].actor \in Users \ {u}
        /\ pc[s] = "accept.commit" => local[s].target \in Users \ {u}
        /\ pc[s] = "status.commit" => local[s].target \in Users \ {u}
    BY DEF MemberReads, OwnerReads, LockedOut, SettledTarget, LetIn, Shape, Arguments,
           AcceptPoints, StatusPoints
  <2> QED BY <1>1, <2>1 DEF MemberReads, OwnerReads
<1> QED BY <1>2, <1>3 DEF MemberReads

(* A signup takes a user who was not there.                                *)
LEMMA JoinsAlone ==
  ASSUME Shape, LockedOut, NEW u \in Users, NEW role \in StaffRoles,
         NEW s \in {"PENDING", "ACTIVE"}, Join(u, role, s)
  PROVE  /\ membership[u].status = "none" /\ user[u].status = "none"
         /\ membership'[u].status = s /\ membership'[u].role = role /\ user'[u].role = role
         /\ s = "PENDING" => role = "EMPLOYEE"
         /\ \A v \in Users \ {u} : membership'[v] = membership[v] /\ user'[v] = user[v]
         /\ ActiveOwners' = ActiveOwners
         /\ UNCHANGED <<honoured, transfer, pc, local>>
<1>1. /\ membership[u].status = "none" /\ user[u].status = "none"
      /\ membership'[u].status = s /\ membership'[u].role = role /\ user'[u].role = role
      /\ s = "PENDING" => role = "EMPLOYEE"
      /\ \A v \in Users \ {u} : membership'[v] = membership[v] /\ user'[v] = user[v]
      /\ UNCHANGED <<honoured, transfer, pc, local>>
  BY DEF Join, Shape, TypeOK, LockedOut, DiscontinuedLocksOut
<1> QED BY <1>1 DEF ActiveOwners, StaffRoles

(* An approval or a rejection takes a user who waits. *)
LEMMA SettlesSignup ==
  ASSUME Shape, LockedOut, Signups, NEW r \in Reqs, CommitApprove(r) \/ CommitReject(r)
  PROVE  LET u == local[r].target IN
         /\ u \in Users /\ membership[u].status = "PENDING" /\ membership[u].role = "EMPLOYEE"
         /\ user[u].role = "EMPLOYEE"
         /\ membership'[u].role = "EMPLOYEE" /\ user'[u].role = "EMPLOYEE"
         /\ membership'[u].status # "PENDING" /\ user'[u].status # "none"
         /\ \A v \in Users \ {u} : membership'[v] = membership[v] /\ user'[v] = user[v]
         /\ ActiveOwners' = ActiveOwners
<1> DEFINE u == local[r].target
<1>0. membership \in [Users -> Memberships] /\ user \in [Users -> UserRows]
  BY DEF Shape, TypeOK
<1>1. u \in Users /\ membership[u].status = "PENDING"
  BY DEF CommitApprove, CommitReject, Shape, Arguments, OneUserPoints
<1>2. membership[u].role = "EMPLOYEE" /\ user[u].role = "EMPLOYEE"
  BY <1>1 DEF Signups
<1>3. /\ membership'[u].role = "EMPLOYEE" /\ user'[u].role = "EMPLOYEE"
      /\ membership'[u].status # "PENDING" /\ user'[u].status # "none"
      /\ \A v \in Users \ {u} : membership'[v] = membership[v] /\ user'[v] = user[v]
  <2>1. CASE CommitApprove(r)
    BY <1>0, <1>1, <1>2, <2>1 DEF CommitApprove, Memberships, UserRows
  <2>2. CASE CommitReject(r)
    BY <1>0, <1>1, <2>2 DEF CommitReject, NoMembership, NoUserRow
  <2> QED BY <2>1, <2>2
<1>4. ActiveOwners' = ActiveOwners
  BY <1>1, <1>2, <1>3 DEF ActiveOwners
<1> QED BY <1>1, <1>2, <1>3, <1>4

LEMMA MemberReadsKept ==
  ASSUME ChangesApart, Shape, LockedOut, Signups, \A s \in Reqs : MemberReads(s), [Next]_vars
  PROVE  \A s \in Reqs : MemberReads(s)'
<1>0. /\ membership \in [Users -> Memberships] /\ user \in [Users -> UserRows]
      /\ pc \in [Reqs -> Points] /\ local \in [Reqs -> Locals] /\ TypeOK
  BY DEF Shape, TypeOK
<1>1. ASSUME NEW r \in Reqs, Start(r) \/ Fail(r), NEW s \in Reqs PROVE MemberReads(s)'
  <2>1. pc'[r] \in FirstPoints /\ UNCHANGED data
    BY <1>0, <1>1, StartPoint
  <2>2. CASE s = r
    BY <2>1, <2>2, NothingRead DEF FirstPoints, Deciding
  <2>3. CASE s # r
    BY <1>0, <1>1, <2>1, <2>3, OtherSlots, SameMembers DEF data
  <2> QED BY <2>2, <2>3
<1>2. ASSUME NEW r \in Reqs, Writing(r), NEW s \in Reqs PROVE MemberReads(s)'
  <2>0. Step(r)
    BY <1>2 DEF Writing, Step
  <2>1. CASE s = r
    BY <1>0, <1>2, <2>1, WritingEnds, NothingRead DEF Deciding
  <2>2. CASE s # r
    <3>0. pc'[s] = pc[s] /\ local'[s] = local[s]
      BY <1>0, <2>0, <2>2, OtherSlots
    <3>1. CASE CommitStatus(r) \/ CommitRole(r) \/ CommitAccept(r)
      <4>1. Deciding(r)
        BY <3>1 DEF CommitStatus, CommitRole, CommitAccept, Deciding
      <4>2. ~Deciding(s)'
        BY <2>2, <3>0, <4>1 DEF ChangesApart, Deciding
      <4> QED BY <4>2, NothingRead
    <3>2. CASE CommitApprove(r) \/ CommitReject(r)
      <4> DEFINE u == local[r].target
      <4>1. /\ u \in Users /\ membership[u].status = "PENDING" /\ user[u].role = "EMPLOYEE"
            /\ user'[u].role = "EMPLOYEE" /\ user'[u].status # "none"
            /\ \A v \in Users \ {u} : membership'[v] = membership[v] /\ user'[v] = user[v]
            /\ ActiveOwners' = ActiveOwners
        BY <3>2, SettlesSignup
      <4>2. ~LetIn(membership[u])
        BY <4>1 DEF LetIn
      <4> HIDE DEF u
      <4> QED BY <3>0, <4>1, <4>2, SignupMoves
    <3>3. CASE CommitCancel(r) \/ \E t \in Transfers : CreateTransfer(r, t)
      BY <3>0, <3>3, SameMembers DEF CommitCancel, CreateTransfer
    <3> QED BY <1>2, <3>1, <3>2, <3>3 DEF Writing
  <2> QED BY <2>1, <2>2
<1>3. ASSUME NEW r \in Reqs, RetireOpen(r), NEW s \in Reqs PROVE MemberReads(s)'
  <2>1. CASE s = r
    <3>1. pc'[r] = "nominate.create"
      BY <1>0, <1>3 DEF RetireOpen, Go
    <3> QED BY <2>1, <3>1, NothingRead DEF Deciding
  <2>2. CASE s # r
    BY <1>0, <1>3, <2>2, OtherSlots, SameMembers DEF RetireOpen, Step
  <2> QED BY <2>1, <2>2
<1>4. ASSUME NEW r \in Reqs, Reading(r), NEW s \in Reqs \ {r} PROVE MemberReads(s)'
  <2>1. UNCHANGED data /\ Step(r)
    BY <1>4, ReadingIsQuiet DEF Reading, Step
  <2> QED BY <1>0, <2>1, OtherSlots, SameMembers DEF data
<1>5. ASSUME NEW r \in Reqs, Reading(r) PROVE MemberReads(r)'
  <2>0. UNCHANGED data
    BY <1>5, ReadingIsQuiet
  <2>r. RoleReads(r) /\ OwnerReads(r)
    BY DEF MemberReads
  <2>s. ActiveOwners' = ActiveOwners /\ (MoreThanOneActiveOwner => MoreThanOneActiveOwner')
    BY <2>0 DEF ActiveOwners, MoreThanOneActiveOwner, data
  <2>q. SUFFICES RoleReads(r)' /\ OwnerReads(r)'
    BY DEF MemberReads
  <2>1. CASE ReadForStatus(r)
    <3>1. /\ pc'[r] \in {"status.check", "status.commit"} /\ local' = local
          /\ pc'[r] = "status.commit" /\ local[r].arg = "INACTIVE" =>
               membership[local[r].target].role # "OWNER"
      BY <1>0, <2>1 DEF ReadForStatus, Go
    <3> QED BY <2>0, <3>1 DEF RoleReads, OwnerReads, data
  <2>2. CASE CheckOwnerForStatus(r)
    <3>1. pc'[r] = "status.commit" /\ MoreThanOneActiveOwner'
      BY <1>0, <2>2, <2>s DEF CheckOwnerForStatus, Go
    <3> QED BY <3>1 DEF RoleReads, OwnerReads
  <2>3. CASE ReadUserForRole(r)
    <3>1. /\ pc'[r] = "role.membership" /\ local'[r].target = local[r].target
          /\ local'[r].seenRole = user[local[r].target].role
          /\ user[local[r].target].status # "none"
      BY <1>0, <2>3 DEF ReadUserForRole, Go, Locals
    <3> QED BY <2>0, <3>1 DEF RoleReads, OwnerReads, data
  <2>4. CASE ReadMembershipForRole(r)
    <3>1. /\ pc[r] = "role.membership" /\ pc'[r] \in {"role.check", "role.commit"}
          /\ local'[r].target = local[r].target /\ local'[r].seenRole = local[r].seenRole
          /\ local'[r].seen = membership[local[r].target]
          /\ membership[local[r].target].status = "ACTIVE"
      BY <1>0, <2>4 DEF ReadMembershipForRole, Locals, Go
    <3>2. local[r].arg # "OWNER"
      BY <3>1 DEF Shape, Arguments, RolePoints, StaffRoles
    <3>3. pc'[r] = "role.commit" => local'[r].seen.role # "OWNER"
      BY <1>0, <2>4, <3>1, <3>2 DEF ReadMembershipForRole, Go
    <3> QED BY <2>0, <2>r, <3>1, <3>3 DEF RoleReads, OwnerReads, data
  <2>5. CASE CheckOwnerForRole(r)
    <3>1. pc[r] = "role.check" /\ local' = local /\ pc'[r] = "role.commit" /\ MoreThanOneActiveOwner'
      BY <1>0, <2>5, <2>s DEF CheckOwnerForRole, Go
    <3> QED BY <2>0, <2>r, <3>1 DEF RoleReads, OwnerReads, data
  <2>6. CASE ReadUserForApprove(r) \/ ReadUserForReject(r) \/ ReadNominee(r)
             \/ \E t \in Transfers : ReadTransfer(r, t)
    <3>1. pc'[r] \in {"approve.commit", "reject.commit", "nominate.retire", "accept.from"}
      BY <1>0, <2>6
         DEF ReadUserForApprove, ReadUserForReject, ReadNominee, ReadTransfer, Begin, Go
    <3> QED BY <3>1 DEF RoleReads, OwnerReads
  <2>7. CASE ReadFrom(r)
    <3>1. /\ pc[r] = "accept.from" /\ pc'[r] = "accept.to" /\ local' = local
          /\ membership[local[r].actor].status = "ACTIVE" /\ membership[local[r].actor].role = "OWNER"
      BY <1>0, <2>7 DEF ReadFrom, Go
    <3> QED BY <2>0, <2>r, <3>1 DEF RoleReads, OwnerReads, data
  <2>8. CASE ReadTo(r)
    <3>1. /\ pc[r] = "accept.to" /\ pc'[r] = "accept.commit" /\ local' = local
          /\ membership[local[r].target].status = "ACTIVE" /\ membership[local[r].target].role = "ADMIN"
      BY <1>0, <2>8 DEF ReadTo, Go
    <3> QED BY <2>0, <2>r, <3>1 DEF RoleReads, OwnerReads, data
  <2> QED BY <1>5, <2>1, <2>2, <2>3, <2>4, <2>5, <2>6, <2>7, <2>8 DEF Reading
<1>6. ASSUME NEW u \in Users, NEW role \in StaffRoles, NEW q \in {"PENDING", "ACTIVE"},
             Join(u, role, q), NEW s \in Reqs PROVE MemberReads(s)'
  <2>1. /\ membership[u].status = "none" /\ user[u].status = "none"
        /\ \A v \in Users \ {u} : membership'[v] = membership[v] /\ user'[v] = user[v]
        /\ ActiveOwners' = ActiveOwners
        /\ UNCHANGED <<honoured, transfer, pc, local>>
    BY <1>6, JoinsAlone
  <2>2. ~LetIn(membership[u])
    BY <2>1 DEF LetIn
  <2> QED BY <2>1, <2>2, SignupMoves
<1>7. ASSUME NEW s \in Reqs,
             \/ \E u \in Users : Login(u)
             \/ \E t \in Transfers : Expire(t)
             \/ UNCHANGED vars
      PROVE MemberReads(s)'
  BY <1>7, SameMembers DEF Login, Expire, vars
<1> QED
  <2> SUFFICES ASSUME NEW s \in Reqs PROVE MemberReads(s)'
    OBVIOUS
  <2>1. ASSUME NEW r \in Reqs, Start(r) \/ Step(r) \/ Fail(r) PROVE MemberReads(s)'
    <3>1. CASE s = r
      BY <1>1, <1>2, <1>3, <1>5, <2>1, <3>1, StepsSplit
    <3>2. CASE s # r
      BY <1>1, <1>2, <1>3, <1>4, <2>1, <3>2, StepsSplit
    <3> QED BY <3>1, <3>2
  <2> QED BY <1>6, <1>7, <2>1 DEF Next

-----------------------------------------------------------------------------
(* The two copies of a member's role, and the owners.                      *)

Owners == {u \in Users : membership[u].role = "OWNER"}

OwnersBounded == IsFiniteSet(Owners) /\ Cardinality(Owners) <= Cardinality(FirstOwners)

LEMMA FewerOwners ==
  ASSUME OwnersBounded, Owners' \subseteq Owners
  PROVE  OwnersBounded'
<1>1. Cardinality(Owners') <= Cardinality(Owners) /\ IsFiniteSet(Owners')
  BY FS_Subset DEF OwnersBounded
<1>2. /\ Cardinality(Owners) \in Nat /\ Cardinality(Owners') \in Nat
      /\ Cardinality(FirstOwners) \in Nat
  BY <1>1, FS_CardinalityType, OrgAssumption DEF OwnersBounded
<1> QED BY <1>1, <1>2 DEF OwnersBounded

LEMMA OwnersSwapped ==
  ASSUME OwnersBounded, NEW from \in Owners, NEW to, to \notin Owners,
         Owners' = (Owners \ {from}) \union {to}
  PROVE  OwnersBounded'
<1>1. /\ IsFiniteSet(Owners \ {from})
      /\ Cardinality(Owners \ {from}) = Cardinality(Owners) - 1
  BY FS_RemoveElement DEF OwnersBounded
<1>2. /\ IsFiniteSet(Owners') /\ Cardinality(Owners') = Cardinality(Owners \ {from}) + 1
  BY <1>1, FS_AddElement
<1>3. Cardinality(Owners) \in Nat
  BY FS_CardinalityType DEF OwnersBounded
<1> QED BY <1>1, <1>2, <1>3 DEF OwnersBounded

RowsInStep == RolesAgree /\ AtLeastOneActiveOwner /\ OwnersBounded /\ Signups

LEMMA RowsKept ==
  ASSUME Shape, LockedOut, \A s \in Reqs : MemberReads(s), RowsInStep, [Next]_vars
  PROVE  RowsInStep'
<1> USE DEF RowsInStep
<1>0. /\ membership \in [Users -> Memberships] /\ user \in [Users -> UserRows]
      /\ pc \in [Reqs -> Points] /\ local \in [Reqs -> Locals] /\ TypeOK
  BY DEF Shape, TypeOK
<1>q. ASSUME UNCHANGED <<membership, user>> PROVE RowsInStep'
  BY <1>q DEF RolesAgree, AtLeastOneActiveOwner, ActiveOwners, OwnersBounded, Owners, Signups
<1>1. ASSUME NEW r \in Reqs, Start(r) \/ Fail(r) \/ Reading(r) \/ RetireOpen(r) PROVE RowsInStep'
  BY <1>0, <1>1, <1>q, StartPoint, ReadingIsQuiet DEF data, RetireOpen
<1>2. ASSUME NEW r \in Reqs, Writing(r) PROVE RowsInStep'
  <2> DEFINE u == local[r].target
  <2>r. RoleReads(r) /\ OwnerReads(r)
    BY DEF MemberReads
  <2>1. CASE CommitStatus(r)
    <3>1. u \in Users /\ local[r].arg \in {"ACTIVE", "INACTIVE"} /\ pc[r] = "status.commit"
      BY <2>1 DEF CommitStatus, Shape, Arguments, StatusPoints
    <3>2. /\ \A v \in Users : membership'[v].role = membership[v].role
          /\ \A v \in Users : user'[v].role = user[v].role
          /\ \A v \in Users : membership'[v].status =
                               IF v = u THEN local[r].arg ELSE membership[v].status
      BY <1>0, <2>1, <3>1 DEF CommitStatus, Memberships, UserRows
    <3>3. ActiveOwners' # {}
      <4>1. CASE u \in ActiveOwners /\ local[r].arg = "INACTIVE"
        <5>1. PICK v, w \in ActiveOwners : v # w
          BY <2>r, <3>1, <4>1 DEF OwnerReads, ActiveOwners, MoreThanOneActiveOwner
        <5> QED BY <3>2, <5>1 DEF ActiveOwners
      <4>2. CASE ~(u \in ActiveOwners /\ local[r].arg = "INACTIVE")
        <5>1. PICK v \in ActiveOwners : TRUE
          BY DEF AtLeastOneActiveOwner
        <5>2. v \in ActiveOwners'
          BY <3>1, <3>2, <4>2, <5>1 DEF ActiveOwners
        <5> QED BY <5>2
      <4> QED BY <4>1, <4>2
    <3>4. Owners' = Owners
      BY <3>2 DEF Owners
    <3>5. Signups'
      BY <3>1, <3>2 DEF Signups
    <3> QED BY <3>2, <3>3, <3>4, <3>5 DEF RolesAgree, AtLeastOneActiveOwner, OwnersBounded
  <2>2. CASE CommitRole(r)
    <3>1. /\ u \in Users /\ local[r].arg \in StaffRoles /\ local[r].seen = membership[u]
          /\ local[r].seenRole = user[u].role /\ pc[r] = "role.commit"
          /\ membership[u].status = "ACTIVE"
      BY <2>2, <2>r DEF CommitRole, RoleReads, Shape, Arguments, RolePoints
    <3>2. \A v \in Users : /\ membership'[v].role =
                               IF v = u THEN local[r].arg ELSE membership[v].role
                           /\ membership'[v].status = membership[v].status
      BY <1>0, <2>2, <3>1 DEF CommitRole, Memberships
    <3>3. \A v \in Users : user'[v].role = IF v = u THEN local[r].arg ELSE user[v].role
      BY <1>0, <2>2, <3>1 DEF CommitRole, UserAfterRole, UserRows
    <3>4. ActiveOwners' # {}
      <4>1. CASE membership[u].role = "OWNER"
        <5>1. PICK v, w \in ActiveOwners : v # w
          BY <2>r, <3>1, <4>1 DEF OwnerReads, MoreThanOneActiveOwner
        <5> QED BY <3>2, <5>1 DEF ActiveOwners
      <4>2. CASE membership[u].role # "OWNER"
        <5>1. PICK v \in ActiveOwners : TRUE
          BY DEF AtLeastOneActiveOwner
        <5>2. v \in ActiveOwners'
          BY <3>2, <4>2, <5>1 DEF ActiveOwners
        <5> QED BY <5>2
      <4> QED BY <4>1, <4>2
    <3>5. Owners' \subseteq Owners
      BY <3>1, <3>2 DEF Owners, StaffRoles
    <3>6. Signups'
      BY <3>1, <3>2, <3>3 DEF Signups
    <3> QED BY <3>2, <3>3, <3>4, <3>5, <3>6, FewerOwners DEF RolesAgree, AtLeastOneActiveOwner
  <2>3. CASE CommitApprove(r) \/ CommitReject(r)
    <3>1. /\ u \in Users /\ membership[u].role = "EMPLOYEE"
          /\ membership'[u].role = "EMPLOYEE" /\ user'[u].role = "EMPLOYEE"
          /\ \A v \in Users \ {u} : membership'[v] = membership[v] /\ user'[v] = user[v]
          /\ ActiveOwners' = ActiveOwners
      BY <2>3, SettlesSignup
    <3> HIDE DEF u
    <3>2. Owners' = Owners
      BY <3>1 DEF Owners
    <3>3. RolesAgree' /\ Signups'
      BY <3>1 DEF RolesAgree, Signups
    <3> QED BY <3>1, <3>2, <3>3 DEF AtLeastOneActiveOwner, OwnersBounded
  <2>4. CASE CommitAccept(r)
    <3> DEFINE from == local[r].actor
    <3>1. /\ from \in Users /\ u \in Users /\ from # u /\ user' = user
          /\ membership[from].role = "OWNER" /\ membership[from].status = "ACTIVE"
          /\ membership[u].role = "ADMIN" /\ membership[u].status = "ACTIVE"
      BY <2>4, <2>r
         DEF CommitAccept, UserAfterAccept, OwnerReads, Shape, Arguments, AcceptPoints
    <3>2. \A v \in Users : /\ membership'[v].role = IF v = u THEN "OWNER"
                               ELSE IF v = from THEN "ADMIN" ELSE membership[v].role
                           /\ membership'[v].status = membership[v].status
      BY <1>0, <2>4, <3>1 DEF CommitAccept, Memberships
    <3>3. RolesAgree'
      BY <3>1, <3>2 DEF RolesAgree
    <3>4. u \in ActiveOwners'
      BY <3>1, <3>2 DEF ActiveOwners
    <3>5. from \in Owners /\ u \notin Owners /\ Owners' = (Owners \ {from}) \union {u}
      BY <3>1, <3>2 DEF Owners
    <3>6. OwnersBounded'
      BY <3>5, OwnersSwapped
    <3>7. Signups'
      BY <3>1, <3>2 DEF Signups
    <3> QED BY <3>3, <3>4, <3>6, <3>7 DEF AtLeastOneActiveOwner
  <2>5. CASE CommitCancel(r) \/ \E t \in Transfers : CreateTransfer(r, t)
    BY <1>q, <2>5 DEF CommitCancel, CreateTransfer
  <2> QED BY <1>2, <2>1, <2>2, <2>3, <2>4, <2>5 DEF Writing
<1>3. ASSUME NEW u \in Users, Login(u) PROVE RowsInStep'
  BY <1>3, <1>q DEF Login
<1>4. ASSUME NEW u \in Users, NEW role \in StaffRoles, NEW s \in {"PENDING", "ACTIVE"},
             Join(u, role, s) PROVE RowsInStep'
  <2>1. /\ membership[u].status = "none"
        /\ membership'[u].role = role /\ user'[u].role = role
        /\ membership'[u].status = "PENDING" => role = "EMPLOYEE"
        /\ \A v \in Users \ {u} : membership'[v] = membership[v] /\ user'[v] = user[v]
        /\ ActiveOwners' = ActiveOwners
    BY <1>4, JoinsAlone
  <2>2. Owners' \subseteq Owners
    BY <2>1 DEF Owners, StaffRoles
  <2>3. RolesAgree' /\ Signups'
    BY <2>1 DEF RolesAgree, Signups
  <2> QED BY <2>1, <2>2, <2>3, FewerOwners DEF AtLeastOneActiveOwner
<1>5. ASSUME NEW t \in Transfers, Expire(t) PROVE RowsInStep'
  BY <1>5, <1>q DEF Expire
<1>6. CASE UNCHANGED vars
  BY <1>6, <1>q DEF vars
<1> QED BY <1>1, <1>2, <1>3, <1>4, <1>5, <1>6, StepsSplit DEF Next

(* In every execution in which the windows of such requests do not overlap *)
(* an owner is left, and the two copies of a role agree.                   *)
LEMMA RowsInvariant == Spec /\ []ChangesApart => []RowsInStep
<1>1. Init => (\A s \in Reqs : MemberReads(s)) /\ RowsInStep
  <2> SUFFICES ASSUME Init PROVE (\A s \in Reqs : MemberReads(s)) /\ RowsInStep
    OBVIOUS
  <2>1. \A s \in Reqs : MemberReads(s)
    BY DEF Init, MemberReads, RoleReads, OwnerReads
  <2>2. \A u \in Users :
          /\ u \in FirstOwners => /\ membership[u].role = "OWNER" /\ membership[u].status = "ACTIVE"
                                  /\ user[u].role = "ADMIN"
          /\ u \notin FirstOwners => /\ membership[u].role = "EMPLOYEE" /\ user[u].role = "EMPLOYEE"
                                     /\ membership[u].status = "none"
    BY DEF Init, NoMembership, NoUserRow
  <2>3. Owners = FirstOwners /\ FirstOwners \subseteq ActiveOwners
    BY <2>2, OrgAssumption DEF Owners, ActiveOwners
  <2>4. OwnersBounded
    BY <2>3, FS_CardinalityType, OrgAssumption DEF OwnersBounded
  <2> QED BY <2>1, <2>2, <2>3, <2>4, OrgAssumption
         DEF RowsInStep, RolesAgree, AtLeastOneActiveOwner, Signups
<1>2. /\ ChangesApart /\ Shape /\ LockedOut /\ (\A s \in Reqs : MemberReads(s)) /\ RowsInStep
      /\ [Next]_vars
      => ((\A s \in Reqs : MemberReads(s)) /\ RowsInStep)'
  BY MemberReadsKept, RowsKept DEF RowsInStep
<1> QED BY <1>1, <1>2, ShapeInvariant, LockedOutInvariant, PTL DEF Spec

(* "An org always has at least one ACTIVE OWNER": as long as no two        *)
(* requests that change a member or the owner are between first read and   *)
(* commit at once (any number of users, transfers and requests, other      *)
(* requests in any order between their statements), an owner is left       *)
(* whoever resigns, is discontinued or hands over, and there are never     *)
(* more owners than at first.                                              *)
THEOREM OwnershipStays == Spec /\ []ChangesApart => []OwnershipKept
<1>1. RowsInStep => OwnershipKept
  BY DEF RowsInStep, OwnershipKept, OwnersBounded, Owners
<1> QED BY <1>1, RowsInvariant, PTL

(* As long as no two such requests overlap, User.role and Membership.role  *)
(* put a member on the same side of the line between admins and employees. *)
THEOREM RolesStayInStep == Spec /\ []ChangesApart => []RolesAgree
<1>1. RowsInStep => RolesAgree
  BY DEF RowsInStep
<1> QED BY <1>1, RowsInvariant, PTL

-----------------------------------------------------------------------------
(* The transfers.                                                          *)

(* What a request has read of the transfers, or done to them, still holds. *)
TransferReads(r) ==
  /\ pc[r] \in AcceptPoints => Open(local[r].transfer)
  /\ pc[r] = "nominate.create" => \A t \in Transfers : ~Open(t)

TransfersInStep == TransfersSettleOnce /\ \A r \in Reqs : TransferReads(r)

LEMMA TransfersKept ==
  ASSUME TransfersApart, Shape, TransfersInStep, [Next]_vars
  PROVE  TransfersInStep'
<1>0. /\ transfer \in [Transfers -> TransferRows]
      /\ pc \in [Reqs -> Points] /\ local \in [Reqs -> Locals] /\ TypeOK
      /\ \A r \in Reqs : pc[r] \in AcceptPoints => local[r].transfer \in Transfers
  BY DEF Shape, TypeOK, Arguments
<1>q. ASSUME \A t \in Transfers : /\ Open(t)' <=> Open(t)
                                  /\ transfer'[t].confirmed = transfer[t].confirmed
                                  /\ transfer'[t].cancelled = transfer[t].cancelled,
             \A s \in Reqs : \/ pc'[s] = pc[s] /\ local'[s] = local[s]
                             \/ pc'[s] \notin AcceptPoints \union {"nominate.create"}
      PROVE  TransfersInStep'
  BY <1>0, <1>q DEF TransfersInStep, TransfersSettleOnce, TransferReads
<1>a. ASSUME UNCHANGED transfer PROVE \A t \in Transfers :
        /\ Open(t)' <=> Open(t)
        /\ transfer'[t].confirmed = transfer[t].confirmed
        /\ transfer'[t].cancelled = transfer[t].cancelled
  BY <1>a DEF Open
<1>p. ASSUME NEW r \in Reqs, Settling(r), Step(r), NEW s \in Reqs \ {r} PROVE TransferReads(s)'
  <2>1. pc'[s] = pc[s] /\ ~Settling(s)
    BY <1>0, <1>p, OtherSlots DEF TransfersApart
  <2> QED BY <2>1 DEF Settling, TransferReads, AcceptPoints
<1>1. ASSUME NEW r \in Reqs, Start(r) \/ Fail(r) PROVE TransfersInStep'
  <2>1. UNCHANGED transfer /\ pc'[r] \in FirstPoints
    BY <1>0, <1>1, StartPoint DEF data
  <2>2. \A s \in Reqs \ {r} : pc'[s] = pc[s] /\ local'[s] = local[s]
    BY <1>0, <1>1, OtherSlots
  <2>3. pc'[r] \notin AcceptPoints \union {"nominate.create"}
    BY <2>1 DEF FirstPoints, AcceptPoints
  <2> QED BY <1>a, <1>q, <2>1, <2>2, <2>3
<1>2. ASSUME NEW r \in Reqs, Reading(r) PROVE TransfersInStep'
  <2>0. UNCHANGED transfer /\ \A s \in Reqs \ {r} : pc'[s] = pc[s] /\ local'[s] = local[s]
    BY <1>0, <1>2, ReadingIsQuiet, OtherSlots DEF data, Reading, Step
  <2>s. TransfersSettleOnce'
    BY <1>a, <2>0 DEF TransfersInStep, TransfersSettleOnce
  <2>o. \A s \in Reqs \ {r} : TransferReads(s)'
    BY <1>0, <1>a, <2>0 DEF TransfersInStep, TransferReads
  <2>1. CASE ReadFrom(r) \/ ReadTo(r)
    <3>1. pc[r] \in AcceptPoints /\ pc'[r] # "nominate.create" /\ local'[r] = local[r]
      BY <1>0, <2>1 DEF ReadFrom, ReadTo, Go, AcceptPoints
    <3>2. TransferReads(r)'
      BY <1>0, <1>a, <2>0, <3>1 DEF TransfersInStep, TransferReads
    <3> QED BY <2>s, <2>o, <3>2 DEF TransfersInStep
  <2>2. ASSUME NEW t \in Transfers, ReadTransfer(r, t) PROVE TransfersInStep'
    <3>1. pc'[r] = "accept.from" /\ local'[r].transfer = t /\ Open(t)
      BY <1>0, <2>2 DEF ReadTransfer, Begin, Go, NoLocals
    <3>2. TransferReads(r)'
      BY <1>a, <2>0, <3>1 DEF TransferReads
    <3> QED BY <2>s, <2>o, <3>2 DEF TransfersInStep
  <2>3. CASE ~(ReadFrom(r) \/ ReadTo(r)) /\ ~\E t \in Transfers : ReadTransfer(r, t)
    <3>1. pc'[r] \in {"status.check", "status.commit", "role.membership", "role.check",
                     "role.commit", "approve.commit", "reject.commit", "nominate.retire"}
      BY <1>0, <1>2, <2>3 DEF Reading, ReadForStatus, CheckOwnerForStatus, ReadUserForRole,
         ReadMembershipForRole, CheckOwnerForRole, ReadUserForApprove, ReadUserForReject,
         ReadNominee, Go
    <3>2. TransferReads(r)'
      BY <3>1 DEF TransferReads, AcceptPoints
    <3> QED BY <2>s, <2>o, <3>2 DEF TransfersInStep
  <2> QED BY <2>1, <2>2, <2>3
<1>3. ASSUME NEW r \in Reqs, RetireOpen(r) PROVE TransfersInStep'
  <2>1. /\ pc[r] = "nominate.retire" /\ pc'[r] = "nominate.create"
        /\ \A t \in Transfers : ~Open(t)'
    BY <1>0, <1>3 DEF RetireOpen, Go, Open, TransferRows
  <2>2. TransfersSettleOnce'
    BY <1>0, <1>3, <2>1
       DEF RetireOpen, Open, TransferRows, TransfersInStep, TransfersSettleOnce
  <2>3. TransferReads(r)'
    BY <2>1 DEF TransferReads, AcceptPoints
  <2>4. \A s \in Reqs \ {r} : TransferReads(s)'
    BY <1>3, <1>p, <2>1 DEF Settling, Step
  <2> QED BY <2>2, <2>3, <2>4 DEF TransfersInStep
<1>4. ASSUME NEW r \in Reqs, CommitCancel(r) \/ CommitAccept(r) \/ \E t \in Transfers : CreateTransfer(r, t)
      PROVE TransfersInStep'
  <2>0. Settling(r) /\ pc'[r] = "idle" /\ Step(r)
    BY <1>0, <1>4, WritingEnds
       DEF CommitCancel, CommitAccept, CreateTransfer, Settling, Step, Writing
  <2>1. \A s \in Reqs : TransferReads(s)'
    BY <1>p, <2>0 DEF TransferReads, AcceptPoints
  <2>2. TransfersSettleOnce'
    <3> USE DEF TransfersSettleOnce, TransfersInStep, Open
    <3>1. CASE CommitCancel(r)
      BY <1>0, <3>1 DEF CommitCancel, TransferRows
    <3>2. CASE CommitAccept(r)
      <4>1. local[r].transfer \in Transfers /\ Open(local[r].transfer)
        BY <1>0, <3>2 DEF CommitAccept, TransferReads, AcceptPoints
      <4>2. transfer' = [transfer EXCEPT ![local[r].transfer].confirmed = TRUE]
        BY <3>2 DEF CommitAccept
      <4> QED BY <1>0, <4>1, <4>2 DEF TransferRows
    <3>3. ASSUME NEW t \in Transfers, CreateTransfer(r, t) PROVE TransfersSettleOnce'
      <4>1. \A w \in Transfers : ~Open(w)
        BY <3>3 DEF CreateTransfer, TransferReads
      <4>2. \A w \in Transfers \ {t} : transfer'[w] = transfer[w]
        BY <1>0, <3>3 DEF CreateTransfer
      <4>3. ~transfer'[t].confirmed /\ ~transfer'[t].cancelled
        BY <1>0, <3>3 DEF CreateTransfer, NoTransferRow
      <4> QED BY <4>1, <4>2, <4>3
    <3> QED BY <1>4, <3>1, <3>2, <3>3
  <2> QED BY <2>1, <2>2 DEF TransfersInStep
<1>5. ASSUME NEW r \in Reqs, CommitStatus(r) \/ CommitRole(r) \/ CommitApprove(r) \/ CommitReject(r)
      PROVE TransfersInStep'
  <2>1. UNCHANGED transfer /\ pc'[r] = "idle"
    BY <1>0, <1>5, WritingEnds DEF CommitStatus, CommitRole, CommitApprove, CommitReject, Writing
  <2>2. \A s \in Reqs \ {r} : pc'[s] = pc[s] /\ local'[s] = local[s]
    BY <1>0, <1>5, OtherSlots DEF Step
  <2> QED BY <1>a, <1>q, <2>1, <2>2 DEF AcceptPoints
<1>6. ASSUME NEW t \in Transfers, Expire(t) PROVE TransfersInStep'
  <2>1. \A w \in Transfers : /\ Open(w)' <=> Open(w)
                             /\ transfer'[w].confirmed = transfer[w].confirmed
                             /\ transfer'[w].cancelled = transfer[w].cancelled
    BY <1>0, <1>6 DEF Expire, Open, TransferRows
  <2> QED BY <1>6, <1>q, <2>1 DEF Expire
<1>7. ASSUME \/ \E u \in Users : Login(u)
             \/ \E u \in Users, role \in StaffRoles, s \in {"PENDING", "ACTIVE"} : Join(u, role, s)
             \/ UNCHANGED vars
      PROVE TransfersInStep'
  BY <1>7, <1>a, <1>q DEF Login, Join, vars
<1> QED BY <1>1, <1>2, <1>3, <1>4, <1>5, <1>6, <1>7, StepsSplit DEF Next, Writing

(* As long as no two requests about the transfer of ownership are in       *)
(* flight at once, a transfer is confirmed or cancelled and never both,    *)
(* and no two are open.                                                    *)
THEOREM OneTransferAtATime == Spec /\ []TransfersApart => []TransfersSettleOnce
<1>1. Init => TransfersInStep
  BY DEF Init, TransfersInStep, TransfersSettleOnce, TransferReads, AcceptPoints, Open, NoTransferRow
<1>2. TransfersApart /\ Shape /\ TransfersInStep /\ [Next]_vars => TransfersInStep'
  BY TransfersKept
<1>3. TransfersInStep => TransfersSettleOnce
  BY DEF TransfersInStep
<1> QED BY <1>1, <1>2, <1>3, ShapeInvariant, PTL DEF Spec
=============================================================================
