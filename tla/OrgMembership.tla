---------------------------- MODULE OrgMembership ----------------------------
(***************************************************************************)
(* The members of one live organisation: who is in it, in which role, with *)
(* which employee code, and how ownership changes hands.                   *)
(*                                                                         *)
(* Every HTTP handler is a sequence of database statements.  A statement   *)
(* outside a transaction is one step.  A transaction runs at the isolation *)
(* level the code leaves it at, READ COMMITTED: each of its reads is a     *)
(* step of its own that sees whatever is committed by then, and all its    *)
(* writes become visible in one last step, the commit.  What a handler has *)
(* read is kept in its request slot, so it can be stale when it is used.   *)
(***************************************************************************)
EXTENDS Naturals, FiniteSets

CONSTANTS
  Users,       \* User rows, each used by at most one account
  FirstOwners, \* who owns the organisation at first: the user who signed it
               \* up, or the owners that two racing transfers have left it
  Reqs,        \* slots for the requests the server is handling
  Transfers,   \* OwnershipTransfer rows
  NoUser,      \* no user
  NoTransfer   \* no transfer

ASSUME OrgAssumption ==
  /\ FirstOwners \subseteq Users /\ FirstOwners # {} /\ IsFiniteSet(FirstOwners)
  /\ NoUser \notin Users
  /\ NoTransfer \notin Transfers

VARIABLES
  membership,  \* user -> its Membership row: status, role, employee code
  user,        \* user -> its User row: status, role
  honoured,    \* user -> is some session of it stamped with its tokenVersion?
  nextCode,    \* Organization.nextEmployeeCode
  transfer,    \* transfer -> its OwnershipTransfer row
  pc,          \* request -> the statement it will run next
  local        \* request -> its arguments and what it has read

vars == <<membership, user, honoured, nextCode, transfer, pc, local>>

-----------------------------------------------------------------------------

NoCode == 0                                  \* employeeCode NULL
Statuses == {"none", "PENDING", "ACTIVE", "INACTIVE", "deleted"}
OrgRoles == {"OWNER", "ADMIN", "EMPLOYEE"}
StaffRoles == {"ADMIN", "EMPLOYEE"}          \* the roles a User row can have

Memberships == [status : Statuses, role : OrgRoles, code : Nat]
UserRows == [status : Statuses, role : StaffRoles]

NoMembership == [status |-> "none", role |-> "EMPLOYEE", code |-> NoCode]
NoUserRow == [status |-> "none", role |-> "EMPLOYEE"]

TransferRows ==
  [created : BOOLEAN, confirmed : BOOLEAN, cancelled : BOOLEAN,
   expired : BOOLEAN, from : Users \union {NoUser}, to : Users \union {NoUser}]

NoTransferRow ==
  [created |-> FALSE, confirmed |-> FALSE, cancelled |-> FALSE,
   expired |-> FALSE, from |-> NoUser, to |-> NoUser]

(* The points at which a handler waits for the database. *)
Points ==
  {"idle", "status.read", "status.check", "status.commit",
   "role.user", "role.membership", "role.check", "role.commit",
   "approve.user", "approve.commit", "reject.user", "reject.commit",
   "nominate.read", "nominate.retire", "nominate.create", "cancel.commit",
   "accept.from", "accept.to", "accept.commit"}

Locals ==
  [actor : Users \union {NoUser}, target : Users \union {NoUser},
   arg : Statuses \union StaffRoles \union {"-"}, seen : Memberships,
   seenRole : StaffRoles, transfer : Transfers \union {NoTransfer}]

NoLocals ==
  [actor |-> NoUser, target |-> NoUser, arg |-> "-", seen |-> NoMembership,
   seenRole |-> "EMPLOYEE", transfer |-> NoTransfer]

Init ==
  /\ membership = [u \in Users |->
       IF u \in FirstOwners
       THEN [status |-> "ACTIVE", role |-> "OWNER", code |-> NoCode]
       ELSE NoMembership]
  /\ user = [u \in Users |->
       IF u \in FirstOwners THEN [status |-> "ACTIVE", role |-> "ADMIN"] ELSE NoUserRow]
  /\ honoured = [u \in Users |-> u \in FirstOwners]
  /\ nextCode = 1
  /\ transfer = [t \in Transfers |-> NoTransferRow]
  /\ pc = [r \in Reqs |-> "idle"]
  /\ local = [r \in Reqs |-> NoLocals]

-----------------------------------------------------------------------------
(* Helpers.                                                                *)

ActiveOwners ==
  {u \in Users : membership[u].status = "ACTIVE" /\ membership[u].role = "OWNER"}

(* assertOrgKeepsActiveOwner: the count of active owners is above one. *)
MoreThanOneActiveOwner == \E u, v \in ActiveOwners : u # v

(* JwtAdminGuard: an honoured session of an active user whose User row is  *)
(* an ADMIN one, with an active membership.                                *)
PassesAdminGuard(u) ==
  /\ honoured[u]
  /\ user[u].status = "ACTIVE" /\ user[u].role = "ADMIN"
  /\ membership[u].status = "ACTIVE"

(* PermissionGuard on "members.remove": owners and admins hold it. *)
MayManageMembers(u) == PassesAdminGuard(u) /\ membership[u].role \in {"OWNER", "ADMIN"}

(* PermissionGuard on "org.ownershipTransfer": only owners hold it. *)
MayTransfer(u) == PassesAdminGuard(u) /\ membership[u].role = "OWNER"

Go(r, point) == pc' = [pc EXCEPT ![r] = point]

Finish(r) ==
  /\ Go(r, "idle")
  /\ local' = [local EXCEPT ![r] = NoLocals]

(* A handler starts: the guards have let the request in. *)
Begin(r, point, locals) ==
  /\ pc[r] = "idle"
  /\ Go(r, point)
  /\ local' = [local EXCEPT ![r] = locals]

data == <<membership, user, honoured, nextCode, transfer>>

(* The handler throws, its transaction is rolled back, or the server dies: *)
(* nothing of it is written.  Every refusal the code answers is one of     *)
(* these.                                                                  *)
Fail(r) ==
  /\ pc[r] # "idle"
  /\ Finish(r)
  /\ UNCHANGED data

-----------------------------------------------------------------------------
(* Joining: createStaff by an admin (ACTIVE), by join code (PENDING), and  *)
(* the transaction of acceptInvite.  User and membership are created, and  *)
(* the code drawn from the counter, in one transaction that reads nothing  *)
(* else.                                                                   *)
NextEmployeeCode(role) == IF role = "EMPLOYEE" THEN nextCode ELSE NoCode

(* Faulty variant: the counter is read but not incremented. *)
SameCounter(draws) == nextCode

(* Organization.nextEmployeeCode after a transaction that draws a code. *)
CounterAfter(draws) == IF draws THEN nextCode + 1 ELSE nextCode

Join(u, role, status) ==
  /\ membership[u].status = "none"
  /\ status = "PENDING" => role = "EMPLOYEE"
  /\ membership' = [membership EXCEPT ![u] =
       [status |-> status, role |-> role, code |-> NextEmployeeCode(role)]]
  /\ user' = [user EXCEPT ![u] = [status |-> status, role |-> role]]
  /\ nextCode' = CounterAfter(role = "EMPLOYEE")
  /\ UNCHANGED <<honoured, transfer, pc, local>>

(* Login stamps a session with the current tokenVersion (see Sessions). *)
Login(u) ==
  /\ user[u].status = "ACTIVE" /\ membership[u].status = "ACTIVE"
  /\ ~honoured[u]
  /\ honoured' = [honoured EXCEPT ![u] = TRUE]
  /\ UNCHANGED <<membership, user, nextCode, transfer, pc, local>>

-----------------------------------------------------------------------------
(* setMemberStatus: discontinue or restore a member.                       *)

BeginSetStatus(r, actor, u, status) ==
  /\ MayManageMembers(actor)
  /\ status = "INACTIVE" => u # actor
  /\ Begin(r, "status.read", [NoLocals EXCEPT !.target = u, !.arg = status])
  /\ UNCHANGED data

(* Faulty variant: a signup that awaits approval can be restored. *)
AnyRow(m) == m.status \in {"PENDING", "ACTIVE", "INACTIVE"}

(* A membership whose status setMemberStatus may change. *)
LetIn(m) == m.status \in {"ACTIVE", "INACTIVE"}

(* Faulty variant: discontinuing leaves tokenVersion as it was. *)
SessionsKept(u, status) == honoured[u]

(* Discontinuing increments tokenVersion, restoring does not. *)
SessionsAfter(u, status) == honoured[u] /\ status # "INACTIVE"

(* The membership is read before the transaction opens; what it said about *)
(* ownership decides whether the transaction counts the owners.            *)
ReadForStatus(r) ==
  LET m == membership[local[r].target] IN
  /\ pc[r] = "status.read"
  /\ LetIn(m)
  /\ Go(r, IF local[r].arg = "INACTIVE" /\ m.role = "OWNER"
           THEN "status.check" ELSE "status.commit")
  /\ UNCHANGED <<data, local>>

CheckOwnerForStatus(r) ==
  /\ pc[r] = "status.check"
  /\ MoreThanOneActiveOwner
  /\ Go(r, "status.commit")
  /\ UNCHANGED <<data, local>>

CommitStatus(r) ==
  LET u == local[r].target
      s == local[r].arg IN
  /\ pc[r] = "status.commit"
  /\ membership' = [membership EXCEPT ![u].status = s]
  /\ user' = [user EXCEPT ![u].status = s]
  /\ honoured' = [honoured EXCEPT ![u] = SessionsAfter(u, s)]
  /\ Finish(r)
  /\ UNCHANGED <<nextCode, transfer>>

-----------------------------------------------------------------------------
(* adminUpdateUser with a role: JwtAdminGuard alone guards the route.      *)

BeginSetRole(r, actor, u, role) ==
  /\ PassesAdminGuard(actor)
  /\ Begin(r, "role.user", [NoLocals EXCEPT !.target = u, !.arg = role])
  /\ UNCHANGED data

ReadUserForRole(r) ==
  LET u == local[r].target IN
  /\ pc[r] = "role.user"
  /\ user[u].status \in {"PENDING", "ACTIVE", "INACTIVE"}
  /\ local' = [local EXCEPT ![r].seenRole = user[u].role]
  /\ Go(r, "role.membership")
  /\ UNCHANGED data

ReadMembershipForRole(r) ==
  LET m == membership[local[r].target] IN
  /\ pc[r] = "role.membership"
  /\ m.status = "ACTIVE"
  /\ local' = [local EXCEPT ![r].seen = m]
  /\ Go(r, IF local[r].arg # m.role /\ m.role = "OWNER"
           THEN "role.check" ELSE "role.commit")
  /\ UNCHANGED data

CheckOwnerForRole(r) ==
  /\ pc[r] = "role.check"
  /\ MoreThanOneActiveOwner
  /\ Go(r, "role.commit")
  /\ UNCHANGED <<data, local>>

(* Faulty variant: only the membership learns of the new role. *)
UserRoleKept(u, seenRole, role) == user

UserAfterRole(u, seenRole, role) ==
  IF role = seenRole THEN user ELSE [user EXCEPT ![u].role = role]

(* The membership changes when the role differs from the membership role   *)
(* that was read, the User row when it differs from the User role that was *)
(* read; the code that was read is written back, or a new one drawn.       *)
CommitRole(r) ==
  LET u     == local[r].target
      role  == local[r].arg
      seen  == local[r].seen
      draws == role # seen.role /\ role = "EMPLOYEE" /\ seen.code = NoCode
      code  == IF draws THEN nextCode ELSE seen.code
  IN
  /\ pc[r] = "role.commit"
  /\ membership' = IF role = seen.role THEN membership
                   ELSE [membership EXCEPT ![u].role = role, ![u].code = code]
  /\ user' = UserAfterRole(u, local[r].seenRole, role)
  /\ nextCode' = CounterAfter(draws)
  /\ Finish(r)
  /\ UNCHANGED <<honoured, transfer>>

-----------------------------------------------------------------------------
(* approveEmployee and rejectEmployee: both act on a membership that is    *)
(* still PENDING when the statement in the transaction runs.               *)

BeginApprove(r, actor, u) ==
  /\ PassesAdminGuard(actor)
  /\ Begin(r, "approve.user", [NoLocals EXCEPT !.target = u])
  /\ UNCHANGED data

ReadUserForApprove(r) ==
  LET row == user[local[r].target] IN
  /\ pc[r] = "approve.user"
  /\ row.status \in {"PENDING", "ACTIVE", "INACTIVE"} /\ row.role = "EMPLOYEE"
  /\ Go(r, "approve.commit")
  /\ UNCHANGED <<data, local>>

CommitApprove(r) ==
  LET u == local[r].target IN
  /\ pc[r] = "approve.commit"
  /\ membership[u].status = "PENDING"
  /\ membership' = [membership EXCEPT ![u].status = "ACTIVE"]
  /\ user' = [user EXCEPT ![u].status = "ACTIVE"]
  /\ Finish(r)
  /\ UNCHANGED <<honoured, nextCode, transfer>>

BeginReject(r, actor, u) ==
  /\ PassesAdminGuard(actor)
  /\ Begin(r, "reject.user", [NoLocals EXCEPT !.target = u])
  /\ UNCHANGED data

ReadUserForReject(r) ==
  LET row == user[local[r].target] IN
  /\ pc[r] = "reject.user"
  /\ row.status = "PENDING" /\ row.role = "EMPLOYEE"
  /\ Go(r, "reject.commit")
  /\ UNCHANGED <<data, local>>

CommitReject(r) ==
  LET u == local[r].target IN
  /\ pc[r] = "reject.commit"
  /\ membership[u].status = "PENDING"
  /\ membership' = [membership EXCEPT ![u] = [NoMembership EXCEPT !.status = "deleted"]]
  /\ user' = [user EXCEPT ![u] = [NoUserRow EXCEPT !.status = "deleted"]]
  /\ Finish(r)
  /\ UNCHANGED <<honoured, nextCode, transfer>>

-----------------------------------------------------------------------------
(* Ownership transfer: nominate, cancel, accept.                           *)

Open(t) == transfer[t].created /\ ~transfer[t].confirmed /\ ~transfer[t].cancelled

BeginNominate(r, actor, u) ==
  /\ MayTransfer(actor)
  /\ u # actor
  /\ Begin(r, "nominate.read", [NoLocals EXCEPT !.actor = actor, !.target = u])
  /\ UNCHANGED data

ReadNominee(r) ==
  LET m == membership[local[r].target] IN
  /\ pc[r] = "nominate.read"
  /\ m.status = "ACTIVE" /\ m.role = "ADMIN"
  /\ Go(r, "nominate.retire")
  /\ UNCHANGED <<data, local>>

(* Faulty variant: earlier transfers stay open. *)
RetireNone(r) ==
  /\ pc[r] = "nominate.retire"
  /\ Go(r, "nominate.create")
  /\ UNCHANGED <<data, local>>

(* Only one live transfer per org at a time: retire any earlier one. *)
RetireOpen(r) ==
  /\ pc[r] = "nominate.retire"
  /\ transfer' = [t \in Transfers |->
       IF Open(t) THEN [transfer[t] EXCEPT !.cancelled = TRUE] ELSE transfer[t]]
  /\ Go(r, "nominate.create")
  /\ UNCHANGED <<membership, user, honoured, nextCode, local>>

CreateTransfer(r, t) ==
  /\ pc[r] = "nominate.create"
  /\ ~transfer[t].created
  /\ transfer' = [transfer EXCEPT ![t] =
       [NoTransferRow EXCEPT !.created = TRUE, !.from = local[r].actor,
                             !.to = local[r].target]]
  /\ Finish(r)
  /\ UNCHANGED <<membership, user, honoured, nextCode>>

BeginCancel(r, actor, t) ==
  /\ MayTransfer(actor)
  /\ Begin(r, "cancel.commit", [NoLocals EXCEPT !.transfer = t])
  /\ UNCHANGED data

CommitCancel(r) ==
  LET t == local[r].transfer IN
  /\ pc[r] = "cancel.commit"
  /\ Open(t)
  /\ transfer' = [transfer EXCEPT ![t].cancelled = TRUE]
  /\ Finish(r)
  /\ UNCHANGED <<membership, user, honoured, nextCode>>

(* Seven days pass; what becomes of a closed transfer then is not observed. *)
Expire(t) ==
  /\ Open(t) /\ ~transfer[t].expired
  /\ transfer' = [transfer EXCEPT ![t].expired = TRUE]
  /\ UNCHANGED <<membership, user, honoured, nextCode, pc, local>>

(* acceptTransfer is public: holding the link is enough.  The record is    *)
(* read before the transaction opens, the two memberships inside it.       *)
ReadTransfer(r, t) ==
  /\ Open(t) /\ ~transfer[t].expired
  /\ Begin(r, "accept.from", [NoLocals EXCEPT !.transfer = t,
             !.actor = transfer[t].from, !.target = transfer[t].to])
  /\ UNCHANGED data

ReadFrom(r) ==
  LET m == membership[local[r].actor] IN
  /\ pc[r] = "accept.from"
  /\ m.status = "ACTIVE" /\ m.role = "OWNER"
  /\ Go(r, "accept.to")
  /\ UNCHANGED <<data, local>>

(* Faulty variant: the nominee may have been discontinued since. *)
ReadToRole(r) ==
  /\ pc[r] = "accept.to"
  /\ membership[local[r].target].role = "ADMIN"
  /\ Go(r, "accept.commit")
  /\ UNCHANGED <<data, local>>

ReadTo(r) ==
  LET m == membership[local[r].target] IN
  /\ pc[r] = "accept.to"
  /\ m.status = "ACTIVE" /\ m.role = "ADMIN"
  /\ Go(r, "accept.commit")
  /\ UNCHANGED <<data, local>>

(* User.role is ADMIN for owners and admins alike: a swap leaves it alone. *)
UserAfterAccept(from, to) == user

CommitAccept(r) ==
  LET from == local[r].actor
      to   == local[r].target IN
  /\ pc[r] = "accept.commit"
  /\ membership' = [membership EXCEPT ![from].role = "ADMIN", ![to].role = "OWNER"]
  /\ honoured' = [honoured EXCEPT ![from] = FALSE, ![to] = FALSE]
  /\ transfer' = [transfer EXCEPT ![local[r].transfer].confirmed = TRUE]
  /\ user' = UserAfterAccept(from, to)
  /\ Finish(r)
  /\ UNCHANGED nextCode

-----------------------------------------------------------------------------

Start(r) ==
  \E actor \in Users :
    \/ \E u \in Users :
         \/ \E s \in {"ACTIVE", "INACTIVE"} : BeginSetStatus(r, actor, u, s)
         \/ \E role \in StaffRoles : BeginSetRole(r, actor, u, role)
         \/ BeginApprove(r, actor, u)
         \/ BeginReject(r, actor, u)
         \/ BeginNominate(r, actor, u)
    \/ \E t \in Transfers : BeginCancel(r, actor, t)

Step(r) ==
  \/ ReadForStatus(r) \/ CheckOwnerForStatus(r) \/ CommitStatus(r)
  \/ ReadUserForRole(r) \/ ReadMembershipForRole(r) \/ CheckOwnerForRole(r)
  \/ CommitRole(r)
  \/ ReadUserForApprove(r) \/ CommitApprove(r)
  \/ ReadUserForReject(r) \/ CommitReject(r)
  \/ ReadNominee(r) \/ RetireOpen(r) \/ CommitCancel(r)
  \/ ReadFrom(r) \/ ReadTo(r) \/ CommitAccept(r)
  \/ \E t \in Transfers : CreateTransfer(r, t) \/ ReadTransfer(r, t)

Next ==
  \/ \E r \in Reqs : Start(r) \/ Step(r) \/ Fail(r)
  \/ \E u \in Users : Login(u)
  \/ \E u \in Users, role \in StaffRoles, s \in {"PENDING", "ACTIVE"} : Join(u, role, s)
  \/ \E t \in Transfers : Expire(t)

Spec == Init /\ [][Next]_vars

-----------------------------------------------------------------------------

(* The code takes no lock, so what a request has read can be overwritten   *)
(* before it commits.  The two predicates say when that is ruled out: no   *)
(* two requests are between their first read and their commit at once, of  *)
(* those that change a status, a role or the owner, and of those that      *)
(* change a transfer.  Everything else may still interleave.               *)
Deciding(r) ==
  pc[r] \in {"status.check", "status.commit", "role.membership", "role.check",
             "role.commit", "accept.to", "accept.commit"}

ChangesApart == \A r, s \in Reqs : Deciding(r) /\ Deciding(s) => r = s

Settling(r) ==
  pc[r] \in {"nominate.retire", "nominate.create", "cancel.commit",
             "accept.from", "accept.to", "accept.commit"}

TransfersApart == \A r, s \in Reqs : Settling(r) /\ Settling(s) => r = s

(* The variables hold rows and request slots of the shapes above. *)
TypeOK ==
  /\ membership \in [Users -> Memberships]
  /\ user \in [Users -> UserRows]
  /\ honoured \in [Users -> BOOLEAN]
  /\ nextCode \in Nat
  /\ transfer \in [Transfers -> TransferRows]
  /\ pc \in [Reqs -> Points]
  /\ local \in [Reqs -> Locals]

(* An employee code names one member: adminUpdateUser writes back a code   *)
(* it read before its transaction, and must still never give a member the  *)
(* code of another; every code in use was drawn from the counter.          *)
CodesUnique ==
  \A u \in Users : membership[u].code # NoCode =>
    /\ membership[u].code < nextCode
    /\ \A v \in Users \ {u} : membership[v].code # membership[u].code

(* "Keeps User.status and this org's Membership.status in sync": whatever  *)
(* requests race, the two agree, and a session is honoured only for a      *)
(* member both call ACTIVE.                                                *)
DiscontinuedLocksOut ==
  \A u \in Users :
    /\ user[u].status = membership[u].status
    /\ honoured[u] => membership[u].status = "ACTIVE"

(* "An org always has at least one ACTIVE OWNER." *)
AtLeastOneActiveOwner == ActiveOwners # {}

(* Ownership changes hands one for one: an owner is left whoever resigns,  *)
(* is discontinued or hands over, and there are never more of them.        *)
OwnershipKept ==
  /\ AtLeastOneActiveOwner
  /\ Cardinality({u \in Users : membership[u].role = "OWNER"}) <= Cardinality(FirstOwners)

(* The role JwtAdminGuard reads (User.role) and the role PermissionGuard   *)
(* reads (Membership.role) put a member on the same side of the line       *)
(* between admins and employees.                                           *)
RolesAgree ==
  \A u \in Users : (user[u].role = "EMPLOYEE") <=> (membership[u].role = "EMPLOYEE")

(* "confirmedAt marks acceptance; cancelledAt marks the owner cancelling   *)
(* it early - both block reuse", and at most one transfer is open.         *)
TransfersSettleOnce ==
  /\ \A t \in Transfers : ~(transfer[t].confirmed /\ transfer[t].cancelled)
  /\ \A t, w \in Transfers : Open(t) /\ Open(w) => t = w

(* Approvals, rejections, discontinuations and restorations that race keep *)
(* every member on the path MemberLifecycle draws: nobody who asked to     *)
(* join gets in but by an approval, nobody let in is deleted, and no       *)
(* session outlives a discontinuation.                                     *)
Lifecycle == INSTANCE MemberLifecycle WITH
  phase  <- [u \in Users |-> membership[u].status],
  access <- {u \in Users : honoured[u]}

ImplementsLifecycle == Lifecycle!Spec

=============================================================================
