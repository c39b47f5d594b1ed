--------------------------- MODULE MemberLifecycle ---------------------------
(***************************************************************************)
(* What an organisation promises about each of its members, whatever       *)
(* requests race: a signup waits until an admin approves it, only a        *)
(* waiting signup can be deleted, a member who was let in is only ever     *)
(* discontinued and restored, and only an active member holds a session    *)
(* the server honours.                                                     *)
(***************************************************************************)
CONSTANTS Users, FirstOwners

VARIABLES
  phase,   \* user -> where its membership stands
  access   \* the users whose sessions are honoured

vars == <<phase, access>>

Init ==
  /\ phase = [u \in Users |-> IF u \in FirstOwners THEN "ACTIVE" ELSE "none"]
  /\ access = FirstOwners

Move(u, from, to) ==
  /\ phase[u] = from
  /\ phase' = [phase EXCEPT ![u] = to]

Ask(u) == Move(u, "none", "PENDING") /\ UNCHANGED access

Admit(u) == Move(u, "none", "ACTIVE") /\ UNCHANGED access

Approve(u) == Move(u, "PENDING", "ACTIVE") /\ UNCHANGED access

Reject(u) == Move(u, "PENDING", "deleted") /\ UNCHANGED access

Discontinue(u) == Move(u, "ACTIVE", "INACTIVE") /\ access' = access \ {u}

Restore(u) == Move(u, "INACTIVE", "ACTIVE") /\ UNCHANGED access

SignIn(u) ==
  /\ phase[u] = "ACTIVE"
  /\ access' = access \union {u}
  /\ UNCHANGED phase

SignOut(S) == access' = access \ S /\ UNCHANGED phase

Next ==
  \/ \E u \in Users :
       \/ Ask(u) \/ Admit(u) \/ Approve(u) \/ Reject(u)
       \/ Discontinue(u) \/ Restore(u) \/ SignIn(u)
  \/ \E S \in SUBSET Users : SignOut(S)

Spec == Init /\ [][Next]_vars
=============================================================================
