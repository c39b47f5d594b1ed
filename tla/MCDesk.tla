-------------------------------- MODULE MCDesk --------------------------------
(***************************************************************************)
(* What the desk does around the drafts: the follow-ups, the notices when  *)
(* a request's work is done, and the sales of a colony, each explored on   *)
(* its own ("part" says which) by one run: the parts share no state, and   *)
(* those not explored stay as they start.                                  *)
(***************************************************************************)
EXTENDS FollowUps, RequestNotices, ColonySales, TLC

VARIABLE part

deskVars == <<part, vars, noticeVars, saleVars>>

(* The follow-ups may start with any plan; the other parts need only one.  *)
OnePlan == request = [work |-> "open", plan |-> CHOOSE plan \in Plans : TRUE]

DeskInit ==
  /\ part \in {"followUps", "notices", "colony"}
  /\ Init /\ NoticeInit /\ SaleInit
  /\ part # "followUps" => OnePlan

DeskNext ==
  \/ part = "followUps" /\ Next /\ UNCHANGED <<part, noticeVars, saleVars>>
  \/ part = "notices" /\ NoticeNext /\ UNCHANGED <<part, vars, saleVars>>
  \/ part = "colony" /\ SaleNext /\ UNCHANGED <<part, vars, noticeVars>>

DeskSpec == DeskInit /\ [][DeskNext]_deskVars

(* Rows, members of staff, runs of the jobs and calls are interchangeable; *)
(* members and handlers, runs and calls are given the same names.          *)
Symmetry == Permutations(Ids) \union Permutations(Desk) \union Permutations(Jobs)

(* The types of the three parts.                                           *)
PartsTyped == TypeOK /\ NoticeTypeOK /\ SaleTypeOK
=============================================================================
