------------------------------ MODULE FollowUps ------------------------------
(***************************************************************************)
(* The follow-up reminders of one request (followup.service): planned when *)
(* the request becomes DONE, sent by a daily job that several instances of *)
(* the server run, stopped by the customer's "STOP" and answered by "yes". *)
(* A step is one database statement or one call of the Graph API.          *)
(***************************************************************************)
EXTENDS Naturals, FiniteSets

CONSTANTS
  Ids,      \* FollowUp rows
  Desk,     \* handlers at work: staff requests and the customer's messages
  Jobs,     \* instances of the daily job
  MaxDay,   \* bound on the days that pass
  MaxFails, \* bound on the handlers that die half-way
  NoId      \* no follow-up

ASSUME FollowUpAssumption ==
  /\ Desk \intersect Jobs = {} /\ NoId \notin Ids
  /\ MaxDay \in Nat /\ MaxFails \in Nat

Procs == Desk \union Jobs

VARIABLES
  today,    \* the day in India
  request,  \* DraftIntake: workStatus (or "erased") and the plan its kind gives
  optedOut, \* WaContact.followUpOptOutAt is set
  row,      \* FollowUp id -> its row
  posted,   \* FollowUp id -> how often it went to the outbox
  silenced, \* the follow-ups nobody had claimed when the customer's STOP was stored
  pc,       \* process -> the statement it will run next
  local,    \* process -> what it has read
  fails,    \* handlers that died
  overlap   \* have two handlers been at work at once?

data == <<request, optedOut, row, posted, silenced>>
vars == <<today, request, optedOut, row, posted, silenced, pc, local, fails, overlap>>

-----------------------------------------------------------------------------

WorkStatuses == {"open", "DONE"}        \* open: every other status
Plans == {"none", "once", "yearly"}     \* effectiveKind and the term end
RowStatuses == {"free", "PENDING", "SENT", "YES", "OPTED_OUT", "CANCELLED"}
Year == 1                               \* 365 days, in days of the model

Requests == [work : WorkStatuses \union {"erased"}, plan : Plans]
FollowUpRows == [status : RowStatuses, due : Nat, recurring : BOOLEAN]

DeskPoints ==
  {"update.write", "plan.read", "plan.cancel", "plan.contact", "plan.create",
   "stop.optout", "stop.rows", "want.write"}
JobPoints ==
  {"send.claim", "send.contact", "send.request", "send.withdraw", "send.post", "send.again"}
Points == {"idle"} \union DeskPoints \union JobPoints

Locals ==
  [seen : Requests, next : Requests, f : Ids \union {NoId}, todo : SUBSET Ids,
   opted : BOOLEAN]

NoRow == [status |-> "free", due |-> 0, recurring |-> FALSE]
NoLocals ==
  LET none == [work |-> "open", plan |-> "none"] IN
  [seen |-> none, next |-> none, f |-> NoId, todo |-> {}, opted |-> FALSE]

Init ==
  /\ today = 0
  /\ request \in [work : {"open"}, plan : Plans]
  /\ optedOut = FALSE
  /\ row = [f \in Ids |-> NoRow]
  /\ posted = [f \in Ids |-> 0]
  /\ silenced = {}
  /\ pc = [p \in Procs |-> "idle"]
  /\ local = [p \in Procs |-> NoLocals]
  /\ fails = 0
  /\ overlap = FALSE

-----------------------------------------------------------------------------
(* Helpers.                                                                *)

Pending == {f \in Ids : row[f].status = "PENDING"}
Busy == {p \in Procs : pc[p] # "idle"}

(* updateMany where PENDING: the status of every pending row.              *)
PendingBecome(status) ==
  [f \in Ids |-> IF f \in Pending THEN [row[f] EXCEPT !.status = status] ELSE row[f]]

Begin(p, point, locals) ==
  /\ pc[p] = "idle"
  /\ pc' = [pc EXCEPT ![p] = point]
  /\ local' = [local EXCEPT ![p] = locals]
  /\ overlap' = (overlap \/ Busy # {})
  /\ UNCHANGED <<today, fails>>

Step(p, from, to) ==
  /\ pc[p] = from
  /\ pc' = [pc EXCEPT ![p] = to]
  /\ UNCHANGED <<today, fails, overlap>>

Finish(p, from) ==
  /\ Step(p, from, "idle")
  /\ local' = [local EXCEPT ![p] = NoLocals]

Free == {f \in Ids : row[f].status = "free"}

(* A new row, unless the bound on rows, Ids, is used up.                   *)
Create(due, recurring) ==
  \/ \E f \in Free :
       row' = [row EXCEPT ![f] = [status |-> "PENDING", due |-> due, recurring |-> recurring]]
  \/ Free = {} /\ UNCHANGED row

-----------------------------------------------------------------------------
(* WaRequestsService.update: status, kind and term end, by the staff. The   *)
(* page has a form for the status and others for what gives the plan.      *)

BeginUpdate(p, next) ==
  /\ request.work # "erased"
  /\ next # request
  /\ next.work = request.work \/ next.plan = request.plan
  /\ Begin(p, "update.write", [NoLocals EXCEPT !.seen = request, !.next = next])
  /\ UNCHANGED data

(* followUpChanged, by the copy of the request read first.                 *)
PlanChanged(seen, next) ==
  \/ seen.work # next.work /\ "DONE" \in {seen.work, next.work}
  \/ seen.plan # next.plan

(* updateMany writes the fields the call names, here those it changes.     *)
Written(seen, next) ==
  [work |-> IF next.work = seen.work THEN request.work ELSE next.work,
   plan |-> IF next.plan = seen.plan THEN request.plan ELSE next.plan]

WriteUpdate(p) ==
  LET seen == local[p].seen
      next == local[p].next IN
  /\ request' = IF request.work = "erased" THEN request ELSE Written(seen, next)
  /\ \/ /\ PlanChanged(seen, next)
        /\ Step(p, "update.write", "plan.read")
        /\ local' = [local EXCEPT ![p] = NoLocals]
     \/ ~PlanChanged(seen, next) /\ Finish(p, "update.write")
  /\ UNCHANGED <<optedOut, row, posted, silenced>>

ReadForPlan(p) ==
  /\ \/ /\ request.work # "erased"
        /\ Step(p, "plan.read", "plan.cancel")
        /\ local' = [local EXCEPT ![p].seen = request]
     \/ request.work = "erased" /\ Finish(p, "plan.read")
  /\ UNCHANGED data

(* WaRequestsService.remove: the row goes, its follow-ups stay.            *)
Erase ==
  /\ request.work # "erased"
  /\ request' = [request EXCEPT !.work = "erased"]
  /\ UNCHANGED <<today, optedOut, row, posted, silenced, pc, local, fails, overlap>>

-----------------------------------------------------------------------------
(* FollowUpService.scheduleFor.                                            *)

(* Faulty variant: a request that is planned anew keeps what was planned.  *)
KeepPlanned == row

CancelPlanned == PendingBecome("CANCELLED")

CancelPending(p) ==
  LET seen == local[p].seen
      wanted == seen.work = "DONE" /\ seen.plan # "none" IN
  /\ row' = CancelPlanned
  /\ \/ wanted /\ Step(p, "plan.cancel", "plan.contact") /\ UNCHANGED local
     \/ ~wanted /\ Finish(p, "plan.cancel")
  /\ UNCHANGED <<request, optedOut, posted, silenced>>

ReadContactForPlan(p) ==
  /\ \/ ~optedOut /\ Step(p, "plan.contact", "plan.create") /\ UNCHANGED local
     \/ optedOut /\ Finish(p, "plan.contact")
  /\ UNCHANGED data

(* followUpDue gives tomorrow or a later day, or nothing at all: the rule  *)
(* is disabled, the term is over, the registry is long past.               *)
CreateFollowUp(p) ==
  /\ Finish(p, "plan.create")
  /\ \/ \E due \in (today + 1)..MaxDay : Create(due, local[p].seen.plan = "yearly")
     \/ UNCHANGED row
  /\ UNCHANGED <<request, optedOut, posted, silenced>>

-----------------------------------------------------------------------------
(* FollowUpService.send: the daily job, on every instance of the server.   *)

(* Faulty variant: a day without a running server is a day forgotten. *)
DueToday == {f \in Pending : row[f].due = today}

DueNow == {f \in Pending : row[f].due <= today}

BeginSend(p) ==
  /\ DueNow # {}
  /\ Begin(p, "send.claim", [NoLocals EXCEPT !.todo = DueNow])
  /\ UNCHANGED data

NextDue(p) == {f \in local[p].todo : \A g \in local[p].todo : row[f].due <= row[g].due}

(* Faulty variant: the claim is an update by id. *)
Whatever(f) == row[f].status # "free"

(* The claim: updateMany where the row is still PENDING. *)
Claimable(f) == row[f].status = "PENDING"

ClaimNext(p) ==
  \E f \in NextDue(p) :
    /\ Claimable(f)
    /\ row' = [row EXCEPT ![f].status = "SENT"]
    /\ Step(p, "send.claim", "send.contact")
    /\ local' = [local EXCEPT ![p].f = f, ![p].todo = @ \ {f}]
    /\ UNCHANGED <<request, optedOut, posted, silenced>>

(* Another instance, a STOP or a new plan was first. *)
SkipClaimed(p) ==
  \E f \in NextDue(p) :
    /\ ~Claimable(f)
    /\ Step(p, "send.claim", "send.claim")
    /\ local' = [local EXCEPT ![p].todo = @ \ {f}]
    /\ UNCHANGED data

EndSend(p) ==
  /\ local[p].todo = {}
  /\ Finish(p, "send.claim")
  /\ UNCHANGED data

ReadContact(p) ==
  /\ Step(p, "send.contact", "send.request")
  /\ local' = [local EXCEPT ![p].opted = optedOut]
  /\ UNCHANGED data

(* Faulty variant: the customer's STOP is not looked at again. *)
OnlyErased(p) == request.work = "erased"

(* What withdraws a claimed follow-up, beside a rule that was disabled.    *)
MustWithdraw(p) == local[p].opted \/ request.work = "erased"

ReadRequest(p) ==
  /\ \/ ~MustWithdraw(p) /\ Step(p, "send.request", "send.post")
     \/ Step(p, "send.request", "send.withdraw")
  /\ UNCHANGED <<data, local>>

Withdraw(p) ==
  /\ Step(p, "send.withdraw", "send.claim")
  /\ row' = [row EXCEPT ![local[p].f].status = IF local[p].opted THEN "OPTED_OUT" ELSE "CANCELLED"]
  /\ local' = [local EXCEPT ![p].f = NoId, ![p].opted = FALSE]
  /\ UNCHANGED <<request, optedOut, posted, silenced>>

Post(p) ==
  LET f == local[p].f IN
  /\ pc[p] = "send.post"
  /\ posted' = [posted EXCEPT ![f] = @ + 1]
  /\ \/ /\ row[f].recurring
        /\ Step(p, "send.post", "send.again")
        /\ UNCHANGED local
     \/ /\ ~row[f].recurring
        /\ Step(p, "send.post", "send.claim")
        /\ local' = [local EXCEPT ![p].f = NoId]
  /\ UNCHANGED <<request, optedOut, row, silenced>>

CreateSuccessor(p) ==
  /\ Step(p, "send.again", "send.claim")
  /\ Create(row[local[p].f].due + Year, TRUE)
  /\ local' = [local EXCEPT ![p].f = NoId]
  /\ UNCHANGED <<request, optedOut, posted, silenced>>

-----------------------------------------------------------------------------
(* FollowUpService.reply: the customer's STOP, or "yes, I want it done".   *)

BeginStop(p) ==
  /\ \E f \in Ids : row[f].status \in {"PENDING", "SENT"}
  /\ Begin(p, "stop.optout", NoLocals)
  /\ UNCHANGED data

StoreOptOut(p) ==
  /\ Step(p, "stop.optout", "stop.rows")
  /\ optedOut' = TRUE
  /\ silenced' = IF optedOut THEN silenced
                 ELSE {f \in Ids : row[f].status \in {"free", "PENDING"}}
  /\ UNCHANGED <<request, row, posted, local>>

StopPending(p) ==
  /\ Finish(p, "stop.rows")
  /\ row' = PendingBecome("OPTED_OUT")
  /\ UNCHANGED <<request, optedOut, posted, silenced>>

BeginWant(p) ==
  \E f \in Ids :
    /\ row[f].status = "SENT"
    /\ Begin(p, "want.write", [NoLocals EXCEPT !.f = f])
    /\ UNCHANGED data

WriteWant(p) ==
  /\ Finish(p, "want.write")
  /\ row' = [row EXCEPT ![local[p].f].status = "YES"]
  /\ UNCHANGED <<request, optedOut, posted, silenced>>

-----------------------------------------------------------------------------

(* An error thrown in a handler, or the end of the process that runs it.   *)
Fail(p) ==
  /\ pc[p] # "idle"
  /\ fails < MaxFails
  /\ fails' = fails + 1
  /\ pc' = [pc EXCEPT ![p] = "idle"]
  /\ local' = [local EXCEPT ![p] = NoLocals]
  /\ UNCHANGED <<today, data, overlap>>

NewDay ==
  /\ today < MaxDay
  /\ today' = today + 1
  /\ UNCHANGED <<data, pc, local, fails, overlap>>

DeskStep(p) ==
  \/ WriteUpdate(p) \/ ReadForPlan(p) \/ CancelPending(p)
  \/ ReadContactForPlan(p) \/ CreateFollowUp(p)
  \/ StoreOptOut(p) \/ StopPending(p) \/ WriteWant(p)

SendStep(p) ==
  \/ BeginSend(p)
  \/ ClaimNext(p) \/ SkipClaimed(p) \/ EndSend(p)
  \/ ReadContact(p) \/ ReadRequest(p) \/ Withdraw(p) \/ Post(p) \/ CreateSuccessor(p)

Next ==
  \/ \E p \in Desk :
       \/ \E next \in [work : WorkStatuses, plan : Plans] : BeginUpdate(p, next)
       \/ BeginStop(p) \/ BeginWant(p) \/ DeskStep(p)
  \/ \E p \in Jobs : SendStep(p)
  \/ \E p \in Procs : Fail(p)
  \/ Erase
  \/ NewDay

Spec == Init /\ [][Next]_vars

(* The timer of an instance starts the job every minute, and what it awaits *)
(* returns or fails. Nothing else has to happen.                            *)
Fairness == \A p \in Jobs : WF_vars(SendStep(p))
FairSpec == Spec /\ Fairness

-----------------------------------------------------------------------------
(* Properties.                                                             *)

TypeOK ==
  /\ today \in 0..MaxDay
  /\ request \in Requests
  /\ optedOut \in BOOLEAN
  /\ row \in [Ids -> FollowUpRows]
  /\ posted \in [Ids -> Nat]
  /\ silenced \subseteq Ids
  /\ pc \in [Procs -> Points]
  /\ local \in [Procs -> Locals]
  /\ fails \in 0..MaxFails
  /\ overlap \in BOOLEAN

(* However many instances run the job, however often its list is stale: a  *)
(* follow-up goes to the customer at most once.                            *)
PostedOnce == \A f \in Ids : posted[f] <= 1

(* Once the STOP is stored, no follow-up that was not yet claimed is ever  *)
(* sent, not even one that a plan or a series under way creates after it.  *)
StopHeard == \A f \in silenced : posted[f] = 0

(* Handlers that ran one after another, all of them to their end, leave at *)
(* most one follow-up planned, and only for a request that is DONE and a   *)
(* customer who has not said STOP.                                         *)
PlannedWhenDone ==
  ~overlap /\ fails = 0 /\ Busy = {} =>
    /\ \A f, g \in Pending : f = g
    /\ Pending # {} => request.work \in {"DONE", "erased"} /\ ~optedOut

(* A planned follow-up whose day has come is claimed by some instance or   *)
(* called off, also when an instance dies in the middle of its list.       *)
Overdue(f) == row[f].status = "PENDING" /\ row[f].due <= today
Settled(f) == row[f].status # "PENDING"
EveryDueSettled == \A f \in Ids : Overdue(f) ~> Settled(f)
=============================================================================
