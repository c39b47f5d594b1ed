----------------------------- MODULE DeskProofs -----------------------------
(***************************************************************************)
(* What is proved about the messages the desk's jobs and handlers send, for*)
(* any number of rows, handlers and instances of the jobs, whatever the    *)
(* bounds.                                                                 *)
(*                                                                         *)
(* The follow-ups (FollowUps); these proofs rest on FollowUpAssumption.    *)
(* Shape adds to the types that a process which acts on a row has one.     *)
(* Claims says that a claimed row is in one job's hands, was never sent    *)
(* before, and never becomes claimable again; Hushed that a job which      *)
(* claimed a silenced row will have seen the STOP before it posts.         *)
(*                                                                         *)
(* The notices of a request (RequestNotices), which rest on                *)
(* NoticeAssumption.  Dated adds to the types that a reminder on its way   *)
(* has a date.  Counted sets each claim that is on its way to the          *)
(* customer, and each that is still free, against the staff's changes of   *)
(* the registry.                                                           *)
(* OneByOne says what each statement of a worker knows while workers       *)
(* follow one another.                                                     *)
(***************************************************************************)
EXTENDS MCDesk, ColonySalesProofs, FiniteSetTheorems

(* Where a job has a row in its hands, and where it has not sent it yet.   *)
Claiming == {"send.contact", "send.request", "send.withdraw", "send.post"}
OnARow == Claiming \union {"send.again", "want.write"}

Shape == TypeOK /\ \A p \in Procs : pc[p] \in OnARow => local[p].f \in Ids

Claimed(f) == row[f].status \notin {"free", "PENDING"}

Claims ==
  /\ \A f \in Ids : ~Claimed(f) => posted[f] = 0
  /\ PostedOnce
  /\ \A p \in Procs : pc[p] \in OnARow => Claimed(local[p].f)
  /\ \A p \in Procs : pc[p] \in Claiming => posted[local[p].f] = 0
  /\ \A p, q \in Procs :
       pc[p] \in Claiming /\ pc[q] \in Claiming /\ local[p].f = local[q].f => p = q

Hushed ==
  /\ StopHeard
  /\ silenced # {} => optedOut
  /\ \A p \in Procs : pc[p] \in Claiming /\ local[p].f \in silenced =>
       /\ pc[p] # "send.post"
       /\ pc[p] = "send.request" => local[p].opted

(* The handlers one after another, all of them to their end.               *)
InTurn == ~overlap /\ fails = 0

(* A plan is being made, or a customer is being silenced.                  *)
Planning == \E p \in Procs : pc[p] \in {"plan.read", "plan.cancel"}
Silencing == \E p \in Procs : pc[p] = "stop.rows"

(* What a handler has read of the request still stands, but for erasing.   *)
Stands(seen) == request.work = "erased" \/ seen = request

AsRead(p) ==
  /\ pc[p] \in {"update.write", "plan.cancel", "plan.contact", "plan.create"} =>
       Stands(local[p].seen)
  /\ pc[p] \in {"plan.contact", "plan.create"} =>
       local[p].seen.work = "DONE" /\ Pending = {}
  /\ pc[p] = "plan.create" => ~optedOut
  /\ pc[p] \in Claiming \union {"send.again"} =>
       Pending = {} /\ request.work \in {"DONE", "erased"} /\ ~optedOut

OnePlanned ==
  /\ \A f, g \in Pending : f = g
  /\ Pending # {} => /\ request.work \in {"DONE", "erased"} \/ Planning
                     /\ ~optedOut \/ Silencing

Serial ==
  InTurn =>
    /\ \A p, q \in Busy : p = q
    /\ \A p \in Procs : AsRead(p)
    /\ OnePlanned

-----------------------------------------------------------------------------
(* Types.                                                                  *)

(* What a process that does nothing holds has its type.                    *)
LEMMA NothingHeld ==
  NoLocals \in Locals /\ \A q \in Requests :
    /\ [NoLocals EXCEPT !.seen = q] \in Locals
    /\ \A r \in Requests : [NoLocals EXCEPT !.seen = q, !.next = r] \in Locals
  BY DEF NoLocals, Locals, Requests, WorkStatuses, Plans

(* The fields of what a process holds.                                     *)
LEMMA Fields ==
  ASSUME TypeOK, NEW p \in Procs
  PROVE  /\ local[p] \in Locals
         /\ local[p].seen \in Requests /\ local[p].next \in Requests
         /\ local[p].f \in Ids \union {NoId} /\ local[p].todo \subseteq Ids
         /\ local[p].opted \in BOOLEAN
         /\ \A f \in Ids \union {NoId}, todo \in SUBSET Ids, opted \in BOOLEAN, q \in Requests :
              /\ [local[p] EXCEPT !.f = f] \in Locals
              /\ [local[p] EXCEPT !.f = f, !.todo = todo] \in Locals
              /\ [local[p] EXCEPT !.f = f, !.opted = opted] \in Locals
              /\ [local[p] EXCEPT !.seen = q] \in Locals
  BY DEF TypeOK, Locals

(* A process that goes on, with what it holds of the right type.           *)
LEMMA Moves ==
  ASSUME Shape, NEW p \in Procs, NEW point \in Points, NEW l \in Locals,
         pc' = [pc EXCEPT ![p] = point], local' = [local EXCEPT ![p] = l],
         point \in OnARow => l.f \in Ids
  PROVE  /\ pc' \in [Procs -> Points] /\ local' \in [Procs -> Locals]
         /\ \A q \in Procs : pc'[q] \in OnARow => local'[q].f \in Ids
  BY DEF Shape, TypeOK

(* Creating a row, or giving every pending one another status, keeps the   *)
(* types of the rows.                                                      *)
LEMMA RowsTyped ==
  ASSUME TypeOK
  PROVE  /\ \A status \in RowStatuses : PendingBecome(status) \in [Ids -> FollowUpRows]
         /\ \A due \in Nat, recurring \in BOOLEAN :
              Create(due, recurring) => row' \in [Ids -> FollowUpRows]
         /\ \A f \in Ids, status \in RowStatuses :
              [row EXCEPT ![f].status = status] \in [Ids -> FollowUpRows]
  BY DEF TypeOK, PendingBecome, Create, Pending, Free, FollowUpRows, RowStatuses

LEMMA ShapeInit == Init => Shape
<1> SUFFICES ASSUME Init PROVE Shape
  OBVIOUS
<1>1. today \in 0..MaxDay /\ fails \in 0..MaxFails
  BY FollowUpAssumption DEF Init
<1>2. row \in [Ids -> FollowUpRows]
  BY DEF Init, FollowUpRows, NoRow, RowStatuses
<1>3. pc \in [Procs -> Points] /\ local \in [Procs -> Locals]
  BY NothingHeld DEF Init, Points
<1>4. request \in Requests
  BY DEF Init, Requests, WorkStatuses
<1>5. \A p \in Procs : pc[p] \notin OnARow
  BY DEF Init, OnARow, Claiming
<1> QED
  BY <1>1, <1>2, <1>3, <1>4, <1>5 DEF Init, Shape, TypeOK

(* The steps of the desk.                                                  *)
LEMMA DeskShape ==
  ASSUME Shape, NEW p \in Desk,
         \/ \E next \in [work : WorkStatuses, plan : Plans] : BeginUpdate(p, next)
         \/ BeginStop(p) \/ BeginWant(p) \/ DeskStep(p)
  PROVE  Shape'
<1> USE DEF Shape, TypeOK, data, Begin, Step, Finish, OnARow, Claiming
<1>1. p \in Procs /\ Points = Points \union DeskPoints /\ "idle" \in Points
  BY DEF Procs, Points
<1>2. ASSUME NEW next \in [work : WorkStatuses, plan : Plans], BeginUpdate(p, next)
      PROVE  Shape'
  BY <1>1, <1>2, NothingHeld DEF BeginUpdate, Requests, DeskPoints
<1>3. CASE BeginStop(p)
  BY <1>1, <1>3, NothingHeld DEF BeginStop, DeskPoints
<1>4. CASE BeginWant(p)
  <2>1. PICK f \in Ids : Begin(p, "want.write", [NoLocals EXCEPT !.f = f]) /\ UNCHANGED data
    BY <1>4 DEF BeginWant
  <2>2. [NoLocals EXCEPT !.f = f] \in Locals /\ [NoLocals EXCEPT !.f = f].f = f
    BY NothingHeld DEF Locals
  <2> QED BY <1>1, <2>1, <2>2, Moves DEF DeskPoints
<1>5. CASE WriteUpdate(p)
  <2>1. request' \in Requests
    BY <1>1, <1>5, Fields DEF WriteUpdate, Written, Requests
  <2> QED BY <1>1, <1>5, <2>1, NothingHeld DEF WriteUpdate, DeskPoints
<1>6. CASE ReadForPlan(p)
  <2>1. CASE Finish(p, "plan.read")
    BY <1>1, <1>6, <2>1, NothingHeld DEF ReadForPlan
  <2>2. CASE Step(p, "plan.read", "plan.cancel") /\ local' = [local EXCEPT ![p].seen = request]
    BY <1>1, <1>6, <2>2, Fields, Moves DEF ReadForPlan, DeskPoints
  <2> QED BY <1>6, <2>1, <2>2 DEF ReadForPlan
<1>7. CASE CancelPending(p)
  <2>1. row' \in [Ids -> FollowUpRows]
    BY <1>7, RowsTyped DEF CancelPending, CancelPlanned, RowStatuses
  <2> QED BY <1>1, <1>7, <2>1, NothingHeld DEF CancelPending, DeskPoints
<1>8. CASE ReadContactForPlan(p)
  BY <1>1, <1>8, NothingHeld DEF ReadContactForPlan, DeskPoints
<1>9. CASE CreateFollowUp(p)
  <2>1. row' \in [Ids -> FollowUpRows]
    <3>1. ASSUME NEW due \in (today + 1)..MaxDay, Create(due, local[p].seen.plan = "yearly")
          PROVE  row' \in [Ids -> FollowUpRows]
      <4>1. due \in Nat /\ (local[p].seen.plan = "yearly") \in BOOLEAN
        BY FollowUpAssumption
      <4> QED BY <3>1, <4>1, RowsTyped
    <3> QED BY <1>9, <3>1 DEF CreateFollowUp
  <2> QED BY <1>1, <1>9, <2>1, NothingHeld DEF CreateFollowUp
<1>10. CASE StoreOptOut(p)
  BY <1>1, <1>10, NothingHeld DEF StoreOptOut, DeskPoints
<1>11. CASE StopPending(p)
  BY ZenonT(30), <1>1, <1>11, NothingHeld, RowsTyped DEF StopPending, RowStatuses
<1>12. CASE WriteWant(p)
  BY ZenonT(30), <1>1, <1>12, NothingHeld, RowsTyped DEF WriteWant, RowStatuses
<1> QED
  BY <1>2, <1>3, <1>4, <1>5, <1>6, <1>7, <1>8, <1>9, <1>10, <1>11, <1>12 DEF DeskStep

(* The steps of the job.                                                   *)
LEMMA JobShape ==
  ASSUME Shape, NEW p \in Jobs, SendStep(p)
  PROVE  Shape'
<1> USE DEF Shape, TypeOK, data, Begin, Step, Finish, OnARow, Claiming
<1>1. p \in Procs /\ JobPoints \subseteq Points /\ "idle" \in Points
  BY DEF Procs, Points
<1>2. CASE BeginSend(p)
  BY <1>1, <1>2, NothingHeld DEF BeginSend, DueNow, Pending, JobPoints, Locals
<1>3. CASE ClaimNext(p)
  <2>1. PICK f \in NextDue(p) :
          /\ row' = [row EXCEPT ![f].status = "SENT"]
          /\ Step(p, "send.claim", "send.contact")
          /\ local' = [local EXCEPT ![p].f = f, ![p].todo = @ \ {f}]
          /\ UNCHANGED <<request, optedOut, posted, silenced>>
    BY <1>3 DEF ClaimNext
  <2>2. f \in Ids
    BY <1>1, Fields DEF NextDue
  <2>3. row' \in [Ids -> FollowUpRows]
    BY <2>1, <2>2, RowsTyped DEF RowStatuses
  <2> DEFINE l == [local[p] EXCEPT !.f = f, !.todo = local[p].todo \ {f}]
  <2>4. l \in Locals /\ l.f = f
    <3>1. local[p].todo \ {f} \in SUBSET Ids
      BY <1>1, Fields
    <3>2. local[p] \in Locals
      BY <1>1, Fields
    <3> QED BY ONLY <2>2, <3>1, <3>2 DEF Locals
  <2>5. local' = [local EXCEPT ![p] = l]
    BY <1>1, <2>1, <2>2, Fields DEF Locals
  <2> QED BY <1>1, <2>1, <2>2, <2>3, <2>4, <2>5, Moves DEF JobPoints
<1>4. CASE SkipClaimed(p)
  <2>1. PICK f \in NextDue(p) :
          /\ Step(p, "send.claim", "send.claim")
          /\ local' = [local EXCEPT ![p].todo = @ \ {f}]
          /\ UNCHANGED data
    BY <1>4 DEF SkipClaimed
  <2> DEFINE l == [local[p] EXCEPT !.todo = local[p].todo \ {f}]
  <2>2. l \in Locals
    <3>1. local[p] \in Locals /\ local[p].todo \ {f} \in SUBSET Ids
      BY <1>1, Fields
    <3> QED BY ONLY <3>1 DEF Locals
  <2>3. local' = [local EXCEPT ![p] = l]
    BY <1>1, <2>1
  <2> HIDE DEF l
  <2> QED BY <1>1, <2>1, <2>2, <2>3, Moves DEF JobPoints
<1>5. CASE EndSend(p)
  BY <1>1, <1>5, NothingHeld DEF EndSend, JobPoints
<1>6. CASE ReadContact(p)
  BY <1>1, <1>6 DEF ReadContact, JobPoints, Locals
<1>7. CASE ReadRequest(p)
  BY <1>1, <1>7 DEF ReadRequest, JobPoints
<1>8. CASE Withdraw(p)
  <2>1. row' \in [Ids -> FollowUpRows]
    BY <1>1, <1>8, RowsTyped DEF Withdraw, RowStatuses
  <2>2. local' = [local EXCEPT ![p] = [local[p] EXCEPT !.f = NoId, !.opted = FALSE]]
    BY <1>1, <1>8 DEF Withdraw
  <2> QED BY <1>1, <1>8, <2>1, <2>2, Fields, Moves DEF Withdraw, JobPoints
<1>9. CASE Post(p)
  BY SMTT(30), <1>1, <1>9 DEF Post, JobPoints, Locals
<1>10. CASE CreateSuccessor(p)
  <2>1. row[local[p].f].due + Year \in Nat
    BY <1>1, <1>10 DEF CreateSuccessor, FollowUpRows, Year
  <2>2. row' \in [Ids -> FollowUpRows]
    BY <1>10, <2>1, RowsTyped DEF CreateSuccessor
  <2> QED BY <1>1, <1>10, <2>2, Fields, Moves DEF CreateSuccessor, JobPoints
<1> QED
  BY <1>2, <1>3, <1>4, <1>5, <1>6, <1>7, <1>8, <1>9, <1>10 DEF SendStep

(* The steps of nobody, or of anybody.                                     *)
LEMMA OtherShape ==
  ASSUME Shape, (\E p \in Procs : Fail(p)) \/ Erase \/ NewDay \/ UNCHANGED vars
  PROVE  Shape'
<1> USE FollowUpAssumption DEF Shape, TypeOK, data
<1>1. ASSUME NEW p \in Procs, Fail(p) PROVE Shape'
  <2>1. "idle" \in Points \ OnARow
    BY DEF Points, OnARow, Claiming
  <2>2. fails' \in 0..MaxFails
    BY <1>1 DEF Fail
  <2>3. /\ pc' \in [Procs -> Points] /\ local' \in [Procs -> Locals]
        /\ \A q \in Procs : pc'[q] \in OnARow => local'[q].f \in Ids
    BY <1>1, <2>1, NothingHeld, Moves DEF Fail
  <2> QED BY <1>1, <2>2, <2>3 DEF Fail
<1>2. CASE Erase
  BY <1>2 DEF Erase, Requests
<1>3. CASE NewDay
  BY <1>3 DEF NewDay
<1>4. CASE UNCHANGED vars
  BY <1>4 DEF vars
<1> QED BY <1>1, <1>2, <1>3, <1>4

LEMMA ShapeStep == Shape /\ [Next]_vars => Shape'
  BY DeskShape, JobShape, OtherShape DEF Next

(* Rows, requests, plans and what each process holds keep their types.     *)
LEMMA ShapeInvariant == Spec => []Shape
  BY ShapeInit, ShapeStep, PTL DEF Spec

(* The type invariant of FollowUps.                                        *)
THEOREM FollowUpTypesCorrect == Spec => []TypeOK
  BY ShapeInvariant, PTL DEF Shape

-----------------------------------------------------------------------------
(* A follow-up is sent at most once.                                       *)

(* Nothing that happens to the rows makes a claimed one claimable.         *)
LEMMA RowsStayClaimed ==
  ASSUME TypeOK, NEW f \in Ids, Claimed(f)
  PROVE  /\ \A status : row' = PendingBecome(status) => Claimed(f)'
         /\ \A due, recurring : Create(due, recurring) => Claimed(f)'
         /\ \A g \in Ids, status \in RowStatuses \ {"free", "PENDING"} :
              row' = [row EXCEPT ![g].status = status] => Claimed(f)' /\ Claimed(g)'
  BY DEF TypeOK, Claimed, PendingBecome, Pending, Create, Free, FollowUpRows

(* Where one process has gone, and what it holds; the others stay.         *)
OneMoved(p) ==
  /\ \A q \in Procs \ {p} : pc'[q] = pc[q] /\ local'[q] = local[q]

LEMMA ClaimsKept ==
  ASSUME Shape, Shape', Claims, NEW p \in Procs, OneMoved(p),
         \A f \in Ids : Claimed(f) => Claimed(f)', posted' = posted,
         pc'[p] \in OnARow =>
           LET f == local'[p].f IN
           \/ /\ pc[p] \in OnARow /\ f = local[p].f
              /\ pc'[p] \in Claiming => pc[p] \in Claiming
           \/ row'[f].status \notin {"free", "PENDING"} /\ pc'[p] \notin Claiming
           \/ ~Claimed(f) /\ row'[f].status \notin {"free", "PENDING"}
  PROVE  Claims'
<1> USE DEF Claimed, OneMoved
<1>1. \A q \in Procs : pc'[q] \in OnARow => local'[q].f \in Ids
  BY DEF Shape
<1>2. \A q \in Procs : pc[q] \in OnARow => local[q].f \in Ids
  BY DEF Shape
<1>3. Claiming \subseteq OnARow
  BY DEF OnARow
<1>4. \A f \in Ids : ~Claimed(f)' => posted'[f] = 0
  BY DEF Claims
<1>5. PostedOnce'
  BY DEF Claims, PostedOnce
<1>6. \A q \in Procs : pc'[q] \in OnARow => Claimed(local[q].f)'
  BY <1>1, <1>2 DEF Claims
<1>7. \A q \in Procs : pc'[q] \in Claiming => posted'[local'[q].f] = 0
  BY <1>1, <1>2, <1>3 DEF Claims
<1>8. ASSUME NEW q \in Procs, NEW r \in Procs,
             pc'[q] \in Claiming, pc'[r] \in Claiming, local'[q].f = local'[r].f
      PROVE  q = r
  BY <1>1, <1>2, <1>3, <1>8 DEF Claims
<1> QED BY <1>4, <1>5, <1>6, <1>7, <1>8 DEF Claims

LEMMA ClaimsInit == Init => Claims
  BY DEF Init, Claims, PostedOnce, Claimed, NoRow, OnARow, Claiming

LEMMA DeskClaims ==
  ASSUME Shape, Shape', Claims, NEW p \in Desk,
         \/ \E next \in [work : WorkStatuses, plan : Plans] : BeginUpdate(p, next)
         \/ BeginStop(p) \/ BeginWant(p) \/ DeskStep(p)
  PROVE  Claims'
<1> USE DEF data, Begin, Step, Finish, OneMoved
<1>1. p \in Procs /\ pc \in [Procs -> Points] /\ local \in [Procs -> Locals]
  BY DEF Procs, Shape, TypeOK
<1>2. /\ \A point \in DeskPoints \union {"idle"} : point \in OnARow => point = "want.write"
      /\ "want.write" \notin Claiming
  BY DEF DeskPoints, OnARow, Claiming
<1>3. ASSUME NEW next \in [work : WorkStatuses, plan : Plans], BeginUpdate(p, next)
      PROVE  Claims'
  BY <1>1, <1>2, <1>3, ClaimsKept DEF BeginUpdate, DeskPoints, Claimed
<1>4. CASE BeginStop(p)
  BY <1>1, <1>2, <1>4, ClaimsKept DEF BeginStop, DeskPoints, Claimed
<1>5. CASE BeginWant(p)
  <2>1. PICK f \in Ids :
          row[f].status = "SENT" /\ Begin(p, "want.write", [NoLocals EXCEPT !.f = f])
    BY <1>5 DEF BeginWant
  <2>2. pc'[p] = "want.write" /\ local'[p].f = f /\ UNCHANGED data
    BY <1>1, <1>5, <2>1 DEF BeginWant, NoLocals
  <2> QED BY <1>1, <1>2, <2>1, <2>2, ClaimsKept DEF Claimed
<1>6. CASE WriteUpdate(p)
  BY <1>1, <1>2, <1>6, ClaimsKept DEF WriteUpdate, DeskPoints, Claimed
<1>7. CASE ReadForPlan(p)
  BY <1>1, <1>2, <1>7, ClaimsKept DEF ReadForPlan, DeskPoints, Claimed
<1>8. CASE CancelPending(p)
  BY <1>1, <1>2, <1>8, ClaimsKept, RowsStayClaimed
     DEF CancelPending, CancelPlanned, DeskPoints, Shape
<1>9. CASE ReadContactForPlan(p)
  BY <1>1, <1>2, <1>9, ClaimsKept DEF ReadContactForPlan, DeskPoints, Claimed
<1>10. CASE CreateFollowUp(p)
  <2>1. \A f \in Ids : Claimed(f) => Claimed(f)'
    BY <1>10, RowsStayClaimed DEF CreateFollowUp, Shape, Claimed
  <2> QED BY <1>1, <1>2, <1>10, <2>1, ClaimsKept DEF CreateFollowUp
<1>11. CASE StoreOptOut(p)
  BY <1>1, <1>2, <1>11, ClaimsKept DEF StoreOptOut, DeskPoints, Claimed
<1>12. CASE StopPending(p)
  BY <1>1, <1>2, <1>12, ClaimsKept, RowsStayClaimed DEF StopPending, Shape
<1>13. CASE WriteWant(p)
  <2>1. local[p].f \in Ids /\ row' = [row EXCEPT ![local[p].f].status = "YES"]
    BY <1>1, <1>13 DEF WriteWant, Shape, OnARow
  <2>2. \A f \in Ids : Claimed(f) => Claimed(f)'
    <3>1. TypeOK /\ "YES" \in RowStatuses \ {"free", "PENDING"}
      BY DEF Shape, RowStatuses
    <3> QED BY ONLY <2>1, <3>1, RowsStayClaimed
  <2> QED BY <1>1, <1>2, <1>13, <2>2, ClaimsKept DEF WriteWant
<1> QED
  BY <1>3, <1>4, <1>5, <1>6, <1>7, <1>8, <1>9, <1>10, <1>11, <1>12, <1>13 DEF DeskStep

LEMMA JobClaims ==
  ASSUME Shape, Shape', Claims, NEW p \in Jobs, SendStep(p)
  PROVE  Claims'
<1> USE DEF data, Begin, Step, Finish, OneMoved
<1>1. p \in Procs /\ pc \in [Procs -> Points] /\ local \in [Procs -> Locals]
  BY DEF Procs, Shape, TypeOK
<1>2. CASE BeginSend(p)
  BY <1>1, <1>2, ClaimsKept DEF BeginSend, Claimed, OnARow, Claiming
<1>3. CASE ClaimNext(p)
  <2>1. PICK f \in NextDue(p) :
          /\ Claimable(f)
          /\ row' = [row EXCEPT ![f].status = "SENT"]
          /\ Step(p, "send.claim", "send.contact")
          /\ local' = [local EXCEPT ![p].f = f, ![p].todo = @ \ {f}]
    BY <1>3 DEF ClaimNext
  <2>2. f \in Ids
    BY <1>1, Fields DEF NextDue, Shape
  <2>3. pc'[p] = "send.contact" /\ local'[p].f = f
    <3>1. local[p] \in Locals
      BY <1>1, Fields DEF Shape
    <3> QED BY <1>1, <2>1, <3>1 DEF Locals
  <2>4. \A g \in Ids : Claimed(g) => Claimed(g)'
    BY <2>1, <2>2, RowsStayClaimed DEF RowStatuses, Shape
  <2>5. ~Claimed(f) /\ row'[f].status \notin {"free", "PENDING"}
    BY <2>1, <2>2 DEF Claimable, Claimed, Shape, TypeOK, FollowUpRows
  <2> QED BY <1>1, <1>3, <2>1, <2>3, <2>4, <2>5, ClaimsKept DEF ClaimNext
<1>4. CASE SkipClaimed(p)
  BY <1>1, <1>4, ClaimsKept DEF SkipClaimed, Claimed, OnARow, Claiming
<1>5. CASE EndSend(p)
  BY <1>1, <1>5, ClaimsKept DEF EndSend, Claimed, OnARow, Claiming
<1>6. CASE ReadContact(p)
  <2>1. /\ pc[p] = "send.contact" /\ pc'[p] = "send.request"
        /\ local'[p].f = local[p].f
    BY <1>1, <1>6 DEF ReadContact, Locals
  <2> QED BY <1>1, <1>6, <2>1, ClaimsKept DEF ReadContact, Claimed, OnARow, Claiming
<1>7. CASE ReadRequest(p)
  BY <1>1, <1>7, ClaimsKept DEF ReadRequest, Claimed, OnARow, Claiming
<1>8. CASE Withdraw(p)
  <2>1. local[p].f \in Ids /\ pc'[p] = "send.claim"
    BY <1>1, <1>8 DEF Withdraw, Shape, OnARow, Claiming
  <2>2. PICK status \in {"OPTED_OUT", "CANCELLED"} :
          row' = [row EXCEPT ![local[p].f].status = status]
    BY <1>8, Zenon DEF Withdraw
  <2>3. \A g \in Ids : Claimed(g) => Claimed(g)'
    BY <2>1, <2>2, RowsStayClaimed DEF RowStatuses, Shape
  <2> QED BY <1>1, <1>8, <2>1, <2>3, ClaimsKept DEF Withdraw, OnARow, Claiming
<1>9. CASE Post(p)
  <2> DEFINE f == local[p].f
  <2>1. f \in Ids /\ Claimed(f) /\ posted[f] = 0
    BY <1>1, <1>9 DEF Post, Shape, OnARow, Claiming, Claims
  <2>2. posted' = [posted EXCEPT ![f] = 1] /\ posted \in [Ids -> Nat]
    BY <1>9, <2>1 DEF Post, Shape, TypeOK
  <2>3. pc'[p] \in OnARow => local'[p].f = f /\ pc'[p] \notin Claiming
    BY <1>1, <1>9 DEF Post, OnARow, Claiming
  <2>4. pc[p] = "send.post" /\ pc'[p] \notin Claiming
    BY <1>1, <1>9 DEF Post, Claiming
  <2>5. \A g \in Ids : Claimed(g)' <=> Claimed(g)
    BY <1>9 DEF Post, Claimed
  <2>6. ASSUME NEW q \in Procs, pc'[q] \in OnARow PROVE Claimed(local[q].f)'
    <3>1. CASE q = p
      BY <1>9, <2>1, <2>3, <2>6, <3>1 DEF Post, Claimed
    <3>2. CASE q # p
      BY <1>1, <1>9, <2>6, <3>2 DEF Post, Claimed, Claims
    <3> QED BY <3>1, <3>2
  <2>7. ASSUME NEW q \in Procs, pc'[q] \in Claiming
        PROVE  q # p /\ pc[q] \in Claiming /\ local'[q] = local[q] /\ posted'[local'[q].f] = 0
    <3>1. q # p /\ pc[q] \in Claiming /\ local'[q] = local[q]
      BY <1>1, <1>9, <2>4, <2>7 DEF Post
    <3>2. local[q].f # f
      BY <1>1, <2>4, <3>1 DEF Claims, Claiming
    <3>3. local[q].f \in Ids /\ posted[local[q].f] = 0
      BY <3>1 DEF Claims, Shape, OnARow
    <3> QED BY <2>2, <3>1, <3>2, <3>3
  <2>8. PostedOnce' /\ \A g \in Ids : ~Claimed(g)' => posted'[g] = 0
    BY <2>1, <2>2, <2>5 DEF Claims, PostedOnce
  <2> QED BY <2>6, <2>7, <2>8 DEF Claims
<1>10. CASE CreateSuccessor(p)
  <2>1. \A f \in Ids : Claimed(f) => Claimed(f)'
    BY <1>10, RowsStayClaimed DEF CreateSuccessor, Shape
  <2> QED BY <1>1, <1>10, <2>1, ClaimsKept DEF CreateSuccessor, OnARow, Claiming
<1> QED
  BY <1>2, <1>3, <1>4, <1>5, <1>6, <1>7, <1>8, <1>9, <1>10 DEF SendStep

LEMMA OtherClaims ==
  ASSUME Shape, Shape', Claims, (\E p \in Procs : Fail(p)) \/ Erase \/ NewDay \/ UNCHANGED vars
  PROVE  Claims'
<1>1. ASSUME NEW p \in Procs, Fail(p) PROVE Claims'
  <2>1. pc'[p] \notin OnARow /\ OneMoved(p)
    BY <1>1 DEF Fail, Shape, TypeOK, OnARow, Claiming, OneMoved
  <2> QED BY <1>1, <2>1, ClaimsKept DEF Fail, data, Claimed
<1>2. CASE UNCHANGED <<row, posted, pc, local>>
  BY <1>2 DEF Claims, PostedOnce, Claimed
<1> QED BY <1>1, <1>2 DEF Erase, NewDay, data, vars

LEMMA ClaimsInvariant == Spec => [](Shape /\ Claims)
<1>1. Shape /\ Shape' /\ Claims /\ [Next]_vars => Claims'
  BY DeskClaims, JobClaims, OtherClaims DEF Next
<1> QED BY ClaimsInit, ShapeInvariant, <1>1, PTL DEF Spec

(* However many instances run the job, a follow-up is sent at most once.   *)
THEOREM NeverTwice == Spec => []PostedOnce
  BY ClaimsInvariant, PTL DEF Claims

-----------------------------------------------------------------------------
(* A STOP is heard.                                                        *)

LEMMA HushedKept ==
  ASSUME Shape, Hushed, NEW p \in Procs, OneMoved(p),
         silenced' = silenced, \A f \in silenced : posted'[f] = posted[f],
         optedOut => optedOut',
         pc'[p] \in Claiming /\ local'[p].f \in silenced =>
           pc'[p] # "send.post" /\ (pc'[p] = "send.request" => local'[p].opted)
  PROVE  Hushed'
  BY DEF Hushed, StopHeard, OneMoved

LEMMA HushedStep ==
  ASSUME Shape, Claims, Hushed, [Next]_vars
  PROVE  Hushed'
<1> USE DEF data, Begin, Step, Finish, OneMoved
<1>1. /\ pc \in [Procs -> Points] /\ local \in [Procs -> Locals]
      /\ Desk \subseteq Procs /\ Jobs \subseteq Procs
  BY DEF Procs, Shape, TypeOK
<1>2. ASSUME NEW p \in Desk,
             \/ \E next \in [work : WorkStatuses, plan : Plans] : BeginUpdate(p, next)
             \/ BeginStop(p) \/ BeginWant(p) \/ DeskStep(p)
      PROVE  Hushed'
  <2>1. pc'[p] \notin Claiming /\ OneMoved(p) /\ posted' = posted
    BY <1>1, <1>2 DEF BeginUpdate, BeginStop, BeginWant, DeskStep, WriteUpdate, ReadForPlan,
       CancelPending, ReadContactForPlan, CreateFollowUp, StoreOptOut, StopPending, WriteWant,
       Claiming
  <2>2. CASE StoreOptOut(p) /\ ~optedOut
    <3>1. /\ optedOut' /\ silenced' = {f \in Ids : row[f].status \in {"free", "PENDING"}}
          /\ row' = row
      BY <2>2 DEF StoreOptOut
    <3>2. \A f \in silenced' : posted'[f] = 0
      BY <2>1, <3>1 DEF Claims, Claimed
    <3>3. \A q \in Procs : pc'[q] \in Claiming => local'[q].f \notin silenced'
      BY <1>1, <2>1, <3>1 DEF Claims, Claimed, OnARow
    <3> QED BY <3>1, <3>2, <3>3 DEF Hushed, StopHeard
  <2>3. CASE ~(StoreOptOut(p) /\ ~optedOut)
    <3>1. silenced' = silenced /\ (optedOut => optedOut')
      <4>1. CASE StoreOptOut(p)
        BY <2>3, <4>1, Zenon DEF StoreOptOut
      <4>2. CASE ~StoreOptOut(p)
        <5>1. silenced' = silenced /\ optedOut' = optedOut
          BY <1>2, <4>2 DEF BeginUpdate, BeginStop, BeginWant, DeskStep, WriteUpdate,
             ReadForPlan, CancelPending, ReadContactForPlan, CreateFollowUp, StopPending, WriteWant
        <5> QED BY <5>1
      <4> QED BY <4>1, <4>2
    <3> QED BY <1>1, <2>1, <3>1, HushedKept
  <2> QED BY <2>2, <2>3
<1>3. ASSUME NEW p \in Jobs, SendStep(p) PROVE Hushed'
  <2>1. p \in Procs /\ silenced' = silenced /\ optedOut' = optedOut /\ OneMoved(p)
    BY <1>1, <1>3 DEF SendStep, BeginSend, ClaimNext, SkipClaimed, EndSend, ReadContact,
       ReadRequest, Withdraw, Post, CreateSuccessor
  <2>2. CASE ReadContact(p)
    <3>1. /\ pc[p] = "send.contact" /\ pc'[p] = "send.request"
          /\ local'[p].opted = optedOut /\ posted' = posted
      BY <1>1, <2>1, <2>2 DEF ReadContact, Locals
    <3>2. silenced # {} => optedOut
      BY DEF Hushed
    <3> QED BY <2>1, <3>1, <3>2, HushedKept
  <2>3. CASE ReadRequest(p)
    <3>1. /\ pc[p] = "send.request" /\ local'[p] = local[p] /\ posted' = posted
          /\ pc'[p] = "send.withdraw" \/ (pc'[p] = "send.post" /\ ~local[p].opted)
      BY <1>1, <2>1, <2>3 DEF ReadRequest, MustWithdraw
    <3>2. local[p].f \in silenced => local[p].opted
      BY <2>1, <3>1 DEF Hushed, Claiming
    <3> QED BY <2>1, <3>1, <3>2, HushedKept
  <2>4. CASE Post(p)
    <3>1. pc[p] = "send.post" /\ pc'[p] \notin Claiming
      BY <1>1, <2>1, <2>4 DEF Post, Claiming
    <3>2. local[p].f \notin silenced
      BY <2>1, <3>1 DEF Hushed, Claiming
    <3>3. \A f \in silenced : posted'[f] = posted[f]
      BY <2>4, <3>2 DEF Post, Shape, TypeOK
    <3> QED BY <2>1, <3>1, <3>3, HushedKept
  <2>5. CASE ClaimNext(p)
    <3>1. pc'[p] = "send.contact" /\ posted' = posted
      BY <1>1, <2>1, <2>5 DEF ClaimNext
    <3> QED BY <2>1, <3>1, HushedKept
  <2>6. CASE \/ BeginSend(p) \/ SkipClaimed(p) \/ EndSend(p) \/ Withdraw(p)
             \/ CreateSuccessor(p)
    <3>1. pc'[p] \notin Claiming /\ posted' = posted
      BY <1>1, <2>1, <2>6 DEF BeginSend, SkipClaimed, EndSend, Withdraw, CreateSuccessor, Claiming
    <3> QED BY <2>1, <3>1, HushedKept
  <2> QED BY <1>3, <2>2, <2>3, <2>4, <2>5, <2>6 DEF SendStep
<1>4. ASSUME NEW p \in Procs, Fail(p) PROVE Hushed'
  <2>1. pc'[p] \notin Claiming /\ OneMoved(p)
    BY <1>1, <1>4 DEF Fail, Claiming
  <2> QED BY <1>4, <2>1, HushedKept DEF Fail
<1>5. CASE UNCHANGED <<optedOut, posted, silenced, pc, local>>
  BY <1>5 DEF Hushed, StopHeard
<1> QED BY <1>2, <1>3, <1>4, <1>5 DEF Next, Erase, NewDay, vars

LEMMA HushedInit == Init => Hushed
  BY DEF Init, Hushed, StopHeard, Claiming

(* Once the STOP is stored, nothing that nobody had claimed is sent.       *)
THEOREM StopIsHeard == Spec => []StopHeard
<1>1. Shape /\ Claims /\ Hushed /\ [Next]_vars => Hushed'
  BY HushedStep
<1>2. Spec => []Hushed
  BY ClaimsInvariant, HushedInit, <1>1, PTL DEF Spec
<1> QED BY <1>2, PTL DEF Hushed

-----------------------------------------------------------------------------
(* Handlers one after another leave one follow-up planned, or none.        *)

(* While no two handlers are at work, the others are idle.                 *)
LEMMA Alone ==
  ASSUME Shape, Serial, InTurn, NEW p \in Procs, pc[p] # "idle"
  PROVE  /\ \A q \in Procs \ {p} : pc[q] = "idle"
         /\ AsRead(p) /\ OnePlanned
         /\ Planning => pc[p] \in {"plan.read", "plan.cancel"}
         /\ Silencing => pc[p] = "stop.rows"
  BY DEF Serial, Busy, Planning, Silencing

(* A handler may begin out of turn; one that goes on leaves things as they *)
(* were.                                                                   *)
LEMMA SerialKept ==
  ASSUME Shape, Shape', Serial, NEW p \in Procs, OneMoved(p), InTurn' => InTurn,
         InTurn' => \A q \in Procs \ {p} : pc[q] = "idle",
         InTurn' => AsRead(p)',
         InTurn' => \A f, g \in Pending' : f = g,
         InTurn' /\ Pending' # {} =>
           /\ request'.work \in {"DONE", "erased"} \/ pc'[p] \in {"plan.read", "plan.cancel"}
           /\ ~optedOut' \/ pc'[p] = "stop.rows"
  PROVE  Serial'
<1> SUFFICES ASSUME InTurn' PROVE Serial'
  BY DEF Serial
<1>1. \A q \in Procs \ {p} : pc'[q] = "idle"
  BY DEF OneMoved
<1>2. \A q, r \in Busy' : q = r
  BY <1>1 DEF Busy
<1>3. ASSUME NEW q \in Procs PROVE AsRead(q)'
  BY <1>1, <1>3 DEF AsRead, Claiming
<1>4. OnePlanned'
  BY DEF OnePlanned, Planning, Silencing
<1> QED BY <1>2, <1>3, <1>4 DEF Serial

(* A handler that begins in turn finds everybody idle and nothing half     *)
(* done.                                                                   *)
LEMMA BeginSerial ==
  ASSUME Shape, Shape', Serial, NEW p \in Procs, NEW point, NEW l \in Locals,
         Begin(p, point, l), UNCHANGED data,
         point \in {"update.write", "send.claim", "stop.optout", "want.write"},
         point = "update.write" => l.seen = request
  PROVE  Serial'
<1>1. /\ pc \in [Procs -> Points] /\ local \in [Procs -> Locals]
      /\ pc'[p] = point /\ local'[p] = l /\ OneMoved(p)
  BY DEF Shape, TypeOK, Begin, OneMoved
<1>2. InTurn' => InTurn /\ Busy = {}
  BY DEF InTurn, Begin
<1>3. InTurn' => (\A q \in Procs : pc[q] = "idle") /\ OnePlanned
  BY <1>2 DEF Busy, Serial
<1>4. InTurn' => ~Planning /\ ~Silencing
  BY <1>3 DEF Planning, Silencing
<1>5. Pending' = Pending /\ request' = request /\ optedOut' = optedOut
  BY DEF data, Pending
<1>6. AsRead(p)'
  BY <1>1, <1>5 DEF AsRead, Stands, Claiming
<1> QED BY <1>1, <1>2, <1>3, <1>4, <1>5, <1>6, SerialKept DEF OnePlanned

(* A handler that ends, having left one follow-up planned or none.         *)
LEMMA FinishSerial ==
  ASSUME Shape, Shape', Serial, NEW p \in Procs, NEW from, Finish(p, from), from # "idle",
         InTurn => \A f, g \in Pending' : f = g,
         InTurn /\ Pending' # {} => request'.work \in {"DONE", "erased"} /\ ~optedOut'
  PROVE  Serial'
<1>1. /\ pc \in [Procs -> Points] /\ local \in [Procs -> Locals]
      /\ pc[p] = from /\ pc'[p] = "idle" /\ OneMoved(p) /\ InTurn' = InTurn
  BY DEF Shape, TypeOK, Finish, Step, OneMoved, InTurn
<1>2. InTurn => \A q \in Procs \ {p} : pc[q] = "idle"
  BY <1>1, Alone
<1>3. AsRead(p)'
  BY <1>1 DEF AsRead, Claiming
<1> QED BY <1>1, <1>2, <1>3, SerialKept

(* A handler that goes on.                                                 *)
LEMMA StepSerial ==
  ASSUME Shape, Shape', Serial, NEW p \in Procs, NEW from, NEW to, Step(p, from, to),
         from # "idle", OneMoved(p),
         InTurn => AsRead(p)',
         InTurn => \A f, g \in Pending' : f = g,
         InTurn /\ Pending' # {} =>
           /\ request'.work \in {"DONE", "erased"} \/ to \in {"plan.read", "plan.cancel"}
           /\ ~optedOut' \/ to = "stop.rows"
  PROVE  Serial'
<1>1. pc[p] = from /\ pc'[p] = to /\ InTurn' = InTurn
  BY DEF Shape, TypeOK, Step, InTurn
<1>2. InTurn => \A q \in Procs \ {p} : pc[q] = "idle"
  BY <1>1, Alone
<1> QED BY <1>1, <1>2, SerialKept

(* What happens to the pending rows.                                       *)
LEMMA PendingAfter ==
  ASSUME TypeOK
  PROVE  /\ \A status \in RowStatuses \ {"PENDING"} : row' = PendingBecome(status) => Pending' = {}
         /\ \A due, recurring : Create(due, recurring) /\ Pending = {} =>
              \A f, g \in Pending' : f = g
         /\ \A f \in Ids, status \in RowStatuses \ {"PENDING"} :
              row' = [row EXCEPT ![f].status = status] => Pending' = Pending \ {f}
<1> USE DEF TypeOK, Pending, FollowUpRows
<1>1. ASSUME NEW status \in RowStatuses \ {"PENDING"}, row' = PendingBecome(status)
      PROVE  Pending' = {}
  BY <1>1 DEF PendingBecome
<1>2. ASSUME NEW due, NEW recurring, Create(due, recurring), Pending = {}
      PROVE  \A f, g \in Pending' : f = g
  BY <1>2 DEF Create
<1>3. ASSUME NEW f \in Ids, NEW status \in RowStatuses \ {"PENDING"},
             row' = [row EXCEPT ![f].status = status]
      PROVE  Pending' = Pending \ {f}
  BY <1>3
<1> QED BY <1>1, <1>2, <1>3

LEMMA DeskSerial ==
  ASSUME Shape, Shape', Serial, NEW p \in Desk, DeskStep(p)
  PROVE  Serial'
<1> USE DEF data, OneMoved
<1>1. /\ p \in Procs /\ pc \in [Procs -> Points] /\ local \in [Procs -> Locals]
      /\ TypeOK /\ request \in Requests
  BY DEF Procs, Shape, TypeOK
<1>2. CASE WriteUpdate(p)
  <2> DEFINE seen == local[p].seen
             next == local[p].next
  <2>1. /\ pc[p] = "update.write" /\ Pending' = Pending /\ optedOut' = optedOut
        /\ request' = IF request.work = "erased" THEN request ELSE Written(seen, next)
    BY <1>2 DEF WriteUpdate, Pending, Finish, Step
  <2>2. InTurn => OnePlanned /\ ~Planning /\ ~Silencing /\ Stands(seen)
    BY <1>1, <2>1, Alone DEF AsRead
  <2>3. CASE PlanChanged(seen, next)
    <3>1. Step(p, "update.write", "plan.read") /\ local' = [local EXCEPT ![p] = NoLocals]
      BY <1>2, <2>3 DEF WriteUpdate
    <3>2. AsRead(p)' /\ OneMoved(p)
      BY <1>1, <3>1 DEF Step, AsRead, Claiming
    <3> QED BY <1>1, <2>1, <2>2, <3>1, <3>2, StepSerial DEF OnePlanned
  <2>4. CASE ~PlanChanged(seen, next)
    <3>1. Finish(p, "update.write")
      BY <1>2, <2>4 DEF WriteUpdate
    <3>2. InTurn /\ request.work \in {"DONE", "erased"} => request'.work = request.work
      BY <2>1, <2>2, <2>4 DEF PlanChanged, Written, Stands
    <3> QED BY <1>1, <2>1, <2>2, <3>1, <3>2, FinishSerial DEF OnePlanned
  <2> QED BY <2>3, <2>4
<1>3. CASE ReadForPlan(p)
  <2>1. /\ pc[p] = "plan.read" /\ Pending' = Pending /\ optedOut' = optedOut
        /\ request' = request
    BY <1>3 DEF ReadForPlan, Pending, Finish, Step
  <2>2. InTurn => OnePlanned /\ ~Silencing
    BY <1>1, <2>1, Alone
  <2>3. CASE request.work = "erased" /\ Finish(p, "plan.read")
    BY <1>1, <2>1, <2>2, <2>3, FinishSerial DEF OnePlanned
  <2>4. CASE Step(p, "plan.read", "plan.cancel") /\ local' = [local EXCEPT ![p].seen = request]
    <3>1. local'[p].seen = request
      BY <1>1, <2>4 DEF Locals
    <3>2. AsRead(p)' /\ OneMoved(p)
      BY <1>1, <2>1, <2>4, <3>1 DEF Step, AsRead, Stands, Claiming
    <3> QED BY <1>1, <2>1, <2>2, <2>4, <3>2, StepSerial DEF OnePlanned
  <2> QED BY <1>3, <2>3, <2>4 DEF ReadForPlan
<1>4. CASE CancelPending(p)
  <2>1. /\ pc[p] = "plan.cancel" /\ Pending' = {} /\ optedOut' = optedOut
        /\ request' = request
    BY <1>1, <1>4, PendingAfter DEF CancelPending, CancelPlanned, RowStatuses, Finish, Step
  <2>2. CASE Finish(p, "plan.cancel")
    BY <1>1, <2>1, <2>2, FinishSerial
  <2>3. CASE local[p].seen.work = "DONE" /\ Step(p, "plan.cancel", "plan.contact")
             /\ UNCHANGED local
    <3>1. InTurn => AsRead(p)
      BY <1>1, <2>1, Alone
    <3>2. (InTurn => AsRead(p)') /\ OneMoved(p)
      BY <1>1, <2>1, <2>3, <3>1 DEF Step, AsRead, Stands, Claiming
    <3> QED BY <1>1, <2>1, <2>3, <3>2, StepSerial
  <2> QED BY <1>4, <2>2, <2>3 DEF CancelPending
<1>5. CASE ReadContactForPlan(p)
  <2>1. /\ pc[p] = "plan.contact" /\ Pending' = Pending /\ optedOut' = optedOut
        /\ request' = request
    BY <1>5 DEF ReadContactForPlan, Pending, Finish, Step
  <2>2. InTurn => AsRead(p)
    BY <1>1, <2>1, Alone
  <2>3. InTurn => Pending' = {}
    BY <2>1, <2>2 DEF AsRead
  <2>4. CASE Finish(p, "plan.contact")
    BY <1>1, <2>3, <2>4, FinishSerial
  <2>5. CASE ~optedOut /\ Step(p, "plan.contact", "plan.create") /\ UNCHANGED local
    <3>1. (InTurn => AsRead(p)') /\ OneMoved(p)
      BY <1>1, <2>1, <2>2, <2>5 DEF Step, AsRead, Stands, Claiming
    <3> QED BY <1>1, <2>3, <2>5, <3>1, StepSerial
  <2> QED BY <1>5, <2>4, <2>5 DEF ReadContactForPlan
<1>6. CASE CreateFollowUp(p)
  <2>1. pc[p] = "plan.create" /\ request' = request /\ optedOut' = optedOut
    BY <1>6 DEF CreateFollowUp, Finish, Step
  <2>2. InTurn => AsRead(p)
    BY <1>1, <2>1, Alone
  <2>3. InTurn => Pending = {} /\ ~optedOut /\ request.work \in {"DONE", "erased"}
    BY <2>1, <2>2 DEF AsRead, Stands
  <2>4. InTurn => \A f, g \in Pending' : f = g
    <3>1. CASE UNCHANGED row
      BY <2>3, <3>1 DEF Pending
    <3>2. ASSUME NEW due, Create(due, local[p].seen.plan = "yearly")
          PROVE  InTurn => \A f, g \in Pending' : f = g
      BY <1>1, <2>3, <3>2, PendingAfter
    <3> QED BY <1>6, <3>1, <3>2 DEF CreateFollowUp
  <2> QED BY <1>1, <1>6, <2>1, <2>3, <2>4, FinishSerial DEF CreateFollowUp
<1>7. CASE StoreOptOut(p)
  <2>1. /\ pc[p] = "stop.optout" /\ Pending' = Pending /\ request' = request
        /\ Step(p, "stop.optout", "stop.rows")
    BY <1>7 DEF StoreOptOut, Pending, Step
  <2>2. InTurn => OnePlanned /\ ~Planning
    BY <1>1, <2>1, Alone
  <2>3. AsRead(p)' /\ OneMoved(p)
    BY <1>1, <1>7 DEF StoreOptOut, Step, AsRead, Claiming
  <2> QED BY <1>1, <2>1, <2>2, <2>3, StepSerial DEF OnePlanned
<1>8. CASE StopPending(p)
  <2>1. Pending' = {}
    BY <1>1, <1>8, PendingAfter DEF StopPending, RowStatuses
  <2> QED BY <1>1, <1>8, <2>1, FinishSerial DEF StopPending
<1>9. CASE WriteWant(p)
  <2>1. pc[p] = "want.write" /\ request' = request /\ optedOut' = optedOut
    BY <1>9 DEF WriteWant, Finish, Step
  <2>2. local[p].f \in Ids
    BY <1>1, <2>1 DEF Shape, OnARow
  <2>3. Pending' \subseteq Pending
    <3>1. "YES" \in RowStatuses \ {"PENDING"}
      BY DEF RowStatuses
    <3> QED BY <1>1, <1>9, <2>2, <3>1, PendingAfter DEF WriteWant
  <2>4. InTurn => OnePlanned /\ ~Planning /\ ~Silencing
    BY <1>1, <2>1, Alone
  <2> QED BY <1>1, <1>9, <2>1, <2>3, <2>4, FinishSerial DEF WriteWant, OnePlanned
<1> QED
  BY <1>2, <1>3, <1>4, <1>5, <1>6, <1>7, <1>8, <1>9 DEF DeskStep

LEMMA JobSerial ==
  ASSUME Shape, Shape', Claims, Serial, NEW p \in Jobs, SendStep(p)
  PROVE  Serial'
<1> USE DEF data, OneMoved
<1>1. /\ p \in Procs /\ pc \in [Procs -> Points] /\ local \in [Procs -> Locals]
      /\ TypeOK
  BY DEF Procs, Shape, TypeOK
<1>2. CASE BeginSend(p)
  <2>1. [NoLocals EXCEPT !.todo = DueNow] \in Locals
    BY NothingHeld DEF Locals, DueNow, Pending
  <2> QED BY <1>1, <1>2, <2>1, BeginSerial DEF BeginSend
<1>3. CASE ClaimNext(p)
  <2>1. PICK f \in NextDue(p) :
          /\ Claimable(f)
          /\ row' = [row EXCEPT ![f].status = "SENT"]
          /\ Step(p, "send.claim", "send.contact")
          /\ local' = [local EXCEPT ![p].f = f, ![p].todo = @ \ {f}]
          /\ UNCHANGED <<request, optedOut, posted, silenced>>
    BY <1>3 DEF ClaimNext
  <2>2. f \in Ids /\ f \in Pending /\ pc[p] = "send.claim"
    BY <1>1, <2>1, Fields DEF NextDue, Claimable, Pending, Step
  <2>3. Pending' = Pending \ {f}
    <3>1. "SENT" \in RowStatuses \ {"PENDING"}
      BY DEF RowStatuses
    <3> QED BY <1>1, <2>1, <2>2, <3>1, PendingAfter
  <2>4. InTurn => OnePlanned /\ ~Planning /\ ~Silencing
    BY <1>1, <2>2, Alone
  <2>5. InTurn => Pending' = {} /\ request'.work \in {"DONE", "erased"} /\ ~optedOut'
    BY <2>1, <2>2, <2>3, <2>4 DEF OnePlanned
  <2>6. pc'[p] = "send.contact" /\ OneMoved(p)
    BY <1>1, <2>1 DEF Step
  <2>7. InTurn => AsRead(p)'
    BY <2>5, <2>6 DEF AsRead
  <2> QED BY <1>1, <2>1, <2>5, <2>6, <2>7, StepSerial
<1>4. CASE SkipClaimed(p)
  <2>1. /\ pc[p] = "send.claim" /\ pc'[p] = "send.claim" /\ OneMoved(p)
        /\ Step(p, "send.claim", "send.claim") /\ UNCHANGED data /\ Pending' = Pending
    BY <1>1, <1>4 DEF SkipClaimed, Step, Pending
  <2>2. InTurn => OnePlanned /\ ~Planning /\ ~Silencing
    BY <1>1, <2>1, Alone
  <2>3. AsRead(p)'
    BY <2>1 DEF AsRead, Claiming
  <2> QED BY <1>1, <2>1, <2>2, <2>3, StepSerial DEF OnePlanned
<1>5. CASE EndSend(p)
  <2>1. /\ pc[p] = "send.claim" /\ UNCHANGED data /\ Pending' = Pending
    BY <1>1, <1>5 DEF EndSend, Finish, Step, Pending
  <2>2. InTurn => OnePlanned /\ ~Planning /\ ~Silencing
    BY <1>1, <2>1, Alone
  <2> QED BY <1>1, <1>5, <2>1, <2>2, FinishSerial DEF EndSend, OnePlanned
<1>6. ASSUME ReadContact(p) \/ ReadRequest(p) \/ Withdraw(p) \/ Post(p) PROVE Serial'
  <2>1. PICK to \in {"send.request", "send.post", "send.withdraw", "send.claim", "send.again"},
             from \in Claiming :
          Step(p, from, to)
    BY <1>6 DEF ReadContact, ReadRequest, Withdraw, Post, Claiming
  <2>2. OneMoved(p) /\ request' = request /\ optedOut' = optedOut
    BY <1>1, <1>6 DEF ReadContact, ReadRequest, Withdraw, Post, Step
  <2>3. pc[p] = from /\ pc'[p] = to /\ from # "idle"
    BY <1>1, <2>1 DEF Step, Claiming
  <2>4. InTurn => Pending = {} /\ request.work \in {"DONE", "erased"} /\ ~optedOut
    BY <1>1, <2>3, Alone DEF AsRead
  <2>5. Pending' \subseteq Pending
    <3>1. CASE Withdraw(p)
      <4>1. PICK status \in {"OPTED_OUT", "CANCELLED"} :
              row' = [row EXCEPT ![local[p].f].status = status]
        BY <3>1, Zenon DEF Withdraw
      <4>2. local[p].f \in Ids
        BY <1>1, <2>3 DEF Shape, OnARow
      <4>3. status \in RowStatuses \ {"PENDING"}
        BY DEF RowStatuses
      <4> QED BY <1>1, <4>1, <4>2, <4>3, PendingAfter
    <3>2. CASE ReadContact(p) \/ ReadRequest(p) \/ Post(p)
      BY <3>2 DEF ReadContact, ReadRequest, Post, Pending
    <3> QED BY <1>6, <3>1, <3>2
  <2>6. InTurn => AsRead(p)'
    BY <2>2, <2>3, <2>4, <2>5 DEF AsRead
  <2> QED BY <1>1, <2>1, <2>2, <2>3, <2>4, <2>5, <2>6, StepSerial
<1>7. CASE CreateSuccessor(p)
  <2>1. /\ Step(p, "send.again", "send.claim") /\ OneMoved(p) /\ pc[p] = "send.again"
        /\ request' = request /\ optedOut' = optedOut /\ pc'[p] = "send.claim"
        /\ Create(row[local[p].f].due + Year, TRUE)
    BY <1>1, <1>7 DEF CreateSuccessor, Step
  <2>2. InTurn => Pending = {} /\ request.work \in {"DONE", "erased"} /\ ~optedOut
    BY <1>1, <2>1, Alone DEF AsRead
  <2>3. InTurn => \A f, g \in Pending' : f = g
    BY <1>1, <2>1, <2>2, PendingAfter
  <2>4. AsRead(p)'
    BY <2>1 DEF AsRead, Claiming
  <2> QED BY <1>1, <2>1, <2>2, <2>3, <2>4, StepSerial
<1> QED
  BY <1>2, <1>3, <1>4, <1>5, <1>6, <1>7 DEF SendStep

LEMMA SerialStep ==
  ASSUME Shape, Shape', Claims, Serial, [Next]_vars
  PROVE  Serial'
<1>1. /\ pc \in [Procs -> Points] /\ local \in [Procs -> Locals]
      /\ Desk \subseteq Procs /\ Jobs \subseteq Procs /\ TypeOK
  BY DEF Procs, Shape, TypeOK
<1>2. ASSUME NEW p \in Desk, NEW next \in [work : WorkStatuses, plan : Plans], BeginUpdate(p, next)
      PROVE  Serial'
  <2> DEFINE l == [NoLocals EXCEPT !.seen = request, !.next = next]
  <2>1. next \in Requests /\ request \in Requests
    BY <1>1 DEF Requests, TypeOK
  <2>2. l \in Locals /\ l.seen = request
    BY <2>1, NothingHeld DEF NoLocals
  <2> HIDE DEF l
  <2> QED BY <1>1, <1>2, <2>2, BeginSerial DEF BeginUpdate, l
<1>3. ASSUME NEW p \in Desk, BeginStop(p) \/ BeginWant(p) PROVE Serial'
  <2>1. \A f \in Ids : [NoLocals EXCEPT !.f = f] \in Locals
    BY NothingHeld DEF Locals
  <2> QED BY <1>1, <1>3, <2>1, NothingHeld, BeginSerial DEF BeginStop, BeginWant
<1>4. ASSUME NEW p \in Procs, Fail(p) PROVE Serial'
  <2>1. fails' # 0
    BY <1>1, <1>4 DEF Fail, TypeOK
  <2> QED BY <2>1 DEF Serial, InTurn
<1>5. CASE Erase
  <2>1. /\ request'.work = "erased" /\ UNCHANGED <<optedOut, row, pc, local, fails, overlap>>
    BY <1>1, <1>5 DEF Erase, Requests, TypeOK
  <2>2. Pending' = Pending /\ Busy' = Busy /\ InTurn' = InTurn /\ Silencing' = Silencing
    BY <2>1 DEF Pending, Busy, InTurn, Silencing
  <2>3. ASSUME NEW p \in Procs, AsRead(p) PROVE AsRead(p)'
    BY <2>1, <2>2, <2>3 DEF AsRead, Stands
  <2>4. OnePlanned => OnePlanned'
    BY <2>1, <2>2 DEF OnePlanned
  <2> QED BY <2>2, <2>3, <2>4 DEF Serial
<1>6. CASE UNCHANGED <<data, pc, local, fails, overlap>>
  BY <1>6 DEF data, Serial, InTurn, Busy, AsRead, Stands, OnePlanned, Pending, Planning, Silencing
<1> QED
  BY <1>2, <1>3, <1>4, <1>5, <1>6, DeskSerial, JobSerial DEF Next, NewDay, vars, data

LEMMA SerialInit == Init => Serial
  BY DEF Init, Serial, Busy, AsRead, OnePlanned, Pending, NoRow, Claiming

(* Handlers that ran one after another leave one follow-up planned, for a  *)
(* request that is DONE and a customer who may be written to.              *)
THEOREM PlansFollowTheRequest == Spec => []PlannedWhenDone
<1>1. Shape /\ Shape' /\ Claims /\ Serial /\ [Next]_vars => Serial'
  BY SerialStep
<1>2. Serial => PlannedWhenDone
  BY DEF Serial, InTurn, OnePlanned, Planning, Silencing, Busy, PlannedWhenDone
<1>3. Spec => []Serial
  BY ClaimsInvariant, SerialInit, <1>1, PTL DEF Spec
<1> QED BY <1>2, <1>3, PTL

-----------------------------------------------------------------------------

(* The notices.                                                            *)

Those(point) == {p \in Workers : doing[p] = point}

(* Who has claimed a notice that is still to be posted.                    *)
Reminding == Those("remind.post")
Asking == Those("ask.post")

(* A claim that is still free; the reminder is none without a date.        *)
FreeReminder == IF intake.reminded \/ changes = 0 THEN 0 ELSE 1
FreeQuestion == IF intake.asked THEN 0 ELSE 1

RemindersCounted ==
  /\ IsFiniteSet(Reminding)
  /\ sent.reminder + Cardinality(Reminding) + FreeReminder <= changes
  /\ changes = 0 => intake.registry = NoDay
  /\ \A p \in Workers : doing[p] = "remind.claim" => changes > 0

QuestionsCounted ==
  /\ IsFiniteSet(Asking)
  /\ sent.question + Cardinality(Asking) + FreeQuestion <= 1

Counted == RemindersCounted /\ QuestionsCounted

Dated ==
  \A p \in Workers :
    doing[p] \in {"remind.claim", "remind.post"} => copy[p].registry \in RegistryDays

(* What one worker at work knows.                                          *)
Knows(p) ==
  /\ doing[p] = "update.write" => copy[p].seen = ReadForUpdate
  /\ doing[p] = "done.post" => ~intake.packet
  /\ doing[p] \in {"remind.claim", "remind.post"} =>
       /\ copy[p].registry = intake.registry /\ copy[p].time = intake.time
       /\ intake.registry # NoDay
  /\ doing[p] = "ask.store" => talk = "none"
  /\ doing[p] \in {"rate.store", "rate.talk"} => talk = "rating"
  /\ doing[p] = "rate.talk" => intake.rating = copy[p].rating

PacketInTurn ==
  /\ sent.packet <= 1
  /\ sent.packet = 1 => intake.packet \/ \E p \in Workers : doing[p] = "done.store"

ReminderInTurn ==
  intake.reminded =>
    /\ intake.registry # NoDay
    /\ told = <<intake.registry, intake.time>> \/ \E p \in Workers : doing[p] = "remind.post"

OneByOne ==
  ~mingled =>
    /\ \A p, q \in AtWork : p = q
    /\ \A p \in Workers : Knows(p)
    /\ PacketInTurn /\ ReminderInTurn
    /\ talk = "feedback" => intake.rating = "low"

-----------------------------------------------------------------------------
(* Types.                                                                  *)

(* What a worker that has read nothing holds, and what one reads.          *)
LEMMA CopiesTyped ==
  /\ NoCopy \in Copies
  /\ \A seen \in ReadRows, work \in Statuses, registry \in RegistryDays \union {NoDay},
        time \in RegistryTimes :
       [NoCopy EXCEPT !.seen = seen, !.work = work, !.registry = registry, !.time = time] \in Copies
  /\ \A registry \in RegistryDays \union {NoDay}, time \in RegistryTimes :
       [NoCopy EXCEPT !.registry = registry, !.time = time] \in Copies
  /\ \A rating \in {"low", "high"} : [NoCopy EXCEPT !.rating = rating] \in Copies
<1>1. NoCopy \in Copies
  BY DEF NoCopy, Copies, ReadRows, RegistryTimes, Statuses, Ratings, NoDay
<1>2. ASSUME NEW seen \in ReadRows, NEW work \in Statuses,
             NEW registry \in RegistryDays \union {NoDay}, NEW time \in RegistryTimes
      PROVE  [NoCopy EXCEPT !.seen = seen, !.work = work, !.registry = registry, !.time = time]
               \in Copies
  BY <1>1 DEF Copies
<1>3. ASSUME NEW registry \in RegistryDays \union {NoDay}, NEW time \in RegistryTimes
      PROVE  [NoCopy EXCEPT !.registry = registry, !.time = time] \in Copies
  BY <1>1 DEF Copies
<1>4. ASSUME NEW rating \in {"low", "high"} PROVE [NoCopy EXCEPT !.rating = rating] \in Copies
  BY <1>1 DEF Copies, Ratings
<1> QED BY <1>1, <1>2, <1>3, <1>4

(* Each column of the intake, written on its own, keeps its type.          *)
LEMMA ColumnsTyped ==
  ASSUME NEW saved \in RequestRows
  PROVE  /\ saved.work \in Statuses /\ saved.closed \in Days \union {NoDay}
         /\ saved.registry \in RegistryDays \union {NoDay} /\ saved.time \in RegistryTimes
         /\ saved.rating \in Ratings
         /\ saved.reminded \in BOOLEAN /\ saved.packet \in BOOLEAN /\ saved.asked \in BOOLEAN
         /\ \A b \in BOOLEAN : /\ [saved EXCEPT !.reminded = b] \in RequestRows
                               /\ [saved EXCEPT !.packet = b] \in RequestRows
                               /\ [saved EXCEPT !.asked = b] \in RequestRows
                               /\ [saved EXCEPT !.feedback = b] \in RequestRows
         /\ \A rating \in Ratings : [saved EXCEPT !.rating = rating] \in RequestRows
         /\ \A work \in Statuses, closed \in Days \union {NoDay} :
              [saved EXCEPT !.work = work, !.closed = closed] \in RequestRows
         /\ \A registry \in RegistryDays \union {NoDay}, time \in RegistryTimes, b \in BOOLEAN :
              [saved EXCEPT !.registry = registry, !.time = time, !.reminded = b] \in RequestRows
<1>1. /\ saved.work \in Statuses /\ saved.closed \in Days \union {NoDay}
      /\ saved.registry \in RegistryDays \union {NoDay} /\ saved.time \in RegistryTimes
      /\ saved.rating \in Ratings
      /\ saved.reminded \in BOOLEAN /\ saved.packet \in BOOLEAN /\ saved.asked \in BOOLEAN
  BY DEF RequestRows
<1>2. ASSUME NEW b \in BOOLEAN
      PROVE  /\ [saved EXCEPT !.reminded = b] \in RequestRows
             /\ [saved EXCEPT !.packet = b] \in RequestRows
             /\ [saved EXCEPT !.asked = b] \in RequestRows
             /\ [saved EXCEPT !.feedback = b] \in RequestRows
  BY DEF RequestRows
<1>3. ASSUME NEW rating \in Ratings PROVE [saved EXCEPT !.rating = rating] \in RequestRows
  BY DEF RequestRows
<1>4. ASSUME NEW work \in Statuses, NEW closed \in Days \union {NoDay}
      PROVE  [saved EXCEPT !.work = work, !.closed = closed] \in RequestRows
  BY DEF RequestRows
<1>5. ASSUME NEW registry \in RegistryDays \union {NoDay}, NEW time \in RegistryTimes,
             NEW b \in BOOLEAN
      PROVE  [saved EXCEPT !.registry = registry, !.time = time, !.reminded = b] \in RequestRows
  BY DEF RequestRows
<1> QED BY <1>1, <1>2, <1>3, <1>4, <1>5

(* The row after an update is one, and the update sends nothing.           *)
LEMMA UpdateTyped ==
  ASSUME NoticeTypeOK, NEW seen \in ReadRows, NEW work \in Statuses,
         NEW registry \in RegistryDays \union {NoDay}, NEW time \in RegistryTimes
  PROVE  LET saved == Updated(seen, work, registry, time) IN
         /\ saved \in RequestRows
         /\ saved.packet = intake.packet /\ saved.asked = intake.asked
         /\ saved.rating = intake.rating
         /\ seen.registry = registry => saved.registry = intake.registry
         /\ seen.time = time => saved.time = intake.time
         /\ saved.reminded = (intake.reminded /\ ~RegistryChanged(seen, registry, time))
         /\ saved.reminded => intake.reminded /\ ~RegistryChanged(seen, registry, time)
<1>1. day \in Days /\ intake \in RequestRows
  BY DEF NoticeTypeOK
<1> DEFINE staffs == IF work = seen.work THEN intake
                     ELSE [intake EXCEPT !.work = work, !.closed = ClosedFor(seen, work)]
           date == IF registry = seen.registry THEN intake.registry ELSE registry
           hour == IF time = seen.time THEN intake.time ELSE time
           mark == intake.reminded /\ ~RegistryChanged(seen, registry, time)
<1>2. ClosedFor(seen, work) \in Days \union {NoDay}
  BY <1>1 DEF ClosedFor, ReadRows
<1>3. staffs \in RequestRows
  BY <1>1, <1>2, ColumnsTyped
<1>4. /\ staffs.packet = intake.packet /\ staffs.asked = intake.asked
      /\ staffs.rating = intake.rating /\ staffs.registry = intake.registry
      /\ staffs.time = intake.time /\ staffs.reminded = intake.reminded
  BY <1>1 DEF RequestRows
<1>5. Updated(seen, work, registry, time) =
        [staffs EXCEPT !.registry = date, !.time = hour, !.reminded = mark]
  BY <1>3, <1>4 DEF Updated, RequestRows
<1>6. date \in RegistryDays \union {NoDay} /\ hour \in RegistryTimes /\ mark \in BOOLEAN
  BY <1>1, ColumnsTyped
<1>7. /\ registry = seen.registry => date = intake.registry
      /\ time = seen.time => hour = intake.time
  OBVIOUS
<1>8. mark = (intake.reminded /\ ~RegistryChanged(seen, registry, time))
  OBVIOUS
<1> HIDE DEF staffs, date, hour, mark
<1>9. [staffs EXCEPT !.registry = date, !.time = hour, !.reminded = mark] \in RequestRows
  BY <1>3, <1>6, ColumnsTyped
<1> DEFINE after == [staffs EXCEPT !.registry = date, !.time = hour, !.reminded = mark]
<1>10. /\ after.packet = staffs.packet /\ after.asked = staffs.asked /\ after.rating = staffs.rating
       /\ after.registry = date /\ after.time = hour /\ after.reminded = mark
  BY <1>3 DEF RequestRows
<1> HIDE DEF after
<1>11. Updated(seen, work, registry, time) = after /\ after \in RequestRows
  BY <1>5, <1>9 DEF after
<1> QED BY <1>4, <1>7, <1>8, <1>10, <1>11

LEMMA TypesStart == NoticeInit => NoticeTypeOK
<1> SUFFICES ASSUME NoticeInit PROVE NoticeTypeOK
  OBVIOUS
<1>1. day \in Days /\ updates \in 0..MaxUpdates /\ changes \in Nat
  BY NoticeAssumption DEF NoticeInit, Days
<1>2. intake \in RequestRows
  BY DEF NoticeInit, NewRequest, RequestRows, RegistryTimes, Statuses, Ratings, NoDay
<1>3. doing \in [Workers -> NoticePoints] /\ copy \in [Workers -> Copies]
  BY CopiesTyped DEF NoticeInit, NoticePoints
<1>4. sent \in [{"reminder", "packet", "question"} -> Nat]
  BY DEF NoticeInit
<1> QED
  BY <1>1, <1>2, <1>3, <1>4 DEF NoticeInit, NoticeTypeOK, RegistryTimes, Talks

(* What the next step of a worker at work may do, and where it begins.     *)
HandlerStep(p) ==
  \/ WriteChange(p) \/ ReadForPacket(p) \/ PostPacket(p) \/ StorePacket(p)
  \/ StoreRating(p) \/ TalkAfter(p) \/ StoreFeedback(p) \/ EndFeedback(p)
JobStep(p) ==
  \/ ClaimReminder(p) \/ PostReminder(p)
  \/ ClaimQuestion(p) \/ PostQuestion(p) \/ ReadTalk(p) \/ StoreTalk(p)
Beginning(p) ==
  \/ \E work \in Statuses, registry \in RegistryDays \union {NoDay}, time \in RegistryTimes :
       BeginChange(p, work, registry, time)
  \/ \E rating \in {"low", "high"} : BeginRate(p, rating)
  \/ BeginFeedback(p) \/ BeginRemind(p) \/ BeginAsk(p)

(* The step of a worker moves that worker alone.                           *)
LEMMA StepsSplit ==
  ASSUME [NoticeNext]_noticeVars
  PROVE  \/ \E p \in Workers : HandlerStep(p) \/ JobStep(p) \/ Beginning(p)
         \/ OtherTalk \/ NextDay \/ UNCHANGED noticeVars
  BY DEF NoticeNext, HandlerStep, JobStep, Beginning, Workers

LEMMA BeginningTyped ==
  ASSUME NoticeTypeOK, NEW p \in Workers, Beginning(p)
  PROVE  NoticeTypeOK'
<1> USE DEF NoticeTypeOK
<1>1. PICK point \in NoticePoints, l \in Copies : BeginCall(p, point, l)
  <2>1. ASSUME NEW work \in Statuses, NEW registry \in RegistryDays \union {NoDay},
               NEW time \in RegistryTimes, BeginChange(p, work, registry, time)
        PROVE  \E point \in NoticePoints, l \in Copies : BeginCall(p, point, l)
    <3>1. "update.write" \in NoticePoints
      BY DEF NoticePoints
    <3>2. ReadForUpdate \in ReadRows
      BY ColumnsTyped DEF ReadForUpdate, ReadRows
    <3> QED BY <2>1, <3>1, <3>2, CopiesTyped DEF BeginChange
  <2>2. ASSUME NEW rating \in {"low", "high"}, BeginRate(p, rating)
        PROVE  \E point \in NoticePoints, l \in Copies : BeginCall(p, point, l)
    <3>1. "rate.store" \in NoticePoints
      BY DEF NoticePoints
    <3> QED BY <2>2, <3>1, CopiesTyped DEF BeginRate
  <2>3. CASE BeginFeedback(p) \/ BeginAsk(p)
    <3>1. {"feedback.store", "ask.claim"} \subseteq NoticePoints
      BY DEF NoticePoints
    <3> QED BY <2>3, <3>1, CopiesTyped DEF BeginFeedback, BeginAsk
  <2>4. CASE BeginRemind(p)
    <3>1. /\ "remind.claim" \in NoticePoints /\ intake.registry \in RegistryDays \union {NoDay}
          /\ intake.time \in RegistryTimes
      BY ColumnsTyped DEF NoticePoints
    <3> QED BY <2>4, <3>1, CopiesTyped DEF BeginRemind
  <2> QED BY <2>1, <2>2, <2>3, <2>4 DEF Beginning
<1>2. updates' \in 0..MaxUpdates
  <2>1. updates' = updates \/ (updates < MaxUpdates /\ updates' = updates + 1)
    BY DEF Beginning, BeginChange, BeginRate, BeginFeedback, BeginRemind, BeginAsk
  <2> QED BY <2>1, NoticeAssumption
<1> QED BY <1>1, <1>2 DEF BeginCall, columns

LEMMA HandlerTyped ==
  ASSUME NoticeTypeOK, NEW p \in Workers, HandlerStep(p)
  PROVE  NoticeTypeOK'
<1> USE DEF NoticeTypeOK, GoesOn, Ends, columns, Sent
<1>1. /\ {"idle", "update.write", "done.read", "done.post", "done.store", "rate.talk",
          "feedback.talk"} \subseteq NoticePoints
      /\ copy[p] \in Copies /\ NoCopy \in Copies
  BY CopiesTyped DEF NoticePoints
<1>2. CASE WriteChange(p)
  <2>1. /\ copy[p].seen \in ReadRows /\ copy[p].work \in Statuses
        /\ copy[p].registry \in RegistryDays \union {NoDay} /\ copy[p].time \in RegistryTimes
    BY <1>1 DEF Copies
  <2>2. intake' \in RequestRows
    BY <1>2, <2>1, UpdateTyped DEF WriteChange
  <2>3. changes' \in Nat
    BY <1>2 DEF WriteChange
  <2> QED BY <1>1, <1>2, <2>2, <2>3 DEF WriteChange
<1>3. CASE ReadForPacket(p)
  BY <1>1, <1>3 DEF ReadForPacket
<1>4. CASE PostPacket(p)
  BY <1>1, <1>4 DEF PostPacket
<1>5. CASE StorePacket(p)
  BY <1>1, <1>5, ColumnsTyped DEF StorePacket
<1>6. CASE StoreRating(p)
  <2>1. intake' \in RequestRows
    BY <1>1, <1>6, ColumnsTyped DEF StoreRating, Copies
  <2> QED BY <1>1, <1>6, <2>1 DEF StoreRating
<1>7. CASE TalkAfter(p)
  BY <1>1, <1>7 DEF TalkAfter, TalkAfterRating, Talks
<1>8. CASE StoreFeedback(p)
  BY <1>1, <1>8, ColumnsTyped DEF StoreFeedback
<1>9. CASE EndFeedback(p)
  BY <1>1, <1>9 DEF EndFeedback, Talks
<1> QED BY <1>2, <1>3, <1>4, <1>5, <1>6, <1>7, <1>8, <1>9 DEF HandlerStep

LEMMA JobTyped ==
  ASSUME NoticeTypeOK, Dated, NEW p \in Workers, JobStep(p)
  PROVE  NoticeTypeOK'
<1> USE DEF NoticeTypeOK, GoesOn, Ends, columns, Sent
<1>1. /\ {"idle", "remind.post", "ask.post", "ask.talk", "ask.store"} \subseteq NoticePoints
      /\ copy[p] \in Copies /\ NoCopy \in Copies
  BY CopiesTyped DEF NoticePoints
<1>2. CASE ClaimReminder(p)
  BY <1>1, <1>2, ColumnsTyped DEF ClaimReminder
<1>3. CASE PostReminder(p)
  <2>1. told' \in (RegistryDays \union {NoDay}) \X RegistryTimes
    BY <1>1, <1>3 DEF PostReminder, Copies
  <2> QED BY <1>1, <1>3, <2>1 DEF PostReminder
<1>4. CASE ClaimQuestion(p)
  BY <1>1, <1>4, ColumnsTyped DEF ClaimQuestion
<1>5. CASE PostQuestion(p)
  BY <1>1, <1>5 DEF PostQuestion
<1>6. CASE ReadTalk(p)
  BY <1>1, <1>6 DEF ReadTalk
<1>7. CASE StoreTalk(p)
  BY <1>1, <1>7 DEF StoreTalk, Talks
<1> QED BY <1>2, <1>3, <1>4, <1>5, <1>6, <1>7 DEF JobStep

LEMMA TypesKept == NoticeTypeOK /\ Dated /\ [NoticeNext]_noticeVars => NoticeTypeOK'
<1> SUFFICES ASSUME NoticeTypeOK, Dated, [NoticeNext]_noticeVars PROVE NoticeTypeOK'
  OBVIOUS
<1>1. CASE OtherTalk
  BY <1>1 DEF NoticeTypeOK, OtherTalk, Talks
<1>2. CASE NextDay
  BY <1>2, NoticeAssumption DEF NoticeTypeOK, NextDay, Days, columns
<1>3. CASE UNCHANGED noticeVars
  BY <1>3 DEF NoticeTypeOK, noticeVars
<1> QED BY <1>1, <1>2, <1>3, StepsSplit, BeginningTyped, HandlerTyped, JobTyped

(* A reminder is begun for a date, and keeps it until it is posted.        *)
LEMMA DatesKept == NoticeTypeOK /\ Dated /\ [NoticeNext]_noticeVars => Dated'
<1> SUFFICES ASSUME NoticeTypeOK, Dated, [NoticeNext]_noticeVars PROVE Dated'
  OBVIOUS
<1> USE DEF NoticeTypeOK, Dated
<1>1. ASSUME NEW p \in Workers, NEW point, NEW l,
             point \in {"remind.claim", "remind.post"} => l.registry \in RegistryDays,
             doing' = [doing EXCEPT ![p] = point], copy' = [copy EXCEPT ![p] = l]
      PROVE  Dated'
  BY <1>1
<1>2. ASSUME NEW p \in Workers, HandlerStep(p) PROVE Dated'
  BY <1>2 DEF HandlerStep, WriteChange, ReadForPacket, PostPacket, StorePacket, StoreRating,
    TalkAfter, StoreFeedback, EndFeedback, GoesOn, Ends
<1>3. ASSUME NEW p \in Workers, JobStep(p) PROVE Dated'
  BY <1>3 DEF JobStep, ClaimReminder, PostReminder, ClaimQuestion, PostQuestion, ReadTalk,
    StoreTalk, GoesOn, Ends
<1>4. ASSUME NEW p \in Workers, Beginning(p) PROVE Dated'
  <2>1. ASSUME BeginRemind(p) PROVE Dated'
    <3>1. /\ intake.registry \in RegistryDays
          /\ [NoCopy EXCEPT !.registry = intake.registry, !.time = intake.time].registry
               = intake.registry
      BY <2>1, NoticeAssumption DEF BeginRemind, Days, RegistryDays, NoCopy
    <3> QED BY <1>1, <2>1, <3>1 DEF BeginRemind, BeginCall
  <2> QED BY <1>4, <2>1
    DEF Beginning, BeginChange, BeginRate, BeginFeedback, BeginAsk, BeginCall
<1>5. CASE OtherTalk \/ NextDay \/ UNCHANGED noticeVars
  BY <1>5 DEF OtherTalk, NextDay, noticeVars
<1> QED BY <1>2, <1>3, <1>4, <1>5, StepsSplit

LEMMA TypesInvariant == NoticeSpec => [](NoticeTypeOK /\ Dated)
<1>1. NoticeInit => Dated
  BY DEF NoticeInit, Dated
<1> QED BY <1>1, TypesStart, TypesKept, DatesKept, PTL DEF NoticeSpec

(* The type invariant of RequestNotices.                                   *)
THEOREM NoticeTypesCorrect == NoticeSpec => []NoticeTypeOK
  BY TypesInvariant, PTL

-----------------------------------------------------------------------------
(* A reminder per date and one question, whoever overlaps.                 *)

(* How many stand at a point, when one worker moves.                       *)
LEMMA Moved ==
  ASSUME NoticeTypeOK, NEW p \in Workers, NEW to, NEW at,
         doing' = [doing EXCEPT ![p] = to], IsFiniteSet(Those(at))
  PROVE  /\ IsFiniteSet(Those(at)') /\ Cardinality(Those(at)) \in Nat
         /\ to = at /\ doing[p] # at => Cardinality(Those(at)') = Cardinality(Those(at)) + 1
         /\ to # at /\ doing[p] = at => Cardinality(Those(at)') = Cardinality(Those(at)) - 1
         /\ to # at /\ doing[p] # at => Cardinality(Those(at)') = Cardinality(Those(at))
<1>1. CASE to = at /\ doing[p] # at
  <2>1. Those(at)' = Those(at) \union {p} /\ p \notin Those(at)
    BY <1>1 DEF NoticeTypeOK, Those
  <2> QED BY <1>1, <2>1, FS_AddElement, FS_CardinalityType
<1>2. CASE to # at /\ doing[p] = at
  <2>1. Those(at)' = Those(at) \ {p} /\ p \in Those(at)
    BY <1>2 DEF NoticeTypeOK, Those
  <2> QED BY <1>2, <2>1, FS_RemoveElement, FS_CardinalityType
<1>3. CASE (to = at) <=> (doing[p] = at)
  <2>1. Those(at)' = Those(at)
    BY <1>3 DEF NoticeTypeOK, Those
  <2> QED BY <1>3, <2>1, FS_CardinalityType
<1> QED BY <1>1, <1>2, <1>3

LEMMA RemindersMoved ==
  ASSUME NoticeTypeOK, Counted, NEW p \in Workers, NEW to \in NoticePoints,
         doing' = [doing EXCEPT ![p] = to]
  PROVE  /\ IsFiniteSet(Reminding')
         /\ to = "remind.post" /\ doing[p] # "remind.post" =>
              Cardinality(Reminding') = Cardinality(Reminding) + 1
         /\ to # "remind.post" /\ doing[p] = "remind.post" =>
              Cardinality(Reminding') = Cardinality(Reminding) - 1
         /\ to # "remind.post" /\ doing[p] # "remind.post" =>
              Cardinality(Reminding') = Cardinality(Reminding)
  BY Moved DEF Counted, RemindersCounted, Reminding

LEMMA AskersMoved ==
  ASSUME NoticeTypeOK, Counted, NEW p \in Workers, NEW to \in NoticePoints,
         doing' = [doing EXCEPT ![p] = to]
  PROVE  /\ IsFiniteSet(Asking')
         /\ to = "ask.post" /\ doing[p] # "ask.post" =>
              Cardinality(Asking') = Cardinality(Asking) + 1
         /\ to # "ask.post" /\ doing[p] = "ask.post" =>
              Cardinality(Asking') = Cardinality(Asking) - 1
         /\ to # "ask.post" /\ doing[p] # "ask.post" =>
              Cardinality(Asking') = Cardinality(Asking)
  BY Moved DEF Counted, QuestionsCounted, Asking

LEMMA CountedStart == NoticeInit => Counted
<1> SUFFICES ASSUME NoticeInit PROVE Counted
  OBVIOUS
<1>1. Reminding = {} /\ Asking = {}
  BY DEF NoticeInit, Reminding, Asking, Those
<1>2. /\ sent.reminder = 0 /\ sent.question = 0 /\ changes = 0
      /\ FreeReminder = 0 /\ FreeQuestion = 1
      /\ intake.registry = NoDay /\ \A p \in Workers : doing[p] # "remind.claim"
  BY DEF NoticeInit, FreeReminder, FreeQuestion, NewRequest
<1> QED
  BY <1>1, <1>2, FS_EmptySet DEF Counted, RemindersCounted, QuestionsCounted

(* A step that claims nothing, posts neither notice and keeps the date.    *)
LEMMA NothingClaimed ==
  ASSUME NoticeTypeOK, Counted, NEW p \in Workers, NEW to,
         doing' = [doing EXCEPT ![p] = to],
         to \notin {"remind.post", "ask.post"}, doing[p] \notin {"remind.post", "ask.post"},
         to = "remind.claim" => intake.registry # NoDay,
         sent'.reminder = sent.reminder, sent'.question = sent.question, changes' = changes,
         intake'.registry = intake.registry, intake'.reminded = intake.reminded,
         intake'.asked = intake.asked
  PROVE  Counted'
<1> USE DEF Counted, RemindersCounted, QuestionsCounted, Reminding, Asking
<1>1. FreeReminder' = FreeReminder /\ FreeQuestion' = FreeQuestion
  BY DEF FreeReminder, FreeQuestion
<1>2. /\ IsFiniteSet(Reminding') /\ Cardinality(Reminding') = Cardinality(Reminding)
      /\ IsFiniteSet(Asking') /\ Cardinality(Asking') = Cardinality(Asking)
  BY Moved
<1>3. \A q \in Workers : doing'[q] = "remind.claim" => changes' > 0
  BY DEF NoticeTypeOK
<1> QED BY <1>1, <1>2, <1>3

LEMMA HandlerCounted ==
  ASSUME NoticeTypeOK, Counted, NEW p \in Workers, HandlerStep(p)
  PROVE  Counted'
<1> USE DEF GoesOn, Ends, Sent
<1>1. CASE WriteChange(p)
  <2> DEFINE seen == copy[p].seen
             registry == copy[p].registry
             time == copy[p].time
  <2>1. /\ seen \in ReadRows /\ copy[p].work \in Statuses
        /\ registry \in RegistryDays \union {NoDay} /\ time \in RegistryTimes
    BY DEF NoticeTypeOK, Copies
  <2>2. PICK to \in {"done.read", "idle"} : doing' = [doing EXCEPT ![p] = to]
    BY <1>1 DEF WriteChange
  <2>3. /\ doing[p] = "update.write" /\ sent' = sent
        /\ intake' = Updated(seen, copy[p].work, registry, time)
        /\ changes' = IF RegistryChanged(seen, registry, time) THEN changes + 1 ELSE changes
    BY <1>1 DEF WriteChange
  <2> HIDE DEF seen, registry, time
  <2>4. intake'.asked = intake.asked
    BY <2>1, <2>3, UpdateTyped
  <2>5. CASE ~RegistryChanged(seen, registry, time)
    <3>1. /\ intake'.registry = intake.registry /\ intake'.reminded = intake.reminded
          /\ changes' = changes
      <4>1. intake.reminded \in BOOLEAN /\ seen.registry = registry
        BY <2>5, ColumnsTyped DEF NoticeTypeOK, RegistryChanged
      <4> QED BY <2>1, <2>3, <2>5, <4>1, UpdateTyped
    <3> QED BY <2>2, <2>3, <2>4, <3>1, NothingClaimed
  <2>6. CASE RegistryChanged(seen, registry, time)
    <3>1. changes' = changes + 1 /\ FreeReminder' <= 1 /\ FreeReminder' \in Nat
      BY <2>3, <2>6 DEF FreeReminder
    <3>2. /\ IsFiniteSet(Reminding') /\ Cardinality(Reminding') = Cardinality(Reminding)
          /\ IsFiniteSet(Asking') /\ Cardinality(Asking') = Cardinality(Asking)
          /\ Cardinality(Reminding) \in Nat /\ Cardinality(Asking) \in Nat
      BY <2>2, <2>3, Moved
         DEF Counted, RemindersCounted, QuestionsCounted, Reminding, Asking
    <3>3. changes \in Nat /\ sent.reminder \in Nat
      BY DEF NoticeTypeOK
    <3>4. sent.reminder + Cardinality(Reminding) <= changes
      BY <3>2, <3>3 DEF Counted, RemindersCounted, FreeReminder
    <3>5. RemindersCounted'
      BY <2>3, <3>1, <3>2, <3>3, <3>4 DEF RemindersCounted
    <3>6. QuestionsCounted'
      BY <2>3, <2>4, <3>2 DEF Counted, QuestionsCounted, FreeQuestion
    <3> QED BY <3>5, <3>6 DEF Counted
  <2> QED BY <2>5, <2>6
<1>2. CASE ReadForPacket(p)
  BY <1>2, NothingClaimed DEF ReadForPacket, columns
<1>3. CASE PostPacket(p)
  <2>1. sent'.reminder = sent.reminder /\ sent'.question = sent.question
    BY <1>3 DEF PostPacket, NoticeTypeOK
  <2> QED BY <1>3, <2>1, NothingClaimed DEF PostPacket
<1>4. ASSUME \/ StorePacket(p) \/ StoreRating(p) \/ TalkAfter(p) \/ StoreFeedback(p)
             \/ EndFeedback(p)
      PROVE  Counted'
  <2>1. /\ intake'.registry = intake.registry /\ intake'.reminded = intake.reminded
        /\ intake'.asked = intake.asked
    BY <1>4 DEF StorePacket, StoreRating, TalkAfter, StoreFeedback, EndFeedback, NoticeTypeOK,
      RequestRows
  <2> QED BY <1>4, <2>1, NothingClaimed
    DEF StorePacket, StoreRating, TalkAfter, StoreFeedback, EndFeedback
<1> QED BY <1>1, <1>2, <1>3, <1>4 DEF HandlerStep

LEMMA JobCounted ==
  ASSUME NoticeTypeOK, Counted, NEW p \in Workers, JobStep(p)
  PROVE  Counted'
<1> USE DEF GoesOn, Ends, Sent
<1>1. /\ changes \in Nat /\ sent.reminder \in Nat /\ sent.question \in Nat
      /\ Cardinality(Reminding) \in Nat /\ Cardinality(Asking) \in Nat
      /\ IsFiniteSet(Reminding) /\ IsFiniteSet(Asking)
      /\ FreeReminder \in Nat /\ FreeQuestion \in Nat
      /\ \A q \in Workers : doing[q] = "remind.claim" => changes > 0
  BY FS_CardinalityType DEF NoticeTypeOK, Counted, RemindersCounted, QuestionsCounted,
    FreeReminder, FreeQuestion
<1>2. CASE ClaimReminder(p)
  <2>1. CASE intake.reminded
    <3>1. /\ doing[p] = "remind.claim" /\ doing' = [doing EXCEPT ![p] = "idle"]
          /\ UNCHANGED <<intake, changes, sent>>
      BY <1>2, <2>1 DEF ClaimReminder, ReminderFree
    <3> QED BY <3>1, NothingClaimed
  <2>2. CASE ~intake.reminded
    <3>1. /\ intake' = [intake EXCEPT !.reminded = TRUE] /\ sent' = sent /\ changes' = changes
          /\ doing[p] = "remind.claim" /\ doing' = [doing EXCEPT ![p] = "remind.post"]
      BY <1>2, <2>2 DEF ClaimReminder, ReminderFree
    <3>2. FreeReminder = 1 /\ FreeReminder' = 0 /\ FreeQuestion' = FreeQuestion
      BY <1>1, <2>2, <3>1 DEF FreeReminder, FreeQuestion, NoticeTypeOK, RequestRows
    <3>3. /\ IsFiniteSet(Reminding')
          /\ Cardinality(Reminding') = Cardinality(Reminding) + 1
          /\ IsFiniteSet(Asking')
          /\ Cardinality(Asking') = Cardinality(Asking)
      <4>1. /\ IsFiniteSet(Reminding')
            /\ Cardinality(Reminding') = Cardinality(Reminding) + 1
        BY <3>1, RemindersMoved DEF NoticePoints
      <4>2. /\ IsFiniteSet(Asking')
            /\ Cardinality(Asking') = Cardinality(Asking)
        BY <3>1, AskersMoved DEF NoticePoints
      <4> QED BY <4>1, <4>2
    <3>4. intake'.registry = intake.registry
      BY <3>1 DEF NoticeTypeOK, RequestRows
    <3>5. \A q \in Workers : doing'[q] = "remind.claim" => changes' > 0
      BY <1>1, <3>1 DEF NoticeTypeOK
    <3>6. RemindersCounted'
      BY <1>1, <3>1, <3>2, <3>3, <3>4, <3>5 DEF Counted, RemindersCounted
    <3>7. QuestionsCounted'
      BY <1>1, <3>1, <3>2, <3>3 DEF Counted, QuestionsCounted
    <3> QED BY <3>6, <3>7 DEF Counted
  <2> QED BY <2>1, <2>2 DEF NoticeTypeOK, RequestRows
<1>3. CASE PostReminder(p)
  <2>1. /\ intake' = intake /\ changes' = changes
        /\ sent'.reminder = sent.reminder + 1 /\ sent'.question = sent.question
        /\ doing[p] = "remind.post" /\ doing' = [doing EXCEPT ![p] = "idle"]
    BY <1>3 DEF PostReminder, NoticeTypeOK
  <2>2. FreeReminder' = FreeReminder /\ FreeQuestion' = FreeQuestion
    BY <2>1 DEF FreeReminder, FreeQuestion
  <2>3. /\ IsFiniteSet(Reminding')
        /\ Cardinality(Reminding') = Cardinality(Reminding) - 1
        /\ IsFiniteSet(Asking')
        /\ Cardinality(Asking') = Cardinality(Asking)
    <3>1. /\ IsFiniteSet(Reminding')
          /\ Cardinality(Reminding') = Cardinality(Reminding) - 1
      BY <2>1, RemindersMoved DEF NoticePoints
    <3>2. /\ IsFiniteSet(Asking')
          /\ Cardinality(Asking') = Cardinality(Asking)
      BY <2>1, AskersMoved DEF NoticePoints
    <3> QED BY <3>1, <3>2
  <2>4. \A q \in Workers : doing'[q] = "remind.claim" => changes' > 0
    BY <1>1, <2>1 DEF NoticeTypeOK
  <2>5. RemindersCounted'
    BY <1>1, <2>1, <2>2, <2>3, <2>4 DEF Counted, RemindersCounted
  <2>6. QuestionsCounted'
    BY <1>1, <2>1, <2>2, <2>3 DEF Counted, QuestionsCounted
  <2> QED BY <2>5, <2>6 DEF Counted
<1>4. CASE ClaimQuestion(p)
  <2>1. CASE intake.asked
    <3>1. /\ doing[p] = "ask.claim" /\ doing' = [doing EXCEPT ![p] = "idle"]
          /\ UNCHANGED <<intake, changes, sent>>
      BY <1>4, <2>1 DEF ClaimQuestion, QuestionFree
    <3> QED BY <3>1, NothingClaimed
  <2>2. CASE ~intake.asked
    <3>1. /\ intake' = [intake EXCEPT !.asked = TRUE] /\ sent' = sent /\ changes' = changes
          /\ doing[p] = "ask.claim" /\ doing' = [doing EXCEPT ![p] = "ask.post"]
      BY <1>4, <2>2 DEF ClaimQuestion, QuestionFree
    <3>2. FreeReminder' = FreeReminder /\ FreeQuestion = 1 /\ FreeQuestion' = 0
      BY <1>1, <2>2, <3>1 DEF FreeReminder, FreeQuestion, NoticeTypeOK, RequestRows
    <3>3. /\ IsFiniteSet(Reminding')
          /\ Cardinality(Reminding') = Cardinality(Reminding)
          /\ IsFiniteSet(Asking')
          /\ Cardinality(Asking') = Cardinality(Asking) + 1
      <4>1. /\ IsFiniteSet(Reminding')
            /\ Cardinality(Reminding') = Cardinality(Reminding)
        BY <3>1, RemindersMoved DEF NoticePoints
      <4>2. /\ IsFiniteSet(Asking')
            /\ Cardinality(Asking') = Cardinality(Asking) + 1
        BY <3>1, AskersMoved DEF NoticePoints
      <4> QED BY <4>1, <4>2
    <3>4. intake'.registry = intake.registry
      BY <3>1 DEF NoticeTypeOK, RequestRows
    <3>5. \A q \in Workers : doing'[q] = "remind.claim" => changes' > 0
      BY <1>1, <3>1 DEF NoticeTypeOK
    <3>6. RemindersCounted'
      BY <1>1, <3>1, <3>2, <3>3, <3>4, <3>5 DEF Counted, RemindersCounted
    <3>7. QuestionsCounted'
      BY <1>1, <3>1, <3>2, <3>3 DEF Counted, QuestionsCounted
    <3> QED BY <3>6, <3>7 DEF Counted
  <2> QED BY <2>1, <2>2 DEF NoticeTypeOK, RequestRows
<1>5. CASE PostQuestion(p)
  <2>1. /\ intake' = intake /\ changes' = changes
        /\ sent'.reminder = sent.reminder /\ sent'.question = sent.question + 1
        /\ doing[p] = "ask.post" /\ doing' = [doing EXCEPT ![p] = "ask.talk"]
    BY <1>5 DEF PostQuestion, NoticeTypeOK
  <2>2. FreeReminder' = FreeReminder /\ FreeQuestion' = FreeQuestion
    BY <2>1 DEF FreeReminder, FreeQuestion
  <2>3. /\ IsFiniteSet(Reminding')
        /\ Cardinality(Reminding') = Cardinality(Reminding)
        /\ IsFiniteSet(Asking')
        /\ Cardinality(Asking') = Cardinality(Asking) - 1
    <3>1. /\ IsFiniteSet(Reminding')
          /\ Cardinality(Reminding') = Cardinality(Reminding)
      BY <2>1, RemindersMoved DEF NoticePoints
    <3>2. /\ IsFiniteSet(Asking')
          /\ Cardinality(Asking') = Cardinality(Asking) - 1
      BY <2>1, AskersMoved DEF NoticePoints
    <3> QED BY <3>1, <3>2
  <2>4. \A q \in Workers : doing'[q] = "remind.claim" => changes' > 0
    BY <1>1, <2>1 DEF NoticeTypeOK
  <2>5. RemindersCounted'
    BY <1>1, <2>1, <2>2, <2>3, <2>4 DEF Counted, RemindersCounted
  <2>6. QuestionsCounted'
    BY <1>1, <2>1, <2>2, <2>3 DEF Counted, QuestionsCounted
  <2> QED BY <2>5, <2>6 DEF Counted
<1>6. CASE ReadTalk(p)
  BY <1>6, NothingClaimed DEF ReadTalk, columns
<1>7. CASE StoreTalk(p)
  BY <1>7, NothingClaimed DEF StoreTalk
<1> QED BY <1>2, <1>3, <1>4, <1>5, <1>6, <1>7 DEF JobStep

LEMMA CountedKept == NoticeTypeOK /\ Counted /\ [NoticeNext]_noticeVars => Counted'
<1> SUFFICES ASSUME NoticeTypeOK, Counted, [NoticeNext]_noticeVars PROVE Counted'
  OBVIOUS
<1>1. ASSUME NEW p \in Workers, Beginning(p) PROVE Counted'
  <2>1. doing[p] = "idle" /\ UNCHANGED <<intake, changes, sent>>
    BY <1>1 DEF Beginning, BeginChange, BeginRate, BeginFeedback, BeginRemind, BeginAsk,
      BeginCall, columns
  <2>2. CASE BeginRemind(p)
    <3>1. intake.registry # NoDay /\ doing' = [doing EXCEPT ![p] = "remind.claim"]
      BY <2>2, NoticeAssumption DEF BeginRemind, BeginCall, NoticeTypeOK, Days, NoDay
    <3> QED BY <2>1, <3>1, NothingClaimed
  <2>3. CASE ~BeginRemind(p)
    <3>1. PICK to \in {"update.write", "rate.store", "feedback.store", "ask.claim"} :
            doing' = [doing EXCEPT ![p] = to]
      BY <1>1, <2>3 DEF Beginning, BeginChange, BeginRate, BeginFeedback, BeginAsk, BeginCall
    <3> QED BY <2>1, <3>1, NothingClaimed
  <2> QED BY <2>2, <2>3
<1>2. ASSUME UNCHANGED <<doing, intake, changes, sent>> PROVE Counted'
  BY <1>2 DEF Counted, RemindersCounted, QuestionsCounted, Reminding, Asking, Those,
    FreeReminder, FreeQuestion
<1>3. CASE OtherTalk \/ NextDay \/ UNCHANGED noticeVars
  BY <1>2, <1>3 DEF OtherTalk, NextDay, noticeVars, columns
<1> QED BY <1>1, <1>3, StepsSplit, HandlerCounted, JobCounted

LEMMA CountedInvariant == NoticeSpec => []Counted
  BY CountedStart, CountedKept, TypesInvariant, PTL DEF NoticeSpec

LEMMA CountedIsClaimedOnce == NoticeTypeOK /\ Counted => ClaimedOnce
<1> SUFFICES ASSUME NoticeTypeOK, Counted PROVE ClaimedOnce
  OBVIOUS
<1>1. /\ Cardinality(Reminding) \in Nat /\ Cardinality(Asking) \in Nat
      /\ FreeReminder \in Nat /\ FreeQuestion \in Nat
  BY FS_CardinalityType
     DEF Counted, RemindersCounted, QuestionsCounted, FreeReminder, FreeQuestion
<1>2. changes \in Nat /\ sent.reminder \in Nat /\ sent.question \in Nat
  BY DEF NoticeTypeOK
<1> QED
  BY <1>1, <1>2 DEF Counted, RemindersCounted, QuestionsCounted, ClaimedOnce

-----------------------------------------------------------------------------
(* Workers one after another.                                              *)

FeedbackInTurn == talk = "feedback" => intake.rating = "low"

Others(p) == \A q \in Workers \ {p} : doing[q] = "idle"

(* What there is to show for a worker that is alone.                       *)
InStep(p) == Knows(p) /\ PacketInTurn /\ ReminderInTurn /\ FeedbackInTurn

LEMMA AloneInTurn == \A p \in Workers : Others(p) /\ InStep(p) => OneByOne
<1> SUFFICES ASSUME NEW p \in Workers, Others(p), InStep(p) PROVE OneByOne
  OBVIOUS
<1>1. \A q, r \in AtWork : q = r
  BY DEF Others, AtWork
<1>2. \A q \in Workers : Knows(q)
  BY DEF Others, InStep, Knows
<1> QED BY <1>1, <1>2 DEF InStep, FeedbackInTurn, OneByOne

LEMMA AloneNext == (\A p \in Workers : Others(p) /\ InStep(p) => OneByOne)'
  BY AloneInTurn, PTL

LEMMA AtWorkAlone ==
  ASSUME OneByOne, ~mingled, NEW p \in Workers, doing[p] # "idle"
  PROVE  Others(p) /\ InStep(p)
  BY DEF OneByOne, AtWork, Others, InStep, FeedbackInTurn

LEMMA InTurnStart == NoticeInit => OneByOne
  BY DEF NoticeInit, OneByOne, AtWork, Knows, PacketInTurn, ReminderInTurn, NewRequest

(* A worker that begins finds nobody at work, or mingles with another.     *)
LEMMA BeginsInTurn ==
  ASSUME NoticeTypeOK, OneByOne, NEW p \in Workers, Beginning(p)
  PROVE  OneByOne'
<1>1. /\ UNCHANGED columns /\ mingled' = (mingled \/ AtWork # {})
      /\ \A q \in Workers \ {p} : doing'[q] = doing[q]
  BY DEF Beginning, BeginChange, BeginRate, BeginFeedback, BeginRemind, BeginAsk, BeginCall,
    NoticeTypeOK
<1> SUFFICES ASSUME ~mingled' PROVE OneByOne'
  BY DEF OneByOne
<1>2. ~mingled /\ \A q \in Workers : doing[q] = "idle"
  BY <1>1 DEF AtWork
<1>3. Others(p)'
  BY <1>1, <1>2 DEF Others
<1>4. Knows(p)'
  <2>1. CASE \E work \in Statuses, registry \in RegistryDays \union {NoDay},
               time \in RegistryTimes : BeginChange(p, work, registry, time)
    <3>1. PICK work \in Statuses, registry \in RegistryDays \union {NoDay},
            time \in RegistryTimes : BeginChange(p, work, registry, time)
      BY <2>1
    <3> DEFINE l == [NoCopy EXCEPT !.seen = ReadForUpdate, !.work = work, !.registry = registry,
                                   !.time = time]
    <3>2. l.seen = ReadForUpdate
      BY DEF NoCopy
    <3>3. doing'[p] = "update.write" /\ copy'[p] = l
      BY <3>1 DEF BeginChange, BeginCall, NoticeTypeOK
    <3>4. ReadForUpdate' = ReadForUpdate
      BY <1>1 DEF ReadForUpdate, columns
    <3> QED BY <1>1, <3>2, <3>3, <3>4 DEF Knows
  <2>2. CASE \E rating \in {"low", "high"} : BeginRate(p, rating)
    BY <1>1, <2>2 DEF BeginRate, BeginCall, NoticeTypeOK, Knows, columns
  <2>3. CASE BeginRemind(p)
    <3>1. /\ doing'[p] = "remind.claim" /\ copy'[p].registry = intake.registry
          /\ copy'[p].time = intake.time /\ intake.registry # NoDay
      BY <2>3, NoticeAssumption
         DEF BeginRemind, BeginCall, NoticeTypeOK, NoCopy, Days, NoDay
    <3> QED BY <1>1, <3>1 DEF Knows, columns
  <2>4. CASE BeginFeedback(p) \/ BeginAsk(p)
    BY <2>4 DEF BeginFeedback, BeginAsk, BeginCall, NoticeTypeOK, Knows
  <2> QED BY <2>1, <2>2, <2>3, <2>4 DEF Beginning
<1>5. PacketInTurn' /\ ReminderInTurn' /\ FeedbackInTurn'
  BY <1>1, <1>2 DEF OneByOne, PacketInTurn, ReminderInTurn, FeedbackInTurn, columns
<1> QED BY <1>3, <1>4, <1>5, AloneNext DEF InStep

LEMMA HandlerInTurn ==
  ASSUME NoticeTypeOK, OneByOne, NEW p \in Workers, HandlerStep(p)
  PROVE  OneByOne'
<1> USE DEF GoesOn, Ends, Sent, NoticeTypeOK
<1>1. /\ mingled' = mingled /\ doing[p] # "idle"
      /\ \A q \in Workers \ {p} : doing'[q] = doing[q]
  BY DEF HandlerStep, WriteChange, ReadForPacket, PostPacket, StorePacket, StoreRating,
    TalkAfter, StoreFeedback, EndFeedback
<1> SUFFICES ASSUME ~mingled' PROVE OneByOne'
  BY DEF OneByOne
<1>2. Others(p) /\ InStep(p) /\ ~mingled
  BY <1>1, AtWorkAlone
<1>3. Others(p)'
  BY <1>1, <1>2 DEF Others
<1>4. InStep(p)'
  <2> USE DEF InStep, Knows, PacketInTurn, ReminderInTurn, FeedbackInTurn
  <2>1. CASE WriteChange(p)
    <3> DEFINE seen == copy[p].seen
               registry == copy[p].registry
               time == copy[p].time
    <3>1. /\ seen \in ReadRows /\ copy[p].work \in Statuses
          /\ registry \in RegistryDays \union {NoDay} /\ time \in RegistryTimes
      BY DEF Copies
    <3>2. /\ doing[p] = "update.write" /\ doing'[p] \in {"done.read", "idle"}
          /\ sent' = sent /\ talk' = talk /\ told' = told
          /\ intake' = Updated(seen, copy[p].work, registry, time)
      BY <2>1 DEF WriteChange
    <3>3. seen.registry = intake.registry
      BY <1>2, <3>2 DEF ReadForUpdate
    <3> HIDE DEF seen, registry, time
    <3>4. /\ intake'.packet = intake.packet /\ intake'.rating = intake.rating
          /\ intake'.reminded => /\ intake.reminded /\ intake'.registry = intake.registry
                                /\ intake'.time = intake.time
      <4>1. /\ intake'.packet = intake.packet /\ intake'.rating = intake.rating
            /\ intake'.reminded => intake.reminded /\ ~RegistryChanged(seen, registry, time)
            /\ seen.registry = registry => intake'.registry = intake.registry
            /\ seen.time = time => intake'.time = intake.time
        BY <3>1, <3>2, UpdateTyped
      <4>2. intake.reminded => seen.registry # NoDay
        BY <1>2, <3>3
      <4> QED BY <4>1, <4>2 DEF RegistryChanged
    <3>5. Knows(p)'
      BY <3>2
    <3>6. \A q \in Workers : doing[q] \notin {"done.store", "remind.post"}
      BY <1>2, <3>2 DEF Others
    <3> QED BY <1>2, <3>2, <3>4, <3>5, <3>6
  <2>2. CASE ReadForPacket(p)
    BY <1>2, <2>2 DEF ReadForPacket, PacketDue, columns, Others
  <2>3. CASE PostPacket(p)
    <3>1. /\ doing[p] = "done.post" /\ doing'[p] = "done.store"
          /\ UNCHANGED <<intake, talk, told>> /\ sent'.packet = sent.packet + 1
      BY <2>3 DEF PostPacket
    <3>2. sent.packet = 0
      BY <1>2, <3>1 DEF Others
    <3>3. \A q \in Workers : doing[q] # "remind.post"
      BY <1>2, <3>1 DEF Others
    <3> QED BY <1>2, <3>1, <3>2, <3>3
  <2>4. CASE StorePacket(p)
    <3>1. /\ doing[p] = "done.store" /\ doing'[p] = "idle" /\ UNCHANGED <<talk, told, sent>>
          /\ intake'.packet = TRUE /\ intake'.reminded = intake.reminded
          /\ intake'.registry = intake.registry /\ intake'.time = intake.time
          /\ intake'.rating = intake.rating
      BY <2>4 DEF StorePacket, RequestRows
    <3>2. \A q \in Workers : doing[q] # "remind.post"
      BY <1>2, <3>1 DEF Others
    <3> QED BY <1>2, <3>1, <3>2
  <2>5. CASE StoreRating(p)
    <3>1. /\ doing[p] = "rate.store" /\ doing'[p] = "rate.talk"
          /\ UNCHANGED <<talk, told, sent, copy>>
          /\ intake'.packet = intake.packet /\ intake'.reminded = intake.reminded
          /\ intake'.registry = intake.registry /\ intake'.time = intake.time
          /\ intake'.rating = copy[p].rating
      BY <2>5 DEF StoreRating, RequestRows
    <3>2. \A q \in Workers : doing[q] \notin {"done.store", "remind.post"}
      BY <1>2, <3>1 DEF Others
    <3> QED BY <1>2, <3>1, <3>2
  <2>6. CASE TalkAfter(p)
    <3>1. /\ doing[p] = "rate.talk" /\ doing'[p] = "idle" /\ UNCHANGED <<intake, told, sent>>
          /\ talk' = "feedback" => copy[p].rating = "low"
      BY <2>6 DEF TalkAfter, TalkAfterRating
    <3>2. \A q \in Workers : doing[q] \notin {"done.store", "remind.post"}
      BY <1>2, <3>1 DEF Others
    <3> QED BY <1>2, <3>1, <3>2
  <2>7. CASE StoreFeedback(p) \/ EndFeedback(p)
    <3>1. /\ doing[p] \in {"feedback.store", "feedback.talk"}
          /\ doing'[p] \in {"feedback.talk", "idle"} /\ UNCHANGED <<told, sent>>
          /\ intake'.packet = intake.packet /\ intake'.reminded = intake.reminded
          /\ intake'.registry = intake.registry /\ intake'.time = intake.time
          /\ intake'.rating = intake.rating
          /\ talk' \in {talk, "none"}
      BY <2>7 DEF StoreFeedback, EndFeedback, RequestRows
    <3>2. \A q \in Workers : doing[q] \notin {"done.store", "remind.post"}
      BY <1>2, <3>1 DEF Others
    <3> QED BY <1>2, <3>1, <3>2
  <2> QED BY <2>1, <2>2, <2>3, <2>4, <2>5, <2>6, <2>7 DEF HandlerStep
<1> QED BY <1>3, <1>4, AloneNext

LEMMA JobInTurn ==
  ASSUME NoticeTypeOK, OneByOne, NEW p \in Workers, JobStep(p)
  PROVE  OneByOne'
<1> USE DEF GoesOn, Ends, Sent, NoticeTypeOK
<1>1. /\ mingled' = mingled /\ doing[p] # "idle"
      /\ \A q \in Workers \ {p} : doing'[q] = doing[q]
  BY DEF JobStep, ClaimReminder, PostReminder, ClaimQuestion, PostQuestion, ReadTalk, StoreTalk
<1> SUFFICES ASSUME ~mingled' PROVE OneByOne'
  BY DEF OneByOne
<1>2. Others(p) /\ InStep(p) /\ ~mingled
  BY <1>1, AtWorkAlone
<1>3. Others(p)'
  BY <1>1, <1>2 DEF Others
<1>4. InStep(p)'
  <2> USE DEF InStep, Knows, PacketInTurn, ReminderInTurn, FeedbackInTurn
  <2>1. CASE ClaimReminder(p)
    <3>1. /\ doing[p] = "remind.claim" /\ UNCHANGED <<talk, told, sent>>
          /\ intake'.packet = intake.packet /\ intake'.registry = intake.registry
          /\ intake'.time = intake.time /\ intake'.rating = intake.rating
      BY <2>1 DEF ClaimReminder, RequestRows
    <3>2. \A q \in Workers : doing[q] \notin {"done.store", "remind.post"}
      BY <1>2, <3>1 DEF Others
    <3>3. CASE intake.reminded
      <4>1. intake' = intake /\ doing'[p] = "idle"
        BY <2>1, <3>3 DEF ClaimReminder, ReminderFree
      <4> QED BY <1>2, <3>1, <3>2, <4>1
    <3>4. CASE ~intake.reminded
      <4>1. /\ doing'[p] = "remind.post" /\ copy'[p].registry = intake'.registry
            /\ copy'[p].time = intake'.time /\ intake'.registry # NoDay
        BY <1>2, <2>1, <3>1, <3>4 DEF ClaimReminder, ReminderFree
      <4> QED BY <1>2, <3>1, <3>2, <4>1
    <3> QED BY <3>3, <3>4 DEF RequestRows
  <2>2. CASE PostReminder(p)
    <3>1. /\ doing[p] = "remind.post" /\ doing'[p] = "idle" /\ UNCHANGED <<intake, talk>>
          /\ told' = <<copy[p].registry, copy[p].time>> /\ sent'.packet = sent.packet
      BY <2>2 DEF PostReminder
    <3>2. \A q \in Workers : doing[q] # "done.store" /\ (doing[q] = "remind.post" => q = p)
      BY <1>2, <3>1 DEF Others
    <3>3. intake.registry # NoDay /\ told' = <<intake.registry, intake.time>>
      BY <1>2, <3>1
    <3>4. Knows(p)' /\ PacketInTurn' /\ FeedbackInTurn'
      BY <1>2, <3>1, <3>2
    <3>5. ReminderInTurn'
      BY <3>1, <3>3
    <3> QED BY <3>4, <3>5
  <2>3. CASE ClaimQuestion(p)
    <3>1. /\ doing[p] = "ask.claim" /\ doing'[p] \in {"ask.post", "idle"}
          /\ UNCHANGED <<talk, told, sent>>
          /\ intake'.packet = intake.packet /\ intake'.reminded = intake.reminded
          /\ intake'.registry = intake.registry /\ intake'.time = intake.time
          /\ intake'.rating = intake.rating
      BY <2>3 DEF ClaimQuestion, RequestRows
    <3>2. \A q \in Workers : doing[q] \notin {"done.store", "remind.post"}
      BY <1>2, <3>1 DEF Others
    <3> QED BY <1>2, <3>1, <3>2
  <2>4. CASE PostQuestion(p) \/ ReadTalk(p) \/ StoreTalk(p)
    <3>1. /\ doing[p] \in {"ask.post", "ask.talk", "ask.store"}
          /\ doing'[p] \in {"ask.talk", "ask.store", "idle"}
          /\ UNCHANGED <<intake, told>> /\ sent'.packet = sent.packet
          /\ talk' \in {talk, "rating"}
          /\ doing'[p] = "ask.store" => talk' = "none"
      BY <2>4 DEF PostQuestion, ReadTalk, StoreTalk, MayAsk, columns
    <3>2. \A q \in Workers : doing[q] \notin {"done.store", "remind.post"}
      BY <1>2, <3>1 DEF Others
    <3> QED BY <1>2, <3>1, <3>2
  <2> QED BY <2>1, <2>2, <2>3, <2>4 DEF JobStep
<1> QED BY <1>3, <1>4, AloneNext

LEMMA InTurnKept == NoticeTypeOK /\ OneByOne /\ [NoticeNext]_noticeVars => OneByOne'
<1> SUFFICES ASSUME NoticeTypeOK, OneByOne, [NoticeNext]_noticeVars PROVE OneByOne'
  OBVIOUS
<1>1. ASSUME ~mingled, \A q \in Workers : doing[q] = "idle", UNCHANGED <<doing, copy, intake>>,
             UNCHANGED <<told, sent>>, talk' = "feedback" => talk = "feedback"
      PROVE  OneByOne'
  BY <1>1 DEF OneByOne, AtWork, Knows, PacketInTurn, ReminderInTurn
<1>2. CASE OtherTalk \/ NextDay
  <2>1. ~mingled' => ~mingled /\ \A q \in Workers : doing[q] = "idle"
    BY <1>2 DEF OtherTalk, NextDay, AtWork
  <2>2. CASE mingled'
    BY <2>2 DEF OneByOne
  <2>3. CASE ~mingled'
    BY <1>1, <1>2, <2>1, <2>3 DEF OtherTalk, NextDay, columns
  <2> QED BY <2>2, <2>3
<1>3. CASE UNCHANGED noticeVars
  BY <1>3 DEF noticeVars, OneByOne, AtWork, Knows, PacketInTurn, ReminderInTurn, ReadForUpdate
<1> QED BY <1>2, <1>3, StepsSplit, BeginsInTurn, HandlerInTurn, JobInTurn

LEMMA InTurnInvariant == NoticeSpec => []OneByOne
  BY InTurnStart, InTurnKept, TypesInvariant, PTL DEF NoticeSpec

(* No more reminders than changes of the registry's date or time, and one  *)
(* rating question, whoever overlaps; and one packet, and no intake marked *)
(* as reminded that was not told its date and its time, as long as workers *)
(* follow one another.                                                     *)
THEOREM NoticesStayInStep == NoticeSpec => []NoticesInStep
<1>1. NoticeTypeOK /\ Counted /\ OneByOne => NoticesInStep
  <2> SUFFICES ASSUME NoticeTypeOK, Counted, OneByOne PROVE NoticesInStep
    OBVIOUS
  <2>1. ClaimedOnce
    BY CountedIsClaimedOnce
  <2>2. ASSUME ~mingled, AtWork = {}
        PROVE  sent.packet <= 1
               /\ (intake.reminded => told = <<intake.registry, intake.time>>)
    BY <2>2 DEF OneByOne, PacketInTurn, ReminderInTurn, AtWork
  <2> QED BY <2>1, <2>2 DEF NoticesInStep
<1> QED BY <1>1, TypesInvariant, CountedInvariant, InTurnInvariant, PTL

(* Workers one after another never talk over another conversation, and ask *)
(* what went wrong only after a low rating.                                *)
THEOREM ConversationHeld == NoticeSpec => ConversationKept
<1>1. NoticeTypeOK /\ OneByOne /\ OneByOne' /\ [NoticeNext]_noticeVars => ConversationStep
  <2> SUFFICES ASSUME NoticeTypeOK, OneByOne, OneByOne', [NoticeNext]_noticeVars, ~mingled
               PROVE  /\ talk = "other" => talk' \in {"none", "other"}
                      /\ talk' = "feedback" => intake.rating = "low"
    BY DEF ConversationStep
  <2>1. ASSUME NEW p \in Workers, HandlerStep(p) \/ JobStep(p)
        PROVE  /\ talk = "other" => talk' \in {"none", "other"}
               /\ talk' = "feedback" => intake.rating = "low"
    <3>1. Knows(p) /\ (talk = "feedback" => intake.rating = "low")
      BY DEF OneByOne
    <3>2. \/ talk' = talk \/ talk' = "none"
          \/ doing[p] = "ask.store" /\ talk' = "rating"
          \/ doing[p] = "rate.talk" /\ talk' = TalkAfterRating(copy[p].rating)
      BY <2>1 DEF HandlerStep, WriteChange, ReadForPacket, PostPacket, StorePacket, StoreRating,
        TalkAfter, StoreFeedback, EndFeedback, JobStep, ClaimReminder, PostReminder,
        ClaimQuestion, PostQuestion, ReadTalk, StoreTalk, GoesOn, Ends, columns
    <3> QED BY <3>1, <3>2 DEF Knows, TalkAfterRating
  <2>2. ASSUME NEW p \in Workers, Beginning(p) PROVE talk' = talk
    BY <2>2 DEF Beginning, BeginChange, BeginRate, BeginFeedback, BeginRemind, BeginAsk,
      BeginCall, columns
  <2>3. CASE OtherTalk \/ NextDay \/ UNCHANGED noticeVars
    BY <2>3 DEF OtherTalk, NextDay, noticeVars, columns, OneByOne
  <2> QED BY <2>1, <2>2, <2>3, StepsSplit DEF OneByOne
<1> QED BY <1>1, TypesInvariant, InTurnInvariant, PTL DEF NoticeSpec, ConversationKept
-----------------------------------------------------------------------------
(* The run explores the desk's parts by one specification (MCDesk).        *)

(* What the run explores is what the theorems are about: the follow-ups,   *)
(* the notices and the sales each behave as their own specifications say,  *)
(* whichever of them moves.                                                *)
THEOREM DeskPartsImplemented == DeskSpec => Spec /\ NoticeSpec /\ SaleSpec
<1>1. DeskInit => Init /\ NoticeInit /\ SaleInit
  BY DEF DeskInit
<1>2. [DeskNext]_deskVars => [Next]_vars /\ [NoticeNext]_noticeVars /\ [SaleNext]_saleVars
  BY DEF DeskNext, deskVars
<1> QED BY <1>1, <1>2, PTL DEF DeskSpec, Spec, NoticeSpec, SaleSpec

(* Rows, requests, sales and what every process holds of them keep their   *)
(* types: a row read before somebody else wrote it is still a row.         *)
THEOREM DeskTyped == ASSUME MaxSales \in Nat, Plots # {} PROVE DeskSpec => []PartsTyped
<1>1. TypeOK /\ NoticeTypeOK /\ SaleTypeOK => PartsTyped
  BY DEF PartsTyped
<1> QED BY <1>1, DeskPartsImplemented, FollowUpTypesCorrect, NoticeTypesCorrect, SoldPlotsBlock, PTL
=============================================================================
