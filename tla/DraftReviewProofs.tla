-------------------------- MODULE DraftReviewProofs --------------------------
(***************************************************************************)
(* The review of a draft deed for any number of drafts, requests in flight *)
(* and messages of the customer.                                           *)
(***************************************************************************)
EXTENDS DraftReview, TLAPS

(* A slot that goes on to a point of the code with locals of their type.   *)
LEMMA GoTyped ==
  ASSUME TypeOK, NEW s \in Slots, NEW point \in Points, NEW l \in Locals, Go(s, point, l)
  PROVE  pc' \in [Slots -> Points] /\ local' \in [Slots -> Locals]
  BY DEF TypeOK, Go

(* The locals of a slot that does nothing have their type.                 *)
LEMMA NothingHeld == NoLocals \in Locals /\ NoReview \in Reviews
<1>1. NoReview \in Reviews
  BY DEF NoReview, Reviews, Answers
<1>2. QED
  BY <1>1 DEF NoLocals, Locals, Answers

(* Where the slots are after one of them went on.                          *)
LEMMA GoMoves ==
  ASSUME TypeOK, NEW s \in Slots, NEW point, NEW l, Go(s, point, l)
  PROVE  /\ pc'[s] = point /\ local'[s] = l
         /\ \A o \in Slots \ {s} : pc'[o] = pc[o] /\ local'[o] = local[o]
  BY DEF TypeOK, Go

(* The fields of a slot's locals.                                          *)
LEMMA Fields ==
  ASSUME TypeOK, NEW s \in Slots
  PROVE  /\ local[s] \in Locals
         /\ local[s].draft \in Drafts \union {NoDraft} /\ local[s].ok \in BOOLEAN
         /\ local[s].review \in Reviews /\ local[s].answer \in Answers \union {"none"}
         /\ local[s].noted \in BOOLEAN
         /\ local[s].todo \subseteq Drafts /\ local[s].sent \subseteq Drafts
  BY DEF TypeOK, Locals

(* The rows and the slots start in their types.                            *)
LEMMA TypeInit == ASSUME MaxTexts \in Nat PROVE Init => TypeOK
<1> SUFFICES ASSUME Init PROVE TypeOK
  OBVIOUS
<1>1. pc \in [Slots -> Points] /\ local \in [Slots -> Locals]
  BY NothingHeld DEF Init, Points
<1>2. status \in [Drafts -> {"absent", "PENDING", "SENT"}] /\ delivered \subseteq Drafts
  BY DEF Init
<1>3. review \in Reviews /\ work \in WorkStatuses
  BY NothingHeld DEF Init, WorkStatuses
<1>4. window \in BOOLEAN /\ noted \in BOOLEAN
  BY DEF Init
<1>5. listed \in Nat /\ texts \in 0..MaxTexts
  BY DEF Init
<1>6. QED
  BY <1>1, <1>2, <1>3, <1>4, <1>5 DEF TypeOK

-----------------------------------------------------------------------------
(* The type of each step's outcome.                                        *)

(* A handler that ends, or throws, leaves nothing behind.                  *)
LEMMA FinishTyped ==
  ASSUME TypeOK, NEW s \in Slots, Finish(s)
  PROVE  pc' \in [Slots -> Points] /\ local' \in [Slots -> Locals]
  BY NothingHeld, GoTyped DEF Finish, Points

(* Delivering keeps the types, and so do the steps of each handler.        *)
LEMMA DeliverTyped ==
  ASSUME TypeOK, NEW s \in Slots, NEW d \in Drafts, NEW point \in Points,
         Deliver(s, d, point)
  PROVE  TypeOK'
<1>1. PICK ok \in {FALSE, window} :
        /\ delivered' = IF ok THEN delivered \union {d} ELSE delivered
        /\ Go(s, point, [local[s] EXCEPT !.draft = d, !.ok = ok])
        /\ UNCHANGED <<work, review, status, window, listed, noted, texts>>
  BY DEF Deliver
<1>2. ok \in BOOLEAN
  BY DEF TypeOK
<1>3. [local[s] EXCEPT !.draft = d, !.ok = ok] \in Locals
  BY <1>2, Fields DEF Locals
<1>4. pc' \in [Slots -> Points] /\ local' \in [Slots -> Locals]
  BY <1>1, <1>3, GoTyped
<1>5. QED
  BY <1>1, <1>4 DEF TypeOK

(* The steps of a send ...                                                 *)
LEMMA SendTyped ==
  ASSUME TypeOK, NEW s \in Slots, SendStep(s)
  PROVE  TypeOK'
<1>1. CASE BeginSend(s)
  <2>1. pc' \in [Slots -> Points] /\ local' \in [Slots -> Locals]
    BY <1>1, NothingHeld, GoTyped DEF BeginSend, Points
  <2>2. QED
    BY <1>1, <2>1 DEF BeginSend, data, TypeOK
<1>2. ASSUME NEW d \in Drafts, SendDeliver(s, d) PROVE TypeOK'
  BY <1>2, DeliverTyped DEF SendDeliver, Points
<1>3. CASE SendRecord(s)
  <2>1. pc' \in [Slots -> Points] /\ local' \in [Slots -> Locals]
    BY <1>3, Fields, GoTyped DEF SendRecord, RecordDelivery, Points
  <2>2. status' \in [Drafts -> {"absent", "PENDING", "SENT"}]
    BY <1>3 DEF SendRecord, RecordDelivery, StatusFor, TypeOK
  <2>3. QED
    BY <1>3, <2>1, <2>2 DEF SendRecord, RecordDelivery, TypeOK
<1>4. CASE SendReview(s)
  <2>1. review' \in Reviews
    BY <1>4, Fields DEF SendReview, ReviewOf, Reviews
  <2>2. QED
    BY <1>4, <2>1, FinishTyped DEF SendReview, TypeOK
<1>5. QED
  BY <1>1, <1>2, <1>3, <1>4 DEF SendStep

(* ... of a resend ...                                                     *)
LEMMA ResendTyped ==
  ASSUME TypeOK, NEW s \in Slots, ResendStep(s),
         pc[s] = "resend.deliver" => local[s].draft \in Drafts
  PROVE  TypeOK'
<1>1. ASSUME NEW d \in Drafts, BeginResend(s, d) PROVE TypeOK'
  <2>1. [NoLocals EXCEPT !.draft = d] \in Locals
    BY NothingHeld DEF Locals
  <2>2. pc' \in [Slots -> Points] /\ local' \in [Slots -> Locals]
    BY <1>1, <2>1, GoTyped DEF BeginResend, Points
  <2>3. QED
    BY <1>1, <2>2 DEF BeginResend, data, TypeOK
<1>2. CASE ResendDeliver(s)
  BY <1>2, DeliverTyped DEF ResendDeliver, At, Points
<1>3. CASE ResendRecord(s)
  <2>1. status' \in [Drafts -> {"absent", "PENDING", "SENT"}]
    BY <1>3 DEF ResendRecord, StatusFor, TypeOK
  <2>2. QED
    BY <1>3, <2>1, FinishTyped DEF ResendRecord, TypeOK
<1>4. QED
  BY <1>1, <1>2, <1>3 DEF ResendStep

(* ... and of the bot's handler.                                           *)
LEMMA BotTyped ==
  ASSUME MaxTexts \in Nat, TypeOK, NEW s \in Slots, BotStep(s),
         pc[s] \in {"flush.deliver", "flush.record"} => local[s].draft \in Drafts
  PROVE  TypeOK'
<1>1. CASE Write(s)
  <2>1. pc' \in [Slots -> Points] /\ local' \in [Slots -> Locals]
    BY <1>1, NothingHeld, GoTyped DEF Write, Points
  <2>2. texts' \in 0..MaxTexts
    BY <1>1 DEF Write, TypeOK
  <2>3. window' \in BOOLEAN
    BY <1>1, Zenon DEF Write, TypeOK
  <2>4. QED
    BY <1>1, <2>1, <2>2, <2>3 DEF Write, TypeOK
<1>2. CASE ReadForReply(s)
  <2>1. ASSUME NEW a \in Answers
        PROVE  [NoLocals EXCEPT !.review = review, !.answer = a, !.noted = noted] \in Locals
    BY NothingHeld DEF Locals, TypeOK
  <2>2. pc' \in [Slots -> Points] /\ local' \in [Slots -> Locals]
    BY <1>2, <2>1, NothingHeld, GoTyped DEF ReadForReply, Points
  <2>3. QED
    BY <1>2, <2>2 DEF ReadForReply, data, TypeOK
<1>3. CASE Correct(s)
  <2>1. PICK created \in BOOLEAN :
          /\ listed' = IF created THEN listed + 1 ELSE listed
          /\ Go(s, "reply.save", [local[s] EXCEPT !.noted = NoteAfter(s, created)])
    BY <1>3 DEF Correct
  <2>2. NoteAfter(s, created) \in BOOLEAN
    BY Fields DEF NoteAfter
  <2>3. [local[s] EXCEPT !.noted = NoteAfter(s, created)] \in Locals
    BY <2>2, Fields DEF Locals
  <2>4. pc' \in [Slots -> Points] /\ local' \in [Slots -> Locals]
    BY <2>1, <2>3, GoTyped DEF Points
  <2>5. QED
    BY <1>3, <2>1, <2>4 DEF Correct, TypeOK
<1>4. CASE SaveReply(s)
  <2>1. pc' \in [Slots -> Points] /\ local' \in [Slots -> Locals]
    BY <1>4, NothingHeld, GoTyped DEF SaveReply, Points
  <2>2. review' \in Reviews
    BY <1>4, Fields DEF SaveReply, Reviews
  <2>3. work' \in WorkStatuses
    BY <1>4 DEF SaveReply, WorkAfter, WorkStatuses
  <2>4. noted' \in BOOLEAN
    BY <1>4, Fields DEF SaveReply, TypeOK
  <2>5. QED
    BY <1>4, <2>1, <2>2, <2>3, <2>4 DEF SaveReply, TypeOK
<1>5. CASE FlushList(s)
  <2>1. [NoLocals EXCEPT !.todo = {d \in Drafts : status[d] = "PENDING"}] \in Locals
    BY NothingHeld DEF Locals
  <2>2. pc' \in [Slots -> Points] /\ local' \in [Slots -> Locals]
    BY <1>5, <2>1, GoTyped DEF FlushList, Points
  <2>3. QED
    BY <1>5, <2>2 DEF FlushList, data, TypeOK
<1>6. CASE FlushRead(s)
  <2>1. CASE Go(s, "await.read", local[s])
    BY <1>6, <2>1, Fields, GoTyped DEF FlushRead, data, TypeOK, Points
  <2>2. ASSUME NEW d \in local[s].todo,
               LET rest == [local[s] EXCEPT !.todo = @ \ {d}] IN
               \/ Go(s, "flush.read", [rest EXCEPT !.sent = @ \union {d}])
               \/ Go(s, "flush.deliver", [rest EXCEPT !.draft = d])
        PROVE  TypeOK'
    <3> DEFINE rest == [local[s] EXCEPT !.todo = @ \ {d}]
    <3>1. d \in Drafts /\ rest \in Locals /\ rest.sent = local[s].sent
      BY Fields DEF Locals
    <3>2. [rest EXCEPT !.sent = @ \union {d}] \in Locals
      <4> HIDE DEF rest
      <4> QED
        BY <3>1 DEF Locals
    <3>3. [rest EXCEPT !.draft = d] \in Locals
      <4> HIDE DEF rest
      <4> QED
        BY <3>1 DEF Locals
    <3>4. pc' \in [Slots -> Points] /\ local' \in [Slots -> Locals]
      BY <2>2, <3>2, <3>3, GoTyped DEF Points
    <3>5. QED
      BY <1>6, <3>4 DEF FlushRead, data, TypeOK
  <2>3. QED
    BY <1>6, <2>1, <2>2 DEF FlushRead
<1>7. CASE FlushDeliver(s)
  BY <1>7, DeliverTyped DEF FlushDeliver, At, Points
<1>8. CASE FlushRecord(s)
  <2> DEFINE l == [local[s] EXCEPT !.draft = NoDraft,
                     !.sent = IF local[s].ok THEN @ \union {local[s].draft} ELSE @]
  <2>1. status' \in [Drafts -> {"absent", "PENDING", "SENT"}]
    BY <1>8 DEF FlushRecord, StatusFor, TypeOK
  <2>2. l \in Locals
    BY <1>8, Fields DEF Locals, FlushRecord, At
  <2>3. pc' \in [Slots -> Points] /\ local' \in [Slots -> Locals]
    BY <1>8, <2>2, GoTyped DEF FlushRecord, Points
  <2>4. QED
    BY <1>8, <2>1, <2>3 DEF FlushRecord, TypeOK
<1>9. CASE AwaitRead(s)
  <2>1. CASE Finish(s)
    BY <1>9, <2>1, FinishTyped DEF AwaitRead, data, TypeOK
  <2>2. ASSUME NEW d \in local[s].sent,
               Go(s, IF IsReviewed(s, d) THEN "await.save" ELSE "await.read",
                  [local[s] EXCEPT !.sent = @ \ {d}, !.review = review])
        PROVE  TypeOK'
    <3>1. [local[s] EXCEPT !.sent = @ \ {d}, !.review = review] \in Locals
      BY Fields DEF Locals, TypeOK
    <3>2. pc' \in [Slots -> Points] /\ local' \in [Slots -> Locals]
      BY <2>2, <3>1, GoTyped DEF Points
    <3>3. QED
      BY <1>9, <3>2 DEF AwaitRead, data, TypeOK
  <2>3. QED
    BY <1>9, <2>1, <2>2 DEF AwaitRead
<1>10. CASE AwaitSave(s)
  <2>1. pc' \in [Slots -> Points] /\ local' \in [Slots -> Locals]
    BY <1>10, Fields, GoTyped DEF AwaitSave, Points
  <2>2. review' \in Reviews
    BY <1>10, Fields DEF AwaitSave, Reviews
  <2>3. QED
    BY <1>10, <2>1, <2>2 DEF AwaitSave, TypeOK
<1>11. QED
  BY <1>1, <1>2, <1>3, <1>4, <1>5, <1>6, <1>7, <1>8, <1>9, <1>10 DEF BotStep

-----------------------------------------------------------------------------
(* The inductive invariant.                                                *)

(* Where a slot is about a draft, and where it knows how the PDF went.     *)
DraftPoints ==
  {"send.record", "send.review", "resend.deliver", "resend.record", "flush.deliver",
   "flush.record"}
OutcomePoints == {"send.record", "send.review", "resend.record", "flush.record"}

(* A correction is somewhere the staff sees it.                            *)
Kept == listed > 0 \/ noted

(* What both properties say, of any copy of the request's draftReview.     *)
Sound(r) ==
  /\ r.awaiting \/ r.result # "none" => r.draft \in delivered
  /\ r.result = "correction" => Kept

(* A slot's copy of the draftReview is sound, and what it will write too.  *)
SlotOK(s) ==
  /\ Sound(local[s].review) /\ local[s].sent \subseteq delivered
  /\ pc[s] \in DraftPoints => local[s].draft \in Drafts
  /\ pc[s] \in OutcomePoints /\ local[s].ok => local[s].draft \in delivered
  /\ pc[s] \in {"reply.correct", "reply.save", "await.save"} =>
       local[s].review.draft \in delivered
  /\ pc[s] = "reply.save" /\ local[s].answer = "correction" => listed > 0 \/ local[s].noted

(* A row says SENT only of a PDF that went out.                            *)
SentOut == \A d \in Drafts : status[d] = "SENT" => d \in delivered

IInv == TypeOK /\ SentOut /\ Sound(review) /\ \A s \in Slots : SlotOK(s)

(* Nothing is out, awaited or asked for at the start.                      *)
LEMMA InvInit == ASSUME MaxTexts \in Nat PROVE Init => IInv
<1> SUFFICES ASSUME Init PROVE IInv
  OBVIOUS
<1>1. TypeOK
  BY TypeInit
<1>2. SentOut /\ Sound(review)
  BY DEF Init, SentOut, Sound, NoReview
<1>3. ASSUME NEW s \in Slots PROVE SlotOK(s)
  <2>1. local[s] = NoLocals /\ pc[s] = "idle"
    BY DEF Init
  <2>2. QED
    BY <2>1 DEF SlotOK, Sound, NoLocals, NoReview, DraftPoints, OutcomePoints
<1>4. QED
  BY <1>1, <1>2, <1>3 DEF IInv

(* What went out stays out, and what is kept stays kept.                   *)
Later ==
  /\ delivered \subseteq delivered'
  /\ listed > 0 => listed' > 0
  /\ Kept => Kept'

(* What a slot holds stays right when others go on.                        *)
LEMMA OthersOK ==
  ASSUME IInv, Later, NEW o \in Slots, pc'[o] = pc[o], local'[o] = local[o]
  PROVE  SlotOK(o)'
<1>1. SlotOK(o)
  BY DEF IInv
<1>2. QED
  BY <1>1 DEF SlotOK, Sound, Later, Kept

(* So one slot, the rows and the request are left to look at.              *)
LEMMA OneSlot ==
  ASSUME IInv, TypeOK', Later, SentOut', Sound(review)',
         NEW s \in Slots, NEW point, NEW l, Go(s, point, l), SlotOK(s)'
  PROVE  IInv'
<1>1. \A o \in Slots \ {s} : pc'[o] = pc[o] /\ local'[o] = local[o]
  BY GoMoves DEF IInv
<1>2. \A o \in Slots : SlotOK(o)'
  BY <1>1, OthersOK
<1>3. QED
  BY <1>2 DEF IInv

(* A slot that does nothing holds nothing wrong.                           *)
LEMMA EmptyOKAfter ==
  ASSUME NEW s \in Slots, local'[s] = NoLocals,
         pc'[s] \in {"idle", "send.deliver", "reply.read", "flush.list"}
  PROVE  SlotOK(s)'
  BY DEF SlotOK, Sound, NoLocals, NoReview, DraftPoints, OutcomePoints

(* A step of one slot that leaves the request and the rows alone.          *)
LEMMA SlotGoes ==
  ASSUME IInv, TypeOK', NEW s \in Slots, NEW point, NEW l, Go(s, point, l),
         UNCHANGED <<review, status, delivered, listed, noted>>, SlotOK(s)'
  PROVE  IInv'
<1>1. Later /\ SentOut' /\ Sound(review)'
  BY DEF IInv, Later, Kept, SentOut, Sound
<1>2. QED
  BY <1>1, OneSlot

(* Delivering a draft: it is out before the slot says so.                  *)
LEMMA DeliverStep ==
  ASSUME IInv, TypeOK', NEW s \in Slots, NEW d \in Drafts,
         NEW point \in OutcomePoints, Deliver(s, d, point)
  PROVE  IInv'
<1>1. PICK ok \in {FALSE, window} :
        /\ delivered' = IF ok THEN delivered \union {d} ELSE delivered
        /\ Go(s, point, [local[s] EXCEPT !.draft = d, !.ok = ok])
        /\ UNCHANGED <<work, review, status, window, listed, noted, texts>>
  BY DEF Deliver
<1> DEFINE l == [local[s] EXCEPT !.draft = d, !.ok = ok]
<1>2. l.draft = d /\ l.ok = ok /\ l.review = local[s].review /\ l.sent = local[s].sent
  BY Fields DEF IInv, Locals
<1>3. delivered \subseteq delivered' /\ (ok => d \in delivered')
  BY <1>1
<1>4. Later /\ SentOut' /\ Sound(review)'
  BY <1>1, <1>3 DEF IInv, Later, Kept, SentOut, Sound
<1>5. pc'[s] = point /\ local'[s] = l /\ SlotOK(s)
  BY <1>1, GoMoves DEF IInv
<1>6. SlotOK(s)'
  <2> HIDE DEF l
  <2> QED
    BY <1>2, <1>3, <1>4, <1>5 DEF SlotOK, Sound, Later, Kept, DraftPoints, OutcomePoints
<1>7. QED
  BY <1>1, <1>4, <1>6, OneSlot

(* Recording the outcome: SENT only if it is out.                          *)
LEMMA RecordedOut ==
  ASSUME IInv, NEW s \in Slots, pc[s] \in OutcomePoints, UNCHANGED delivered,
         status' = [status EXCEPT ![local[s].draft] = StatusFor(local[s].ok)]
  PROVE  SentOut'
  BY DEF IInv, SentOut, SlotOK, StatusFor, TypeOK

(* The send: the review follows what was delivered.                        *)
LEMMA SendInv ==
  ASSUME IInv, TypeOK', NEW s \in Slots, SendStep(s)
  PROVE  IInv'
<1>1. CASE BeginSend(s)
  <2>1. pc'[s] = "send.deliver" /\ local'[s] = NoLocals
    BY <1>1, GoMoves DEF BeginSend, IInv
  <2>2. SlotOK(s)'
    BY <2>1, EmptyOKAfter
  <2>3. QED
    BY <1>1, <2>2, SlotGoes DEF BeginSend, data
<1>2. ASSUME NEW d \in Drafts, SendDeliver(s, d) PROVE IInv'
  BY <1>2, DeliverStep DEF SendDeliver, OutcomePoints
<1>3. CASE SendRecord(s)
  <2>1. /\ pc[s] = "send.record" /\ Go(s, "send.review", local[s])
        /\ UNCHANGED <<review, delivered, listed, noted>> /\ SentOut'
    BY <1>3, RecordedOut DEF SendRecord, RecordDelivery, At, OutcomePoints
  <2>2. pc'[s] = "send.review" /\ local'[s] = local[s] /\ SlotOK(s)
    BY <2>1, GoMoves DEF IInv
  <2>3. SlotOK(s)'
    BY <2>1, <2>2 DEF SlotOK, Sound, Kept, DraftPoints, OutcomePoints
  <2>4. Later /\ Sound(review)'
    BY <2>1 DEF IInv, Later, Kept, Sound
  <2>5. QED
    BY <2>1, <2>3, <2>4, OneSlot
<1>4. CASE SendReview(s)
  <2>1. /\ pc[s] = "send.review" /\ Go(s, "idle", NoLocals)
        /\ UNCHANGED <<status, delivered, listed, noted>>
        /\ review' = [draft |-> local[s].draft, awaiting |-> local[s].ok, result |-> "none"]
    BY <1>4 DEF SendReview, At, Finish, ReviewOf
  <2>2. local[s].ok => local[s].draft \in delivered
    BY <2>1 DEF IInv, SlotOK, OutcomePoints
  <2>3. Sound(review)' /\ Later /\ SentOut'
    BY <2>1, <2>2 DEF IInv, Sound, Later, Kept, SentOut
  <2>4. SlotOK(s)'
    BY <2>1, GoMoves, EmptyOKAfter DEF IInv
  <2>5. QED
    BY <2>1, <2>3, <2>4, OneSlot
<1>5. QED
  BY <1>1, <1>2, <1>3, <1>4 DEF SendStep

(* The resend: the row follows what was delivered.                         *)
LEMMA ResendInv ==
  ASSUME IInv, TypeOK', NEW s \in Slots, ResendStep(s)
  PROVE  IInv'
<1>1. ASSUME NEW d \in Drafts, BeginResend(s, d) PROVE IInv'
  <2> DEFINE l == [NoLocals EXCEPT !.draft = d]
  <2>1. /\ l.draft = d /\ l.review = NoReview /\ l.sent = {} /\ Go(s, "resend.deliver", l)
        /\ UNCHANGED <<review, status, delivered, listed, noted>>
    BY <1>1 DEF NoLocals, BeginResend, data
  <2>2. pc'[s] = "resend.deliver" /\ local'[s] = l
    BY <2>1, GoMoves DEF IInv
  <2>3. SlotOK(s)'
    <3> HIDE DEF l
    <3> QED
      BY <2>1, <2>2 DEF SlotOK, Sound, NoReview, DraftPoints, OutcomePoints
  <2>4. QED
    BY <2>1, <2>3, SlotGoes
<1>2. CASE ResendDeliver(s)
  BY <1>2, DeliverStep DEF ResendDeliver, At, IInv, SlotOK, OutcomePoints, DraftPoints
<1>3. CASE ResendRecord(s)
  <2>1. /\ pc[s] = "resend.record" /\ Go(s, "idle", NoLocals)
        /\ UNCHANGED <<review, delivered, listed, noted>> /\ SentOut'
    BY <1>3, RecordedOut DEF ResendRecord, Finish, At, OutcomePoints
  <2>2. SlotOK(s)'
    BY <2>1, GoMoves, EmptyOKAfter DEF IInv
  <2>3. Later /\ Sound(review)'
    BY <2>1 DEF IInv, Later, Kept, Sound
  <2>4. QED
    BY <2>1, <2>2, <2>3, OneSlot
<1>4. QED
  BY <1>1, <1>2, <1>3 DEF ResendStep

(* The reply: the copy it read was about a draft that is out, and the      *)
(* correction is noted wherever the list did not take it.                  *)
LEMMA ReplyInv ==
  ASSUME IInv, TypeOK', NEW s \in Slots, Write(s) \/ ReadForReply(s) \/ Correct(s) \/ SaveReply(s)
  PROVE  IInv'
<1>1. CASE Write(s)
  <2>1. PICK point \in {"reply.read", "flush.list"} : Go(s, point, NoLocals)
    BY <1>1 DEF Write
  <2>2. SlotOK(s)'
    BY <2>1, GoMoves, EmptyOKAfter DEF IInv
  <2>3. UNCHANGED <<review, status, delivered, listed, noted>>
    BY <1>1 DEF Write
  <2>4. QED
    BY <2>1, <2>2, <2>3, SlotGoes
<1>2. CASE ReadForReply(s)
  <2>1. UNCHANGED <<review, status, delivered, listed, noted>>
    BY <1>2 DEF ReadForReply, data
  <2>2. CASE Go(s, "flush.list", NoLocals)
    <3>1. SlotOK(s)'
      BY <2>2, GoMoves, EmptyOKAfter DEF IInv
    <3>2. QED
      BY <2>1, <2>2, <3>1, SlotGoes
  <2>3. ASSUME NEW a \in Answers, review.awaiting,
               Go(s, IF a = "correction" THEN "reply.correct" ELSE "reply.save",
                  [NoLocals EXCEPT !.review = review, !.answer = a, !.noted = noted])
        PROVE  IInv'
    <3> DEFINE l == [NoLocals EXCEPT !.review = review, !.answer = a, !.noted = noted]
    <3>1. l.review = review /\ l.answer = a /\ l.sent = {}
      BY DEF NoLocals
    <3>2. local'[s] = l /\ pc'[s] = IF a = "correction" THEN "reply.correct" ELSE "reply.save"
      BY <2>3, GoMoves DEF IInv
    <3>3. Sound(review) /\ review.draft \in delivered
      BY <2>3 DEF IInv, Sound
    <3>4. SlotOK(s)'
      <4> HIDE DEF l
      <4> QED
        BY <2>1, <3>1, <3>2, <3>3 DEF SlotOK, Sound, Kept, DraftPoints, OutcomePoints
    <3>5. QED
      BY <2>1, <2>3, <3>4, SlotGoes
  <2>4. QED
    BY <1>2, <2>2, <2>3 DEF ReadForReply
<1>3. CASE Correct(s)
  <2>1. PICK created \in BOOLEAN :
          /\ listed' = IF created THEN listed + 1 ELSE listed
          /\ Go(s, "reply.save", [local[s] EXCEPT !.noted = NoteAfter(s, created)])
    BY <1>3 DEF Correct
  <2> DEFINE l == [local[s] EXCEPT !.noted = NoteAfter(s, created)]
  <2>2. l.noted = NoteAfter(s, created) /\ l.review = local[s].review /\ l.sent = local[s].sent
    BY Fields DEF IInv, Locals
  <2>3. listed' > 0 \/ l.noted
    <3>1. CASE created
      <4>1. listed \in Nat /\ listed' = listed + 1
        BY <2>1, <3>1, Zenon DEF IInv, TypeOK
      <4> HIDE DEF l
      <4>2. QED
        BY <4>1
    <3>2. CASE ~created
      BY <2>2, <3>2, Zenon DEF NoteAfter
    <3>3. QED
      BY <3>1, <3>2
  <2>4. UNCHANGED <<review, status, delivered, noted>> /\ pc[s] = "reply.correct"
    BY <1>3 DEF Correct, At
  <2>5. listed > 0 => listed' > 0
    BY <2>1 DEF IInv, TypeOK
  <2>6. Later /\ SentOut' /\ Sound(review)'
    BY <2>4, <2>5 DEF IInv, Later, Kept, SentOut, Sound
  <2>7. pc'[s] = "reply.save" /\ local'[s] = l /\ SlotOK(s)
    BY <2>1, GoMoves DEF IInv
  <2>8. SlotOK(s)'
    <3> HIDE DEF l
    <3> QED
      BY <2>2, <2>3, <2>4, <2>6, <2>7
      DEF SlotOK, Sound, Later, Kept, DraftPoints, OutcomePoints
  <2>9. QED
    BY <2>1, <2>6, <2>8, OneSlot
<1>4. CASE SaveReply(s)
  <2>1. /\ pc[s] = "reply.save" /\ Go(s, "flush.list", NoLocals)
        /\ UNCHANGED <<status, delivered, listed>>
        /\ noted' = IF local[s].answer = "correction" THEN local[s].noted ELSE noted
        /\ review' = [local[s].review EXCEPT !.awaiting = FALSE, !.result = local[s].answer]
    BY <1>4 DEF SaveReply, At
  <2>2. review'.draft = local[s].review.draft /\ review'.result = local[s].answer
    BY <2>1, Fields DEF IInv, Reviews
  <2>3. local[s].answer = "correction" => listed > 0 \/ local[s].noted
    BY <2>1 DEF IInv, SlotOK
  <2>4. Kept => Kept'
    BY <2>1, <2>3 DEF Kept
  <2>5. Later /\ SentOut'
    BY <2>1, <2>4 DEF IInv, Later, SentOut
  <2>6. local[s].answer = "correction" => Kept'
    BY <2>1, <2>3 DEF Kept
  <2>7. review'.draft \in delivered'
    BY <2>1, <2>2 DEF IInv, SlotOK
  <2>8. Sound(review)'
    BY <2>2, <2>6, <2>7 DEF Sound
  <2>9. SlotOK(s)'
    BY <2>1, GoMoves, EmptyOKAfter DEF IInv
  <2>10. QED
    BY <2>1, <2>5, <2>8, <2>9, OneSlot
<1>5. QED
  BY <1>1, <1>2, <1>3, <1>4

(* The flush: only a draft that is out starts the wait.                    *)
LEMMA FlushInv ==
  ASSUME IInv, TypeOK', NEW s \in Slots,
         FlushList(s) \/ FlushRead(s) \/ FlushDeliver(s) \/ FlushRecord(s)
  PROVE  IInv'
<1>1. CASE FlushList(s)
  <2> DEFINE l == [NoLocals EXCEPT !.todo = {d \in Drafts : status[d] = "PENDING"}]
  <2>1. /\ l.review = NoReview /\ l.sent = {} /\ Go(s, "flush.read", l)
        /\ UNCHANGED <<review, status, delivered, listed, noted>>
    BY <1>1 DEF NoLocals, FlushList, data
  <2>2. pc'[s] = "flush.read" /\ local'[s] = l
    BY <2>1, GoMoves DEF IInv
  <2>3. SlotOK(s)'
    <3> HIDE DEF l
    <3> QED
      BY <2>1, <2>2 DEF SlotOK, Sound, NoReview, DraftPoints, OutcomePoints
  <2>4. QED
    BY <2>1, <2>3, SlotGoes
<1>2. CASE FlushRead(s)
  <2>1. UNCHANGED <<review, status, delivered, listed, noted>> /\ SlotOK(s)
    BY <1>2 DEF FlushRead, data, IInv
  <2>2. CASE Go(s, "await.read", local[s])
    <3>1. pc'[s] = "await.read" /\ local'[s] = local[s]
      BY <2>2, GoMoves DEF IInv
    <3>2. SlotOK(s)'
      BY <2>1, <3>1 DEF SlotOK, Sound, Kept, DraftPoints, OutcomePoints
    <3>3. QED
      BY <2>1, <2>2, <3>2, SlotGoes
  <2>3. ASSUME NEW d \in local[s].todo
        PROVE  LET rest == [local[s] EXCEPT !.todo = @ \ {d}] IN
               (IF status[d] = "SENT"
                THEN Go(s, "flush.read", [rest EXCEPT !.sent = @ \union {d}])
                ELSE Go(s, "flush.deliver", [rest EXCEPT !.draft = d])) => IInv'
    <3> DEFINE rest == [local[s] EXCEPT !.todo = @ \ {d}]
               more == [rest EXCEPT !.sent = @ \union {d}]
               one == [rest EXCEPT !.draft = d]
    <3>1. d \in Drafts /\ local[s] \in Locals
      BY Fields DEF IInv
    <3>2. rest.review = local[s].review /\ rest.sent = local[s].sent /\ rest \in Locals
      BY <3>1 DEF Locals
    <3>3. more.review = local[s].review /\ more.sent = local[s].sent \union {d}
      <4> HIDE DEF rest
      <4> QED
        BY <3>2 DEF Locals
    <3>4. one.review = local[s].review /\ one.sent = local[s].sent /\ one.draft = d
      <4> HIDE DEF rest
      <4> QED
        BY <3>2 DEF Locals
    <3>5. ASSUME status[d] = "SENT", Go(s, "flush.read", more) PROVE IInv'
      <4>1. pc'[s] = "flush.read" /\ local'[s] = more
        BY <3>5, GoMoves DEF IInv
      <4>2. more.sent \subseteq delivered
        BY <2>1, <3>1, <3>3, <3>5 DEF SlotOK, IInv, SentOut
      <4>3. SlotOK(s)'
        <5> HIDE DEF more
        <5> QED
          BY <2>1, <3>3, <4>1, <4>2 DEF SlotOK, Sound, Kept, DraftPoints, OutcomePoints
      <4>4. QED
        BY <2>1, <3>5, <4>3, SlotGoes
    <3>6. ASSUME Go(s, "flush.deliver", one) PROVE IInv'
      <4>1. pc'[s] = "flush.deliver" /\ local'[s] = one
        BY <3>6, GoMoves DEF IInv
      <4>2. SlotOK(s)'
        <5> HIDE DEF one
        <5> QED
          BY <2>1, <3>1, <3>4, <4>1 DEF SlotOK, Sound, Kept, DraftPoints, OutcomePoints
      <4>3. QED
        BY <2>1, <3>6, <4>2, SlotGoes
    <3>7. QED
      BY <3>5, <3>6
  <2>4. QED
    BY <1>2, <2>2, <2>3 DEF FlushRead
<1>3. CASE FlushDeliver(s)
  BY <1>3, DeliverStep DEF FlushDeliver, At, IInv, SlotOK, OutcomePoints, DraftPoints
<1>4. CASE FlushRecord(s)
  <2> DEFINE l == [local[s] EXCEPT !.draft = NoDraft,
                     !.sent = IF local[s].ok THEN @ \union {local[s].draft} ELSE @]
  <2>1. /\ pc[s] = "flush.record" /\ Go(s, "flush.read", l)
        /\ UNCHANGED <<review, delivered, listed, noted>> /\ SentOut'
    BY <1>4, RecordedOut DEF FlushRecord, At, OutcomePoints
  <2>2. /\ l.review = local[s].review
        /\ l.sent = IF local[s].ok THEN local[s].sent \union {local[s].draft} ELSE local[s].sent
    BY Fields DEF IInv, Locals
  <2>3. SlotOK(s) /\ l.sent \subseteq delivered
    BY <2>1, <2>2 DEF IInv, SlotOK, OutcomePoints
  <2>4. pc'[s] = "flush.read" /\ local'[s] = l
    BY <2>1, GoMoves DEF IInv
  <2>5. SlotOK(s)'
    <3> HIDE DEF l
    <3> QED
      BY <2>1, <2>2, <2>3, <2>4 DEF SlotOK, Sound, Kept, DraftPoints, OutcomePoints
  <2>6. Later /\ Sound(review)'
    BY <2>1 DEF IInv, Later, Kept, Sound
  <2>7. QED
    BY <2>1, <2>5, <2>6, OneSlot
<1>5. QED
  BY <1>1, <1>2, <1>3, <1>4

(* The wait starts for the drafts the flush sent.                          *)
LEMMA AwaitInv ==
  ASSUME IInv, TypeOK', NEW s \in Slots, AwaitRead(s) \/ AwaitSave(s)
  PROVE  IInv'
<1>1. CASE AwaitRead(s)
  <2>1. UNCHANGED <<review, status, delivered, listed, noted>> /\ SlotOK(s)
    BY <1>1 DEF AwaitRead, data, IInv
  <2>2. CASE Finish(s)
    <3>1. SlotOK(s)'
      BY <2>2, GoMoves, EmptyOKAfter DEF Finish, IInv
    <3>2. QED
      BY <2>1, <2>2, <3>1, SlotGoes DEF Finish
  <2>3. ASSUME NEW d \in local[s].sent,
               Go(s, IF IsReviewed(s, d) THEN "await.save" ELSE "await.read",
                  [local[s] EXCEPT !.sent = @ \ {d}, !.review = review])
        PROVE  IInv'
    <3> DEFINE l == [local[s] EXCEPT !.sent = @ \ {d}, !.review = review]
    <3>1. l.review = review /\ l.sent = local[s].sent \ {d}
      BY Fields DEF IInv, Locals
    <3>2. local'[s] = l /\ pc'[s] = IF review.draft = d THEN "await.save" ELSE "await.read"
      BY <2>3, GoMoves DEF IInv, IsReviewed
    <3>3. d \in delivered /\ l.sent \subseteq delivered
      BY <2>1, <3>1 DEF SlotOK
    <3>4. Sound(review)
      BY DEF IInv
    <3>5. SlotOK(s)'
      <4> HIDE DEF l
      <4> QED
        BY <2>1, <3>1, <3>2, <3>3, <3>4 DEF SlotOK, Sound, Kept, DraftPoints, OutcomePoints
    <3>6. QED
      BY <2>1, <2>3, <3>5, SlotGoes
  <2>4. QED
    BY <1>1, <2>2, <2>3 DEF AwaitRead
<1>2. CASE AwaitSave(s)
  <2>1. /\ pc[s] = "await.save" /\ Go(s, "await.read", local[s])
        /\ UNCHANGED <<status, delivered, listed, noted>>
        /\ review' = [local[s].review EXCEPT !.awaiting = TRUE]
    BY <1>2 DEF AwaitSave, At
  <2>2. review'.draft = local[s].review.draft /\ review'.result = local[s].review.result
    BY <2>1, Fields DEF IInv, Reviews
  <2>3. SlotOK(s)
    BY DEF IInv
  <2>4. Sound(review)'
    BY <2>1, <2>2, <2>3 DEF SlotOK, Sound, Kept
  <2>5. Later /\ SentOut'
    BY <2>1 DEF IInv, Later, Kept, SentOut
  <2>6. pc'[s] = "await.read" /\ local'[s] = local[s]
    BY <2>1, GoMoves DEF IInv
  <2>7. SlotOK(s)'
    BY <2>1, <2>3, <2>6 DEF SlotOK, Sound, Kept, DraftPoints, OutcomePoints
  <2>8. QED
    BY <2>1, <2>4, <2>5, <2>7, OneSlot
<1>3. QED
  BY <1>1, <1>2

(* Every step, of any slot, keeps the invariant.                           *)
LEMMA InvStep == ASSUME MaxTexts \in Nat, IInv, [Next]_vars PROVE IInv'
<1>1. ASSUME NEW s \in Slots, SendStep(s) PROVE IInv'
  BY <1>1, SendTyped, SendInv DEF IInv
<1>2. ASSUME NEW s \in Slots, ResendStep(s) PROVE IInv'
  <2>1. pc[s] = "resend.deliver" => local[s].draft \in Drafts
    BY DEF IInv, SlotOK, DraftPoints
  <2>2. QED
    BY <1>2, <2>1, ResendTyped, ResendInv DEF IInv
<1>3. ASSUME NEW s \in Slots, BotStep(s) PROVE IInv'
  <2>1. pc[s] \in {"flush.deliver", "flush.record"} => local[s].draft \in Drafts
    BY DEF IInv, SlotOK, DraftPoints
  <2>2. TypeOK'
    BY <1>3, <2>1, BotTyped DEF IInv
  <2>3. QED
    BY <1>3, <2>2, ReplyInv, FlushInv, AwaitInv DEF BotStep
<1>4. ASSUME NEW s \in Slots, Fail(s) PROVE IInv'
  <2>1. Go(s, "idle", NoLocals) /\ UNCHANGED data
    BY <1>4 DEF Fail, Finish
  <2>2. TypeOK'
    BY <2>1, FinishTyped DEF IInv, TypeOK, data, Finish
  <2>3. SlotOK(s)'
    BY <2>1, GoMoves, EmptyOKAfter DEF IInv
  <2>4. QED
    BY <2>1, <2>2, <2>3, SlotGoes DEF data
<1>5. ASSUME UNCHANGED <<review, status, delivered, listed, noted, pc, local>>, TypeOK' PROVE IInv'
  <2>1. Later /\ SentOut' /\ Sound(review)'
    BY <1>5 DEF IInv, Later, Kept, SentOut, Sound
  <2>2. \A o \in Slots : SlotOK(o)'
    BY <1>5, <2>1, OthersOK
  <2>3. QED
    BY <1>5, <2>1, <2>2 DEF IInv
<1>6. ASSUME NEW w \in WorkStatuses, SetStatus(w) PROVE IInv'
  BY <1>5, <1>6 DEF SetStatus, IInv, TypeOK
<1>7. CASE WindowCloses \/ UNCHANGED vars
  BY <1>5, <1>7 DEF WindowCloses, vars, IInv, TypeOK
<1>8. QED
  BY <1>1, <1>2, <1>3, <1>4, <1>6, <1>7 DEF Next

(* However sends, resends, flushes, replies and failures interleave: the   *)
(* bot waits for, and records, answers only to a draft the customer was    *)
(* given.                                                                  *)
THEOREM AnswersCorrect == ASSUME MaxTexts \in Nat PROVE Spec => []AnswersADelivery
<1>1. Init => IInv
  BY InvInit
<1>2. IInv /\ [Next]_vars => IInv'
  BY InvStep
<1>3. IInv => AnswersADelivery
  BY DEF IInv, Sound, AnswersADelivery
<1>4. QED
  BY <1>1, <1>2, <1>3, PTL DEF Spec

(* And a correction the request says was asked for is in the deed's list   *)
(* or in the staff note, whatever failed on the way.                       *)
THEOREM CorrectionsCorrect == ASSUME MaxTexts \in Nat PROVE Spec => []CorrectionKept
<1>1. Init => IInv
  BY InvInit
<1>2. IInv /\ [Next]_vars => IInv'
  BY InvStep
<1>3. IInv => CorrectionKept
  BY DEF IInv, Sound, Kept, CorrectionKept
<1>4. QED
  BY <1>1, <1>2, <1>3, PTL DEF Spec

(* Rows and slots keep their shapes.                                       *)
THEOREM ReviewTypeCorrect == ASSUME MaxTexts \in Nat PROVE Spec => []TypeOK
<1>1. Init => IInv
  BY InvInit
<1>2. IInv /\ [Next]_vars => IInv'
  BY InvStep
<1>3. IInv => TypeOK
  BY DEF IInv
<1>4. QED
  BY <1>1, <1>2, <1>3, PTL DEF Spec
=============================================================================
