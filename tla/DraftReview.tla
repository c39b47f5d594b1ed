----------------------------- MODULE DraftReview -----------------------------
(***************************************************************************)
(* One submitted WhatsApp request whose draft deed goes to the customer    *)
(* for checking: a manager sends the PDF, WhatsApp takes documents only in *)
(* the 24 hours after the customer's last message, a PDF that could not go *)
(* out waits for the customer to write, and the customer's answer becomes  *)
(* an approval or a correction.                                            *)
(*                                                                         *)
(* The request row's data column is JSON that a handler reads, changes and *)
(* writes back whole; the row is not locked.  A step is one database       *)
(* statement or one call of the WhatsApp API.  Requests in the slots       *)
(* interleave and what they have read can be stale.                        *)
(***************************************************************************)
EXTENDS Naturals

CONSTANTS
  Drafts,    \* WaNotification rows of kind DRAFT, each with its PDF
  NoDraft,   \* no such row: none of Drafts
  Slots,     \* slots for the staff's requests and the bot's handler runs
  MaxTexts   \* bound: how many text batches and files the customer sends

VARIABLES
  work,       \* workStatus of the request
  review,     \* data.draftReview of the request
  status,     \* draft -> status of its WaNotification row
  delivered,  \* the drafts WhatsApp has accepted for the customer
  window,     \* has the customer written in the last 24 hours?
  listed,     \* number of DeedCorrectionRequest rows
  noted,      \* does the staff note hold a correction?
  texts,      \* how much of MaxTexts is used up
  pc, local   \* slot -> the call it makes next, and what it has read

vars == <<work, review, status, delivered, window, listed, noted, texts, pc, local>>
data == <<work, review, status, delivered, window, listed, noted, texts>>

(* OTHER stands for every status this flow does not set or test. *)
WorkStatuses == {"DRAFT_READY", "CUSTOMER_APPROVED", "CORRECTION_REQUESTED", "OTHER"}
Answers == {"approved", "correction"}
Reviews ==
  [draft : Drafts \union {NoDraft}, awaiting : BOOLEAN, result : Answers \union {"none"}]
NoReview == [draft |-> NoDraft, awaiting |-> FALSE, result |-> "none"]

Points ==
  {"idle", "send.deliver", "send.record", "send.review", "resend.deliver",
   "resend.record", "reply.read", "reply.correct", "reply.save", "flush.list",
   "flush.read", "flush.deliver", "flush.record", "await.read", "await.save"}

Locals ==
  [draft : Drafts \union {NoDraft}, ok : BOOLEAN, review : Reviews,
   answer : Answers \union {"none"}, noted : BOOLEAN,
   todo : SUBSET Drafts, sent : SUBSET Drafts]

NoLocals ==
  [draft |-> NoDraft, ok |-> FALSE, review |-> NoReview, answer |-> "none",
   noted |-> FALSE, todo |-> {}, sent |-> {}]

Init ==
  /\ work = "DRAFT_READY" /\ review = NoReview
  /\ status = [d \in Drafts |-> "absent"] /\ delivered = {}
  /\ window \in BOOLEAN
  /\ listed = 0 /\ noted = FALSE /\ texts = 0
  /\ pc = [s \in Slots |-> "idle"]
  /\ local = [s \in Slots |-> NoLocals]

-----------------------------------------------------------------------------

At(s, point) == pc[s] = point
Go(s, point, locals) ==
  /\ pc' = [pc EXCEPT ![s] = point]
  /\ local' = [local EXCEPT ![s] = locals]
Finish(s) == Go(s, "idle", NoLocals)

(* The handler throws, or the server restarts. *)
Fail(s) ==
  /\ ~At(s, "idle")
  /\ Finish(s)
  /\ UNCHANGED data

(* deliverDocument: accepted only in the window, and Meta can refuse. *)
Deliver(s, d, point) ==
  \E ok \in {FALSE, window} :
    /\ delivered' = IF ok THEN delivered \union {d} ELSE delivered
    /\ Go(s, point, [local[s] EXCEPT !.draft = d, !.ok = ok])
    /\ UNCHANGED <<work, review, status, window, listed, noted, texts>>

(* The outcome of a delivery goes into the row. *)
StatusFor(ok) == IF ok THEN "SENT" ELSE "PENDING"

RecordDelivery(s, point) ==
  /\ status' = [status EXCEPT ![local[s].draft] = StatusFor(local[s].ok)]
  /\ Go(s, point, local[s])
  /\ UNCHANGED <<work, review, delivered, window, listed, noted, texts>>

-----------------------------------------------------------------------------
(* The staff.                                                              *)

(* WaRequestsService.update with a work status: any status, any time. *)
SetStatus(w) ==
  /\ work' = w
  /\ UNCHANGED <<review, status, delivered, window, listed, noted, texts, pc, local>>

(* DraftReviewService.send: sendable reads the row ... *)
BeginSend(s) ==
  /\ At(s, "idle")
  /\ work = "DRAFT_READY"
  /\ Go(s, "send.deliver", NoLocals)
  /\ UNCHANGED data

(* ... the outbox posts the PDF ... *)
SendDeliver(s, d) ==
  /\ At(s, "send.deliver")
  /\ status[d] = "absent" /\ \A o \in Slots : local[o].draft # d
  /\ Deliver(s, d, "send.record")

(* ... and then stores the outcome ... *)
SendRecord(s) == At(s, "send.record") /\ RecordDelivery(s, "send.review")

(* A new draftReview: the answer is awaited if the PDF went out. *)
ReviewOf(d, ok) == [draft |-> d, awaiting |-> ok, result |-> "none"]

(* ... and the request gets its new draftReview. *)
SendReview(s) ==
  /\ At(s, "send.review")
  /\ review' = ReviewOf(local[s].draft, local[s].ok)
  /\ Finish(s)
  /\ UNCHANGED <<work, status, delivered, window, listed, noted, texts>>

(* WaOutboxService.resend, from the button beside a PENDING message. *)
BeginResend(s, d) ==
  /\ At(s, "idle")
  /\ status[d] = "PENDING"
  /\ Go(s, "resend.deliver", [NoLocals EXCEPT !.draft = d])
  /\ UNCHANGED data

ResendDeliver(s) ==
  At(s, "resend.deliver") /\ Deliver(s, local[s].draft, "resend.record")

ResendRecord(s) ==
  /\ At(s, "resend.record")
  /\ status' = [status EXCEPT ![local[s].draft] = StatusFor(local[s].ok)]
  /\ Finish(s)
  /\ UNCHANGED <<work, review, delivered, window, listed, noted, texts>>

-----------------------------------------------------------------------------
(* The customer writes; the bot handles the batch of texts, or the file.   *)

(* touchContact opens the window (an error of it is only logged).  A file  *)
(* is never an answer to a draft.                                          *)
Write(s) ==
  /\ At(s, "idle")
  /\ texts < MaxTexts
  /\ texts' = texts + 1
  /\ window' \in {window, TRUE}
  /\ \E point \in {"reply.read", "flush.list"} : Go(s, point, NoLocals)
  /\ UNCHANGED <<work, review, status, delivered, listed, noted>>

(* A day without a message. *)
WindowCloses ==
  /\ window
  /\ window' = FALSE
  /\ UNCHANGED <<work, review, status, delivered, listed, noted, texts, pc, local>>

(* handleReply reads the request; "SAHI HAI" approves, other words correct. *)
ReadForReply(s) ==
  /\ At(s, "reply.read")
  /\ IF work = "DRAFT_READY" /\ review.awaiting
     THEN \E a \in Answers :
            Go(s, IF a = "correction" THEN "reply.correct" ELSE "reply.save",
               [NoLocals EXCEPT !.review = review, !.answer = a, !.noted = noted])
     ELSE Go(s, "flush.list", NoLocals)
  /\ UNCHANGED data

(* Faulty variant: a correction the deed's list refused is dropped. *)
Dropped(s, created) == local[s].noted

(* The note the handler will write: what it has read, and the correction   *)
(* if the deed's list could not take it.                                   *)
NoteAfter(s, created) == local[s].noted \/ ~created

(* The correction goes into the deed's list, which can fail. *)
Correct(s) ==
  /\ At(s, "reply.correct")
  /\ \E created \in BOOLEAN :
       /\ listed' = IF created THEN listed + 1 ELSE listed
       /\ Go(s, "reply.save", [local[s] EXCEPT !.noted = NoteAfter(s, created)])
  /\ UNCHANGED <<work, review, status, delivered, window, noted, texts>>

WorkAfter(answer) ==
  IF answer = "approved" THEN "CUSTOMER_APPROVED" ELSE "CORRECTION_REQUESTED"

(* One update by id, whatever has become of the row since it was read; an  *)
(* approval leaves the staff note alone.                                   *)
SaveReply(s) ==
  LET answer == local[s].answer IN
  /\ At(s, "reply.save")
  /\ review' = [local[s].review EXCEPT !.awaiting = FALSE, !.result = answer]
  /\ work' = WorkAfter(answer)
  /\ noted' = IF answer = "correction" THEN local[s].noted ELSE noted
  /\ Go(s, "flush.list", NoLocals)
  /\ UNCHANGED <<status, delivered, window, listed, texts>>

(* afterReply: the PENDING drafts go out, now that the window is open. *)
FlushList(s) ==
  /\ At(s, "flush.list")
  /\ Go(s, "flush.read", [NoLocals EXCEPT !.todo = {d \in Drafts : status[d] = "PENDING"}])
  /\ UNCHANGED data

(* resend of one of them: one that was SENT meanwhile counts as sent. *)
FlushRead(s) ==
  /\ At(s, "flush.read")
  /\ \/ /\ local[s].todo = {}
        /\ Go(s, "await.read", local[s])
     \/ \E d \in local[s].todo :
          LET rest == [local[s] EXCEPT !.todo = @ \ {d}] IN
          IF status[d] = "SENT"
          THEN Go(s, "flush.read", [rest EXCEPT !.sent = @ \union {d}])
          ELSE Go(s, "flush.deliver", [rest EXCEPT !.draft = d])
  /\ UNCHANGED data

FlushDeliver(s) ==
  At(s, "flush.deliver") /\ Deliver(s, local[s].draft, "flush.record")

FlushRecord(s) ==
  /\ At(s, "flush.record")
  /\ status' = [status EXCEPT ![local[s].draft] = StatusFor(local[s].ok)]
  /\ Go(s, "flush.read", [local[s] EXCEPT !.draft = NoDraft,
          !.sent = IF local[s].ok THEN @ \union {local[s].draft} ELSE @])
  /\ UNCHANGED <<work, review, delivered, window, listed, noted, texts>>

(* Faulty variant: any draft that went out starts the wait. *)
AnySent(s, d) == TRUE

(* Is d the draft whose answer the request is about? *)
IsReviewed(s, d) == review.draft = d

(* flushPending, for each draft that went out: the request is read ... *)
AwaitRead(s) ==
  /\ At(s, "await.read")
  /\ \/ local[s].sent = {} /\ Finish(s)
     \/ \E d \in local[s].sent :
          Go(s, IF IsReviewed(s, d) THEN "await.save" ELSE "await.read",
             [local[s] EXCEPT !.sent = @ \ {d}, !.review = review])
  /\ UNCHANGED data

(* ... and its answer awaited from now on. *)
AwaitSave(s) ==
  /\ At(s, "await.save")
  /\ review' = [local[s].review EXCEPT !.awaiting = TRUE]
  /\ Go(s, "await.read", local[s])
  /\ UNCHANGED <<work, status, delivered, window, listed, noted, texts>>

-----------------------------------------------------------------------------

SendStep(s) ==
  BeginSend(s) \/ (\E d \in Drafts : SendDeliver(s, d)) \/ SendRecord(s) \/ SendReview(s)

ResendStep(s) == (\E d \in Drafts : BeginResend(s, d)) \/ ResendDeliver(s) \/ ResendRecord(s)

BotStep(s) ==
  \/ Write(s) \/ ReadForReply(s) \/ Correct(s) \/ SaveReply(s)
  \/ FlushList(s) \/ FlushRead(s) \/ FlushDeliver(s) \/ FlushRecord(s)
  \/ AwaitRead(s) \/ AwaitSave(s)

Next ==
  \/ \E s \in Slots : SendStep(s) \/ ResendStep(s) \/ BotStep(s) \/ Fail(s)
  \/ \E w \in WorkStatuses : SetStatus(w)
  \/ WindowCloses

Spec == Init /\ [][Next]_vars

-----------------------------------------------------------------------------

(* The variables hold rows and slots of the shapes above. *)
TypeOK ==
  /\ work \in WorkStatuses /\ review \in Reviews
  /\ status \in [Drafts -> {"absent", "PENDING", "SENT"}]
  /\ delivered \subseteq Drafts /\ window \in BOOLEAN
  /\ listed \in Nat /\ noted \in BOOLEAN /\ texts \in 0..MaxTexts
  /\ pc \in [Slots -> Points] /\ local \in [Slots -> Locals]

(* The bot waits for, and records, answers only to a draft the customer    *)
(* was given, whatever sends, resends, flushes and replies race.           *)
AnswersADelivery ==
  review.awaiting \/ review.result # "none" => review.draft \in delivered

(* A correction the customer asked for is in the deed's list or in the     *)
(* staff note before the request says CORRECTION_REQUESTED on its account. *)
CorrectionKept == review.result = "correction" => listed > 0 \/ noted

(* "A PDF that went out after the customer wrote starts the wait": with no *)
(* request in progress, a request whose draft is out and not answered      *)
(* waits for the answer.                                                   *)
DeliveryStartsWait ==
  (\A s \in Slots : At(s, "idle")) =>
    (review.draft # NoDraft /\ review.result = "none" /\ status[review.draft] = "SENT"
       => review.awaiting)

=============================================================================
