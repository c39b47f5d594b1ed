---------------------------- MODULE RequestNotices ----------------------------
(***************************************************************************)
(* What the office sends unasked about one submitted intake: the reminder  *)
(* on the day before the registry (registry-jobs.service), the full packet *)
(* when the work is DONE and the rating question a day later               *)
(* (satisfaction.service), against the staff's updates                     *)
(* (wa-requests.service). The jobs run on every instance of the server. A  *)
(* step is one database statement or one call of the Graph API.            *)
(***************************************************************************)
EXTENDS Naturals, FiniteSets

CONSTANTS
  Handlers,    \* handlers at work: staff requests and the customer's messages
  Runs,        \* instances of the jobs
  LastDay,     \* bound on the days that pass
  MaxUpdates   \* bound on the staff's updates

ASSUME NoticeAssumption == LastDay \in Nat \ {0} /\ MaxUpdates \in Nat

Workers == Handlers \union Runs

VARIABLES
  day,      \* the day in India
  intake,   \* DraftIntake: the columns that the notices depend on
  talk,     \* WaContact.state: the conversation the customer is in
  updates,  \* updates the staff began
  changes,  \* how often the registry got another date or time, or none
  told,     \* the registry date and time that the last reminder told
  sent,     \* how often each notice went out
  doing,    \* worker -> the statement it will run next
  copy,     \* worker -> what it has read
  mingled   \* have two workers been at work at once?

columns == <<intake, talk, changes, told, sent>>
noticeVars == <<day, intake, talk, updates, changes, told, sent, doing, copy, mingled>>

-----------------------------------------------------------------------------

NoDay == 0
Days == 1..LastDay
RegistryDays == 2..(LastDay + 1)   \* each has a day before it
RegistryTimes == {"none", "set"}
Statuses == {"open", "DONE", "REJECTED"}
Talks == {"none", "rating", "feedback", "other"}
Ratings == {"none", "low", "high"}

RequestRows ==
  [work : Statuses, closed : Days \union {NoDay},
   registry : RegistryDays \union {NoDay}, time : RegistryTimes, reminded : BOOLEAN,
   packet : BOOLEAN, asked : BOOLEAN, rating : Ratings, feedback : BOOLEAN]

NewRequest ==
  [work |-> "open", closed |-> NoDay, registry |-> NoDay, time |-> "none",
   reminded |-> FALSE, packet |-> FALSE, asked |-> FALSE, rating |-> "none", feedback |-> FALSE]

NoticePoints ==
  {"idle", "update.write", "done.read", "done.post", "done.store",
   "remind.claim", "remind.post", "ask.claim", "ask.post", "ask.talk", "ask.store",
   "rate.store", "rate.talk", "feedback.store", "feedback.talk"}

(* What an update reads of the row and looks at later. *)
ReadRows ==
  [work : Statuses, closed : Days \union {NoDay},
   registry : RegistryDays \union {NoDay}, time : RegistryTimes]

ReadForUpdate ==
  [work |-> intake.work, closed |-> intake.closed, registry |-> intake.registry,
   time |-> intake.time]

Copies ==
  [seen : ReadRows, work : Statuses, registry : RegistryDays \union {NoDay},
   time : RegistryTimes, rating : Ratings]

NoCopy ==
  [seen |-> [work |-> "open", closed |-> NoDay, registry |-> NoDay, time |-> "none"],
   work |-> "open", registry |-> NoDay, time |-> "none", rating |-> "none"]

NoticeInit ==
  /\ day = 1
  /\ intake = NewRequest
  /\ talk = "none"
  /\ updates = 0
  /\ changes = 0
  /\ told = <<NoDay, "none">>
  /\ sent = [reminder |-> 0, packet |-> 0, question |-> 0]
  /\ doing = [p \in Workers |-> "idle"]
  /\ copy = [p \in Workers |-> NoCopy]
  /\ mingled = FALSE

-----------------------------------------------------------------------------
(* Helpers.                                                                *)

AtWork == {p \in Workers : doing[p] # "idle"}

BeginCall(p, point, locals) ==
  /\ doing[p] = "idle"
  /\ doing' = [doing EXCEPT ![p] = point]
  /\ copy' = [copy EXCEPT ![p] = locals]
  /\ mingled' = (mingled \/ AtWork # {})
  /\ UNCHANGED <<day, columns>>

GoesOn(p, from, to) ==
  /\ doing[p] = from
  /\ doing' = [doing EXCEPT ![p] = to]
  /\ UNCHANGED <<day, updates, mingled>>

Ends(p, from) ==
  /\ GoesOn(p, from, "idle")
  /\ copy' = [copy EXCEPT ![p] = NoCopy]

Sent(notice) == sent' = [sent EXCEPT ![notice] = @ + 1]

-----------------------------------------------------------------------------
(* WaRequestsService.update. A registry date may not lie in the past. The  *)
(* page has a form for the status and one for the registry.                *)

BeginChange(p, work, registry, time) ==
  /\ registry = intake.registry \/ registry = NoDay \/ registry >= day
  /\ <<work, registry, time>> # <<intake.work, intake.registry, intake.time>>
  /\ work = intake.work \/ <<registry, time>> = <<intake.registry, intake.time>>
  /\ updates < MaxUpdates
  /\ updates' = updates + 1
  /\ BeginCall(p, "update.write",
       [NoCopy EXCEPT !.seen = ReadForUpdate, !.work = work, !.registry = registry,
                      !.time = time])

IsClosed(work) == work \in {"DONE", "REJECTED"}

(* Faulty variant: the day in another time zone. *)
ClosedNextDay(seen, work) == day + 1

(* closedAtFor: set on closing, kept while closed, cleared on reopening.   *)
ClosedFor(seen, work) ==
  IF ~IsClosed(work) THEN NoDay
  ELSE IF IsClosed(seen.work) /\ seen.closed # NoDay THEN seen.closed
  ELSE day

(* Faulty variant: only another date counts as a change. *)
OnlyDate(seen, registry, time) == seen.registry # registry

(* Another date, or another time of a registry that has a date.            *)
RegistryChanged(seen, registry, time) ==
  seen.registry # registry \/ (registry # NoDay /\ seen.time # time)

(* The fields the call names are written, here those it changes.           *)
Updated(seen, work, registry, time) ==
  LET staffs == IF work = seen.work THEN intake
                ELSE [intake EXCEPT !.work = work, !.closed = ClosedFor(seen, work)]
  IN [staffs EXCEPT !.registry = IF registry = seen.registry THEN @ ELSE registry,
                    !.time = IF time = seen.time THEN @ ELSE time,
                    !.reminded = @ /\ ~RegistryChanged(seen, registry, time)]

WriteChange(p) ==
  LET seen == copy[p].seen
      work == copy[p].work
      registry == copy[p].registry
      time == copy[p].time IN
  /\ intake' = Updated(seen, work, registry, time)
  /\ changes' = IF RegistryChanged(seen, registry, time) THEN changes + 1 ELSE changes
  /\ \/ work = "DONE" /\ seen.work # "DONE"
        /\ GoesOn(p, "update.write", "done.read") /\ copy' = [copy EXCEPT ![p] = NoCopy]
     \/ ~(work = "DONE" /\ seen.work # "DONE")
        /\ Ends(p, "update.write")
  /\ UNCHANGED <<talk, told, sent>>

(* SatisfactionService.onDone, on a row read again after the update.       *)
PacketDue(seen) == ~seen.packet

ReadForPacket(p) ==
  /\ \/ PacketDue(intake) /\ GoesOn(p, "done.read", "done.post") /\ UNCHANGED copy
     \/ ~PacketDue(intake) /\ Ends(p, "done.read")
  /\ UNCHANGED columns

PostPacket(p) ==
  /\ GoesOn(p, "done.post", "done.store")
  /\ Sent("packet")
  /\ UNCHANGED <<intake, talk, changes, told, copy>>

StorePacket(p) ==
  /\ Ends(p, "done.store")
  /\ intake' = [intake EXCEPT !.packet = TRUE]
  /\ UNCHANGED <<talk, changes, told, sent>>

-----------------------------------------------------------------------------
(* RegistryJobsService.reminders: read, claim, send what was read.         *)

BeginRemind(p) ==
  /\ intake.registry = day + 1 /\ ~intake.reminded /\ intake.work # "REJECTED"
  /\ BeginCall(p, "remind.claim",
       [NoCopy EXCEPT !.registry = intake.registry, !.time = intake.time])
  /\ UNCHANGED updates

ReminderFree == ~intake.reminded

ClaimReminder(p) ==
  /\ \/ /\ ReminderFree
        /\ intake' = [intake EXCEPT !.reminded = TRUE]
        /\ GoesOn(p, "remind.claim", "remind.post")
        /\ UNCHANGED copy
     \/ /\ ~ReminderFree
        /\ Ends(p, "remind.claim")
        /\ UNCHANGED intake
  /\ UNCHANGED <<talk, changes, told, sent>>

PostReminder(p) ==
  /\ Ends(p, "remind.post")
  /\ told' = <<copy[p].registry, copy[p].time>>
  /\ Sent("reminder")
  /\ UNCHANGED <<intake, talk, changes>>

-----------------------------------------------------------------------------
(* SatisfactionService.askRatings: ratingDelayHours after DONE, once.      *)

BeginAsk(p) ==
  /\ intake.work = "DONE" /\ ~intake.asked
  /\ intake.closed # NoDay /\ intake.closed < day
  /\ BeginCall(p, "ask.claim", NoCopy)
  /\ UNCHANGED updates

QuestionFree == ~intake.asked

ClaimQuestion(p) ==
  /\ \/ /\ QuestionFree
        /\ intake' = [intake EXCEPT !.asked = TRUE]
        /\ GoesOn(p, "ask.claim", "ask.post")
        /\ UNCHANGED copy
     \/ /\ ~QuestionFree
        /\ Ends(p, "ask.claim")
        /\ UNCHANGED intake
  /\ UNCHANGED <<talk, changes, told, sent>>

PostQuestion(p) ==
  /\ GoesOn(p, "ask.post", "ask.talk")
  /\ Sent("question")
  /\ UNCHANGED <<intake, talk, changes, told, copy>>

(* Faulty variant: any conversation makes way for the rating. *)
AnyTalk == TRUE

(* Digits answer the rating only if the customer is in no conversation.    *)
MayAsk == talk = "none"

ReadTalk(p) ==
  /\ \/ MayAsk /\ GoesOn(p, "ask.talk", "ask.store") /\ UNCHANGED copy
     \/ ~MayAsk /\ Ends(p, "ask.talk")
  /\ UNCHANGED columns

StoreTalk(p) ==
  /\ Ends(p, "ask.store")
  /\ talk' = "rating"
  /\ UNCHANGED <<intake, changes, told, sent>>

-----------------------------------------------------------------------------
(* SatisfactionService.handle: a rating, then what went wrong if it is low. *)

BeginRate(p, rating) ==
  /\ talk = "rating"
  /\ BeginCall(p, "rate.store", [NoCopy EXCEPT !.rating = rating])
  /\ UNCHANGED updates

StoreRating(p) ==
  /\ GoesOn(p, "rate.store", "rate.talk")
  /\ intake' = [intake EXCEPT !.rating = copy[p].rating]
  /\ UNCHANGED <<talk, changes, told, sent, copy>>

TalkAfterRating(rating) == IF rating = "low" THEN "feedback" ELSE "none"

TalkAfter(p) ==
  /\ Ends(p, "rate.talk")
  /\ talk' = TalkAfterRating(copy[p].rating)
  /\ UNCHANGED <<intake, changes, told, sent>>

BeginFeedback(p) ==
  /\ talk = "feedback"
  /\ BeginCall(p, "feedback.store", NoCopy)
  /\ UNCHANGED updates

StoreFeedback(p) ==
  /\ GoesOn(p, "feedback.store", "feedback.talk")
  /\ intake' = [intake EXCEPT !.feedback = TRUE]
  /\ UNCHANGED <<talk, changes, told, sent, copy>>

EndFeedback(p) ==
  /\ Ends(p, "feedback.talk")
  /\ talk' = "none"
  /\ UNCHANGED <<intake, changes, told, sent>>

(* The front door opens or closes another conversation with the number.    *)
OtherTalk ==
  /\ talk' \in {"none", "other"}
  /\ talk' # talk
  /\ mingled' = (mingled \/ AtWork # {})
  /\ UNCHANGED <<day, intake, updates, changes, told, sent, doing, copy>>

-----------------------------------------------------------------------------

NextDay ==
  /\ day < LastDay
  /\ day' = day + 1
  /\ mingled' = (mingled \/ AtWork # {})
  /\ UNCHANGED <<columns, updates, doing, copy>>

NoticeNext ==
  \/ \E p \in Handlers :
       \/ \E work \in Statuses, registry \in RegistryDays \union {NoDay},
             time \in RegistryTimes : BeginChange(p, work, registry, time)
       \/ WriteChange(p) \/ ReadForPacket(p) \/ PostPacket(p) \/ StorePacket(p)
       \/ \E rating \in {"low", "high"} : BeginRate(p, rating)
       \/ StoreRating(p) \/ TalkAfter(p)
       \/ BeginFeedback(p) \/ StoreFeedback(p) \/ EndFeedback(p)
  \/ \E p \in Runs :
       \/ BeginRemind(p) \/ ClaimReminder(p) \/ PostReminder(p)
       \/ BeginAsk(p) \/ ClaimQuestion(p) \/ PostQuestion(p) \/ ReadTalk(p) \/ StoreTalk(p)
  \/ OtherTalk
  \/ NextDay

NoticeSpec == NoticeInit /\ [][NoticeNext]_noticeVars

-----------------------------------------------------------------------------
(* Properties.                                                             *)

NoticeTypeOK ==
  /\ day \in Days
  /\ intake \in RequestRows
  /\ talk \in Talks
  /\ updates \in 0..MaxUpdates
  /\ changes \in Nat
  /\ told \in (RegistryDays \union {NoDay}) \X RegistryTimes
  /\ sent \in [{"reminder", "packet", "question"} -> Nat]
  /\ doing \in [Workers -> NoticePoints]
  /\ copy \in [Workers -> Copies]
  /\ mingled \in BOOLEAN

(* "Once per request -- the claim ... makes it safe with several            *)
(* instances": no more reminders than the staff changed the registry (set, *)
(* moved or removed its date, or gave it another time, which all let the   *)
(* job remind anew), and one rating question in the life of the intake.    *)
ClaimedOnce == sent.reminder <= changes /\ sent.question <= 1

(* Likewise, and when handlers follow one another: the customer gets one   *)
(* packet however often the intake is reopened and done again, and an      *)
(* intake marked as reminded was last reminded of the date and the time it *)
(* has now.                                                                *)
NoticesInStep ==
  /\ ClaimedOnce
  /\ ~mingled /\ AtWork = {} =>
       /\ sent.packet <= 1
       /\ intake.reminded => told = <<intake.registry, intake.time>>

(* Handlers one after another: the rating question leaves a customer alone *)
(* who is in another conversation, and asks what went wrong only after a   *)
(* low rating.                                                             *)
ConversationStep ==
  ~mingled => /\ talk = "other" => talk' \in {"none", "other"}
              /\ talk' = "feedback" => intake.rating = "low"
ConversationKept == [][ConversationStep]_noticeVars
=============================================================================
